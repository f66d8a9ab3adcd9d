---------------------------- MODULE FrontierBFSProofs ----------------------------
(***************************************************************************)
(* Proofs about FrontierBFS, for every graph, number of threads, size of   *)
(* buffers, words and chunks, and every choice of directions: parents are  *)
(* shortest paths, both frontiers are exact, nothing is enqueued twice.    *)
(*                                                                         *)
(* The invariant has a level d: Within[d] has been visited, and a region   *)
(* visits what is missing of Within[d + 1]. What it has found so far is in *)
(* the threads' buffers and the slots they have filled, or in the bitmap   *)
(* and the hands of those about to set a bit.                              *)
(***************************************************************************)
EXTENDS FrontierBFS, NaturalsInduction, FiniteSetTheorems, TLAPS

-----------------------------------------------------------------------------
(* Least elements, induction and iteration over the naturals               *)

(* Every set of naturals has a least element.                              *)
LEMMA NatLeast ==
    ASSUME NEW T \in SUBSET Nat, T # {}
    PROVE  \E x \in T : \A y \in T : x <= y
<1> DEFINE R == {p \in Nat \X Nat : p[1] < p[2]}
<1>1. IsWellFoundedOn(R, Nat)
  BY NatLessThanWellFounded DEF OpToRel
<1>2. \A x, y \in Nat : <<y, x>> \in R <=> y < x
  OBVIOUS
<1> HIDE DEF R
<1>3. \E x \in T : \A y \in T : ~ (<<y, x>> \in R)
  BY <1>1, WFMin
<1>4. PICK x \in T : \A y \in T : ~ (<<y, x>> \in R)
  BY <1>3
<1>5. ASSUME NEW y \in T PROVE x <= y
  <2>1. y \in Nat /\ x \in Nat
    OBVIOUS
  <2>2. ~ (y < x)
    BY <1>2, <1>4, <2>1
  <2> QED
    BY <2>1, <2>2
<1> QED
  BY <1>5

LEMMA MinFacts ==
    ASSUME NEW T \in SUBSET Nat, T # {}
    PROVE  Min(T) \in T /\ \A y \in T : Min(T) <= y
BY NatLeast DEF Min

(* Induction, of a set of naturals.                                        *)
LEMMA NatInd ==
    ASSUME NEW S, 0 \in S, \A n \in Nat : n \in S => n + 1 \in S
    PROVE  Nat \subseteq S
<1> SUFFICES ASSUME Nat \ S # {} PROVE FALSE
  OBVIOUS
<1>1. PICK x \in Nat \ S : \A y \in Nat \ S : x <= y
  BY NatLeast
<1>2. x - 1 \in Nat /\ x - 1 \in S
  BY <1>1
<1> QED
  BY <1>1, <1>2

(* Iterating a function over the naturals.                                 *)
LEMMA Iteration ==
    ASSUME NEW X, NEW b \in X, NEW F \in [X -> X]
    PROVE  \E W \in [Nat -> X] : W[0] = b /\ \A n \in Nat : W[n + 1] = F[W[n]]
<1> DEFINE P(f, n) == /\ f \in [0 .. n -> X] /\ f[0] = b
                      /\ \A k \in 0 .. n : k + 1 <= n => f[k + 1] = F[f[k]]
<1>1. \A n \in Nat : \E f : P(f, n)
  <2> DEFINE S == {n \in Nat : \E f : P(f, n)}
  <2>1. 0 \in S
    <3>1. P([k \in 0 .. 0 |-> b], 0)
      OBVIOUS
    <3> QED
      BY <3>1
  <2>2. ASSUME NEW n \in Nat, n \in S PROVE n + 1 \in S
    <3>1. PICK f : P(f, n)
      BY <2>2
    <3> DEFINE h == [k \in 0 .. n + 1 |-> IF k = n + 1 THEN F[f[n]] ELSE f[k]]
    <3>2. h \in [0 .. n + 1 -> X]
      BY <3>1
    <3>3. h[0] = b
      BY <3>1
    <3>4. ASSUME NEW k \in 0 .. n + 1, k + 1 <= n + 1 PROVE h[k + 1] = F[h[k]]
      <4>1. k \in 0 .. n /\ h[k] = f[k]
        BY <3>4
      <4>2. CASE k = n
        BY <4>1, <4>2
      <4>3. CASE k # n
        <5>1. k + 1 <= n /\ k + 1 \in 0 .. n + 1 /\ k + 1 # n + 1
          BY <4>1, <4>3
        <5>2. h[k + 1] = f[k + 1]
          BY <5>1
        <5> QED
          BY <3>1, <4>1, <5>1, <5>2
      <4> QED
        BY <4>2, <4>3
    <3> HIDE DEF h
    <3>5. P(h, n + 1)
      BY <3>2, <3>3, <3>4
    <3> QED
      BY <3>5
  <2> HIDE DEF S
  <2>3. Nat \subseteq S
    BY <2>1, <2>2, NatInd
  <2> QED
    BY <2>3 DEF S
<1>2. ASSUME NEW n \in Nat, NEW m \in Nat, NEW f, NEW h, P(f, n), P(h, m)
      PROVE  \A k \in Nat : k <= n /\ k <= m => f[k] = h[k]
  <2> DEFINE S == {k \in Nat : k <= n /\ k <= m => f[k] = h[k]}
  <2>1. 0 \in S
    BY <1>2
  <2>2. ASSUME NEW k \in Nat, k \in S PROVE k + 1 \in S
    <3>1. CASE k + 1 <= n /\ k + 1 <= m
      <4>1. f[k] = h[k] /\ k \in 0 .. n /\ k \in 0 .. m
        BY <2>2, <3>1
      <4> QED
        BY <1>2, <3>1, <4>1
    <3> QED
      BY <3>1
  <2> HIDE DEF S
  <2>3. Nat \subseteq S
    BY <2>1, <2>2, NatInd
  <2> QED
    BY <2>3 DEF S
<1> DEFINE G(n) == CHOOSE f : P(f, n)
           W == [n \in Nat |-> G(n)[n]]
<1>3. \A n \in Nat : P(G(n), n)
  BY <1>1
<1> HIDE DEF G
<1>4. W \in [Nat -> X]
  BY <1>3
<1>5. W[0] = b
  BY <1>3
<1>6. ASSUME NEW n \in Nat PROVE W[n + 1] = F[W[n]]
  <2>1. P(G(n), n) /\ P(G(n + 1), n + 1)
    BY <1>3
  <2>2. G(n + 1)[n] = G(n)[n]
    BY <1>2, <2>1
  <2>3. G(n + 1)[n + 1] = F[G(n + 1)[n]]
    BY <2>1
  <2> QED
    BY <2>2, <2>3
<1> QED
  BY <1>4, <1>5, <1>6

-----------------------------------------------------------------------------
Row(u) == ToSet(out_neigh(u))
Filled == {s \in V : shared[s] # NoSlot}
Held(t) == ToSet(local_queue[t]) \cup ToSet(hold[t])
Mine(t) == copy_start[t] .. copy_start[t] + Len(local_queue[t]) - 1

(* What has been found in this region and is in a slot or a buffer.        *)
Enqueued == {v \in V : \/ \E s \in Filled : s >= shared_out_end /\ shared[s] = v
                       \/ \E t \in Threads : v \in Held(t)}

Distinct(q) == \A i, k \in DOMAIN q : q[i] = q[k] => i = k

(* Which threads are where, and who holds vertices.                        *)
RegionInv ==
    /\ phase \in {"loop", "done"} => \A t \in Threads : pc[t] = "end"
    /\ phase \notin {"td", "c"} => shared_in = shared_out_end
    /\ phase \in {"bu", "c", "done"} => shared_out_start = shared_out_end
    /\ phase \in {"e", "td"} => shared_out_start < shared_out_end
    /\ phase = "bu" => old_awake_count >= 1
    /\ \A t \in Threads :
         /\ pc[t] = "end" => work = {}
         /\ pc[t] = "end" \/ phase \in {"e", "bu"} => local_queue[t] = <<>>
         /\ hold[t] # <<>> => pc[t] \in {"reserve", "copy"}
         /\ pc[t] \in {"reserve", "copy"} /\ hold[t] = <<>> => work = {}

(* A slot is filled when it has been reserved and its thread has copied.   *)
SlotsInv ==
    /\ \A t \in Threads : pc[t] = "copy" =>
         shared_out_end <= copy_start[t] /\ copy_start[t] + Len(local_queue[t]) <= shared_in
    /\ \A t, w \in Threads :
         t # w /\ pc[t] = "copy" /\ pc[w] = "copy" => Mine(t) \cap Mine(w) = {}
    /\ \A s \in V : s \in Filled <=>
         s < shared_in /\ \A t \in Threads : pc[t] = "copy" => s \notin Mine(t)

DistinctInv ==
    /\ \A s, r \in Filled : shared[s] = shared[r] => s = r
    /\ \A t \in Threads :
         /\ Distinct(local_queue[t])
         /\ ToSet(hold[t]) \cap ToSet(local_queue[t]) = {}
         /\ \A s \in Filled : shared[s] \notin Held(t)
    /\ \A t, w \in Threads : t # w => Held(t) \cap Held(w) = {}

(* Parents, and the degrees counted of the vertices claimed.               *)
ParentInv ==
    /\ parent[input.source] = input.source
    /\ phase # "done" => \A v \in V : parent[v] < 0 => parent[v] = InitParent[v]
    /\ phase = "done" => \A v \in V : parent[v] < 0 => parent[v] = -1
    /\ \A v \in Visited \ {input.source} :
         /\ <<parent[v], v>> \in input.edges
         /\ parent[v] \in Reachable /\ v \in Reachable /\ Dist(v) = Dist(parent[v]) + 1

ScoutInv ==
    scout_count <= Cardinality({e \in input.edges : e[1] \in Visited}) + Cardinality(Visited)

-----------------------------------------------------------------------------
(* What holds at level d.                                                  *)

LevelInv(d) ==
    /\ Within[d] \subseteq Visited
    /\ phase \in {"loop", "e", "c", "done"} => Visited = Within[d]
    /\ phase \in {"e", "td", "bu"} => d < input.n /\ Ring(d) # {}
    /\ phase \in {"td", "bu"} => Visited \subseteq Within[d + 1]
    /\ phase \in {"loop", "e", "td", "done"} => {shared[s] : s \in Window} = Ring(d)
    /\ \A s \in Filled : s < shared_out_end =>
         shared[s] \in Within[d] /\ (phase = "c" => shared[s] \notin front)

(* Bits of earlier levels are of vertices that are done with.              *)
FrontInv(d) ==
    /\ front \subseteq Within[d]
    /\ \A v \in front \ Ring(d) : Row(v) \subseteq Within[d]
    /\ phase \in {"bu", "c"} => Ring(d) \subseteq front
    /\ phase = "c" => front = Ring(d)

QueueToBitmapInv(d) ==
    phase = "e" =>
        /\ \A t \in Threads : pc[t] \in {"read_word", "cas_word"} =>
             \E s \in Window : at[t] = {shared[s]}
        /\ \A s \in Window \ work : shared[s] \in front \/
             \E t \in Threads : pc[t] \in {"read_word", "cas_word"} /\ at[t] = {shared[s]}

BitmapToQueueInv(d) == phase = "c" => Enqueued = front \ work

(* A thread in TDStep has a vertex at hand.                                *)
InHand(t) == pc[t] \in {"look", "claim"} \/ hold[t] # <<>>

TDInv(d) ==
    phase = "td" =>
        /\ Enqueued = Visited \ Within[d]
        /\ \A t \in Threads :
             /\ InHand(t) =>
                  /\ \E s \in Window : at[t] = {shared[s]}
                  /\ nth[t] <= Len(Neighbours(t))
                  /\ \A k \in 1 .. nth[t] : Neighbours(t)[k] \in Visited
             /\ pc[t] = "claim" => /\ nth[t] < Len(Neighbours(t))
                                  /\ seen[t] = {InitParent[Neighbours(t)[nth[t] + 1]]}
        /\ \A s \in Window \ work :
             \/ Row(shared[s]) \subseteq Visited
             \/ \E t \in Threads : InHand(t) /\ at[t] = {shared[s]}

Scanning(t) == pc[t] \in {"scan", "set_bit"}

BUInv(d) ==
    phase = "bu" =>
        /\ \A t \in Threads :
             /\ Scanning(t) => \E c \in Chunks \ work : at[t] \subseteq c
             /\ pc[t] = "set_bit" =>
                  /\ at[t] # {} /\ Min(at[t]) \in Visited \ (Within[d] \cup curr)
                  /\ seen[t] = curr \cap Word(Min(at[t]))
        /\ \A t, w \in Threads : \A c \in Chunks :
             t # w /\ Scanning(t) /\ Scanning(w) => at[t] \cap c = {} \/ at[w] \cap c = {}
        /\ curr \subseteq Visited \ Within[d]
        /\ \A v \in Visited \ Within[d] : v \in curr \/
             \E t \in Threads : pc[t] = "set_bit" /\ v = Min(at[t])
        /\ awake_count = Cardinality(Visited \ Within[d])
        /\ \A v \in V : Found(v) =>
             (\E c \in work : v \in c) \/ \E t \in Threads : Scanning(t) /\ v \in at[t]

AtLevel(d) ==
    /\ LevelInv(d) /\ FrontInv(d)
    /\ QueueToBitmapInv(d) /\ BitmapToQueueInv(d) /\ TDInv(d) /\ BUInv(d)

IInv ==
    /\ TypeOK /\ RegionInv /\ SlotsInv /\ DistinctInv /\ ParentInv /\ ScoutInv
    /\ \E d \in 0 .. input.n : AtLevel(d)

-----------------------------------------------------------------------------
(* The graph and its levels.                                               *)

LEMMA SeqElements ==
    ASSUME NEW S, NEW q \in Seq(S)
    PROVE  ToSet(q) \subseteq S
BY DEF ToSet

LEMMA InputFacts ==
    ASSUME NEW g \in Inputs
    PROVE  /\ g.n \in Nat \ {0} /\ g.source \in 0 .. g.n - 1
           /\ g.edges \subseteq (0 .. g.n - 1) \X (0 .. g.n - 1)
           /\ IsFiniteSet(0 .. g.n - 1) /\ Cardinality(0 .. g.n - 1) = g.n
           /\ IsFiniteSet(g.edges)
           /\ {g.alpha, g.beta} \subseteq Nat \ {0}
           /\ \A u \in 0 .. g.n - 1 :
                /\ g.out_neigh[u] \in Seq(0 .. g.n - 1) /\ Distinct(g.out_neigh[u])
                /\ ToSet(g.out_neigh[u]) = {e[2] : e \in {d \in g.edges : d[1] = u}}
                /\ ToSet(g.out_neigh[u]) \subseteq 0 .. g.n - 1
<1> DEFINE N == 0 .. g.n - 1
<1>1. /\ g.n \in Nat /\ g.source \in N /\ g.edges \subseteq N \X N
      /\ g.out_neigh \in [N -> Seq(N)] /\ {g.alpha, g.beta} \subseteq Nat \ {0}
      /\ \A u \in N : /\ IsInjective(g.out_neigh[u])
                      /\ ToSet(g.out_neigh[u]) = {e[2] : e \in {d \in g.edges : d[1] = u}}
  BY InputsAssumption
<1>2. g.n \in Nat \ {0}
  BY <1>1
<1>3. IsFiniteSet(N) /\ Cardinality(N) = g.n
  <2>1. 0 \in Int /\ g.n - 1 \in Int /\ ~ (0 > g.n - 1) /\ (g.n - 1) - 0 + 1 = g.n
    BY <1>2
  <2> QED
    BY <2>1, FS_Interval
<1>4. IsFiniteSet(g.edges)
  BY <1>1, <1>3, FS_Product, FS_Subset
<1>5. \A u \in N : g.out_neigh[u] \in Seq(N)
  BY <1>1
<1>6. ASSUME NEW u \in N PROVE ToSet(g.out_neigh[u]) \subseteq N
  <2>1. g.out_neigh[u] \in Seq(N)
    BY <1>1
  <2> HIDE DEF N
  <2> QED
    BY <2>1, SeqElements
<1>7. \A u \in N : Distinct(g.out_neigh[u])
  BY <1>1 DEF IsInjective, Distinct
<1> QED
  BY <1>1, <1>2, <1>3, <1>4, <1>5, <1>6, <1>7

Longer(g, W) == W \cup UNION {ToSet(g.out_neigh[u]) : u \in W}

LEMMA LevelsDef ==
    ASSUME NEW g \in Inputs
    PROVE  /\ Levels(g)[0] = {g.source}
           /\ \A d \in 0 .. g.n : Levels(g)[d] \subseteq 0 .. g.n - 1
           /\ \A d \in 0 .. g.n : d < g.n => Levels(g)[d + 1] = Longer(g, Levels(g)[d])
<1> DEFINE X == SUBSET (0 .. g.n - 1)
           b == {g.source}
           F == [W \in X |-> Longer(g, W)]
           D == 0 .. g.n
           Eq(W) == W = [d \in D |-> IF d = 0 THEN b ELSE W[d - 1] \cup
                                       UNION {ToSet(g.out_neigh[u]) : u \in W[d - 1]}]
<1>1. b \in X /\ g.n \in Nat
  BY InputFacts
<1>2. ASSUME NEW W \in X PROVE Longer(g, W) \in X
  BY InputFacts DEF Longer
<1>3. F \in [X -> X] /\ \A W \in X : F[W] = Longer(g, W)
  BY <1>2
<1> HIDE DEF X, b, F, D, Eq
<1>4. PICK W \in [Nat -> X] : W[0] = b /\ \A n \in Nat : W[n + 1] = F[W[n]]
  <2>1. b \in X /\ F \in [X -> X]
    BY <1>1, <1>3
  <2> QED
    BY <2>1, Iteration, Z3
<1> DEFINE R == [d \in D |-> W[d]]
<1> USE DEF D, Eq
<1>5. Eq(R)
  <2>1. ASSUME NEW d \in D
        PROVE  R[d] = IF d = 0 THEN b ELSE Longer(g, R[d - 1])
    <3>1. CASE d = 0
      BY <1>4, <3>1
    <3>2. CASE d # 0
      <4>1. d - 1 \in D /\ d - 1 \in Nat /\ (d - 1) + 1 = d /\ d \in Nat
        BY <3>2, <1>1
      <4>2. W[d] = F[W[d - 1]] /\ W[d - 1] \in X
        BY <1>4, <4>1
      <4> QED
        BY <3>2, <4>1, <4>2, <1>3
    <3> QED
      BY <3>1, <3>2
  <2> HIDE DEF D
  <2>2. R = [d \in D |-> IF d = 0 THEN b ELSE Longer(g, R[d - 1])]
    <3>1. R = [d \in D |-> R[d]]
      OBVIOUS
    <3> HIDE DEF R
    <3> QED
      BY <2>1, <3>1
  <2> HIDE DEF R
  <2> QED
    BY <2>2 DEF Longer
<1> DEFINE K == CHOOSE Q : Eq(Q)
<1>6. Levels(g) = K
  BY DEF Levels, b
<1>7. Eq(K)
  BY <1>5
<1> HIDE DEF K
<1>8. \A d \in D : K[d] = IF d = 0 THEN b ELSE Longer(g, K[d - 1])
  BY <1>7 DEF Longer
<1>9. K[0] = b
  BY <1>8, <1>1
<1>10. ASSUME NEW d \in D, d < g.n PROVE K[d + 1] = Longer(g, K[d])
  <2>1. d + 1 \in D /\ d + 1 # 0 /\ (d + 1) - 1 = d
    BY <1>10, <1>1
  <2> QED
    BY <1>8, <2>1
<1>11. \A d \in D : K[d] \in X
  <2> DEFINE S == {d \in Nat : d <= g.n => K[d] \in X}
  <2>1. 0 \in S
    BY <1>9, <1>1
  <2>2. ASSUME NEW d \in Nat, d \in S PROVE d + 1 \in S
    BY <2>2, <1>10, <1>2, <1>1
  <2> HIDE DEF S
  <2>3. Nat \subseteq S
    BY <2>1, <2>2, NatInd
  <2> QED
    BY <2>3, <1>1 DEF S
<1> QED
  BY <1>6, <1>9, <1>10, <1>11 DEF X, b

LEMMA WithinDef ==
    ASSUME input \in Inputs
    PROVE  /\ Within[0] = {input.source} /\ input.n \in Nat \ {0} /\ input.source \in V
           /\ \A d \in 0 .. input.n : Within[d] \subseteq V
           /\ \A d \in 0 .. input.n : d < input.n =>
                Within[d + 1] = Within[d] \cup UNION {Row(u) : u \in Within[d]}
<1>1. Levels(input)[0] = {input.source} /\ input.n \in Nat \ {0} /\ input.source \in V
  BY LevelsDef, InputFacts DEF V
<1>2. \A d \in 0 .. input.n : Levels(input)[d] \subseteq V
  BY LevelsDef DEF V
<1>3. \A d \in 0 .. input.n : d < input.n => Levels(input)[d + 1] = Longer(input, Levels(input)[d])
  BY LevelsDef
<1> QED
  BY <1>1, <1>2, <1>3 DEF Within, Longer, Row, out_neigh

(* Rows are the edges; the neighbours of a vertex visited at d are visited *)
(* at d + 1.                                                               *)
LEMMA RowFacts ==
    ASSUME input \in Inputs
    PROVE  \A u \in V : /\ out_neigh(u) \in Seq(V) /\ Distinct(out_neigh(u))
                        /\ Row(u) = Succ(u) /\ Row(u) \subseteq V
                        /\ \A v : v \in Row(u) <=> <<u, v>> \in input.edges
<1> SUFFICES ASSUME NEW u \in V
             PROVE  /\ out_neigh(u) \in Seq(V) /\ Distinct(out_neigh(u))
                    /\ Row(u) = Succ(u) /\ Row(u) \subseteq V
                    /\ \A v : v \in Row(u) <=> <<u, v>> \in input.edges
  OBVIOUS
<1>1. out_neigh(u) \in Seq(V) /\ Distinct(out_neigh(u)) /\ Row(u) \subseteq V
  BY InputFacts DEF V, Row, out_neigh
<1>2. Row(u) = {e[2] : e \in {d \in input.edges : d[1] = u}}
  BY InputFacts DEF V, Row, out_neigh
<1>3. input.edges \subseteq V \X V
  BY InputFacts DEF V
<1>4. ASSUME NEW v PROVE v \in Row(u) <=> <<u, v>> \in input.edges
  <2>1. ASSUME v \in Row(u) PROVE <<u, v>> \in input.edges
    <3>1. PICK e \in input.edges : e[1] = u /\ v = e[2]
      BY <1>2, <2>1
    <3>2. e = <<e[1], e[2]>>
      BY <1>3
    <3> QED
      BY <3>1, <3>2
  <2>2. ASSUME <<u, v>> \in input.edges PROVE v \in Row(u)
    <3> DEFINE e == <<u, v>>
    <3>1. e[1] = u /\ e[2] = v
      OBVIOUS
    <3> QED
      BY <1>2, <2>2, <3>1
  <2> QED
    BY <2>1, <2>2
<1>5. Row(u) = Succ(u)
  BY <1>1, <1>4 DEF Succ
<1> QED
  BY <1>1, <1>4, <1>5

LEMMA WithinGrows ==
    ASSUME input \in Inputs, NEW d \in 0 .. input.n, NEW e \in 0 .. input.n, d <= e
    PROVE  Within[d] \subseteq Within[e]
<1> DEFINE S == {k \in Nat : d + k <= input.n => Within[d] \subseteq Within[d + k]}
<1>0. input.n \in Nat /\ d \in Nat /\ e \in Nat
  BY WithinDef
<1>1. 0 \in S
  BY <1>0
<1>2. ASSUME NEW k \in Nat, k \in S PROVE k + 1 \in S
  <2>1. CASE d + (k + 1) <= input.n
    <3>1. d + k \in 0 .. input.n /\ d + k < input.n /\ (d + k) + 1 = d + (k + 1)
      BY <1>0, <2>1
    <3>2. Within[d + k] \subseteq Within[(d + k) + 1]
      BY <3>1, WithinDef
    <3> QED
      BY <1>2, <3>1, <3>2
  <2> QED
    BY <2>1
<1> HIDE DEF S
<1>3. Nat \subseteq S
  BY <1>1, <1>2, NatInd
<1>4. e - d \in S /\ d + (e - d) = e
  BY <1>0, <1>3
<1> QED
  BY <1>4, <1>0 DEF S

LEMMA DistFacts ==
    ASSUME input \in Inputs, NEW d \in 0 .. input.n, NEW v \in Within[d]
    PROVE  /\ Dist(v) \in 0 .. input.n /\ Dist(v) <= d
           /\ \A e \in 0 .. input.n : v \in Within[e] <=> Dist(v) <= e
<1> DEFINE T == {e \in 0 .. input.n : v \in Within[e]}
<1>0. input.n \in Nat
  BY WithinDef
<1>1. d \in T /\ T \subseteq Nat
  BY <1>0
<1>2. Min(T) \in T /\ \A e \in T : Min(T) <= e
  BY <1>1, MinFacts
<1>3. Dist(v) = Min(T)
  BY DEF Dist
<1>4. ASSUME NEW e \in 0 .. input.n, Dist(v) <= e PROVE v \in Within[e]
  <2>1. Dist(v) \in 0 .. input.n /\ v \in Within[Dist(v)]
    BY <1>2, <1>3
  <2> QED
    BY <2>1, <1>4, WithinGrows
<1> QED
  BY <1>1, <1>2, <1>3, <1>4

(* A ring is what a level adds.                                            *)
LEMMA RingFacts ==
    ASSUME input \in Inputs
    PROVE  /\ Ring(0) = {input.source} /\ Dist(input.source) = 0
           /\ \A d \in 0 .. input.n : /\ Ring(d) \subseteq Within[d]
                                      /\ d < input.n => Ring(d + 1) = Within[d + 1] \ Within[d]
<1>0. input.n \in Nat \ {0}
  BY WithinDef
<1>1. \A d \in 0 .. input.n : Ring(d) \subseteq Within[d]
  BY DEF Ring
<1>2. ASSUME NEW d \in 0 .. input.n, d < input.n PROVE Ring(d + 1) = Within[d + 1] \ Within[d]
  <2>1. d + 1 \in 0 .. input.n
    BY <1>0, <1>2
  <2>2. ASSUME NEW v \in Within[d + 1] PROVE Dist(v) = d + 1 <=> v \notin Within[d]
    <3>1. Dist(v) \in 0 .. input.n /\ Dist(v) <= d + 1 /\ (v \in Within[d] <=> Dist(v) <= d)
      BY <2>1, DistFacts
    <3> QED
      BY <3>1, <1>0
  <2> QED
    BY <2>2 DEF Ring
<1>3. Within[0] = {input.source} /\ 0 \in 0 .. input.n
  BY WithinDef
<1>4. Dist(input.source) = 0
  <2>1. Dist(input.source) \in 0 .. input.n /\ Dist(input.source) <= 0
    BY <1>3, DistFacts
  <2> QED
    BY <2>1, <1>0
<1>5. Ring(0) = {input.source}
  BY <1>3, <1>4 DEF Ring
<1> QED
  BY <1>1, <1>2, <1>4, <1>5

(* Once a ring is empty nothing more is reached.                           *)
LEMMA RingEmpty ==
    ASSUME input \in Inputs, NEW d \in 0 .. input.n, Ring(d) = {}
    PROVE  /\ \A e \in 0 .. input.n : d <= e => Within[e] = Within[d] /\ Ring(e) = {}
           /\ Within[d] = Reachable
<1>0. input.n \in Nat \ {0} /\ d \in Nat
  BY WithinDef
<1>1. d # 0
  BY RingFacts
<1>2. d - 1 \in 0 .. input.n /\ d - 1 < input.n /\ (d - 1) + 1 = d
  BY <1>0, <1>1
<1>3. Within[d - 1] = Within[d]
  <2>1. Ring(d) = Within[d] \ Within[d - 1]
    BY <1>2, RingFacts
  <2>2. Within[d - 1] \subseteq Within[d]
    BY <1>2, <1>0, WithinGrows
  <2> QED
    BY <2>1, <2>2
<1> DEFINE S == {k \in Nat : d + k <= input.n => Within[d + k] = Within[d]}
<1>4. 0 \in S
  BY <1>0
<1>5. ASSUME NEW k \in Nat, k \in S PROVE k + 1 \in S
  <2>1. CASE d + (k + 1) <= input.n
    <3>1. d + k \in 0 .. input.n /\ d + k < input.n /\ (d + k) + 1 = d + (k + 1)
      BY <1>0, <2>1
    <3>2. Within[d + (k + 1)] = Longer(input, Within[d + k])
      BY <3>1, LevelsDef DEF Within
    <3>3. Within[(d - 1) + 1] = Longer(input, Within[d - 1])
      BY <1>2, LevelsDef DEF Within
    <3>4. Within[d + k] = Within[d]
      BY <1>5, <3>1
    <3> QED
      BY <3>2, <3>3, <3>4, <1>2, <1>3
  <2> QED
    BY <2>1
<1> HIDE DEF S
<1>6. Nat \subseteq S
  BY <1>4, <1>5, NatInd
<1>7. ASSUME NEW e \in 0 .. input.n, d <= e PROVE Within[e] = Within[d]
  <2>1. e - d \in S /\ d + (e - d) = e
    BY <1>0, <1>6, <1>7
  <2> QED
    BY <2>1, <1>0 DEF S
<1>8. ASSUME NEW e \in 0 .. input.n, d <= e PROVE Ring(e) = {}
  <2>1. CASE e = d
    BY <2>1
  <2>2. CASE e # d
    <3>1. e - 1 \in 0 .. input.n /\ e - 1 < input.n /\ (e - 1) + 1 = e /\ d <= e - 1
      BY <1>0, <1>8, <2>2
    <3>2. Within[e] = Within[e - 1]
      BY <3>1, <1>7, <1>8
    <3> QED
      BY <3>1, <3>2, RingFacts
  <2> QED
    BY <2>1, <2>2
<1>9. Within[d] = Reachable
  <2>1. input.n \in 0 .. input.n /\ d <= input.n
    BY <1>0
  <2> QED
    BY <2>1, <1>7 DEF Reachable
<1> QED
  BY <1>7, <1>8, <1>9

(* A ring that is not empty is not the last: each has a vertex of its own. *)
LEMMA RingNotLast ==
    ASSUME input \in Inputs, NEW d \in 0 .. input.n, Ring(d) # {}
    PROVE  d < input.n
<1>0. input.n \in Nat \ {0} /\ IsFiniteSet(V) /\ Cardinality(V) = input.n /\ d \in Nat
  BY InputFacts DEF V
<1> SUFFICES ASSUME d = input.n PROVE FALSE
  BY <1>0
<1>1. ASSUME NEW k \in 0 .. input.n PROVE Ring(k) # {}
  <2>1. k <= d
    BY <1>0
  <2> QED
    BY <2>1, RingEmpty
<1>2. \A k \in 0 .. input.n : IsFiniteSet(Within[k]) /\ Cardinality(Within[k]) \in Nat
                              /\ Cardinality(Within[k]) <= input.n
  BY <1>0, WithinDef, FS_Subset, FS_CardinalityType
<1> DEFINE S == {k \in Nat : k <= input.n => Cardinality(Within[k]) >= k + 1}
<1>3. 0 \in S
  <2>1. Within[0] = {input.source} /\ 0 \in 0 .. input.n
    BY WithinDef
  <2>2. Cardinality(Within[0]) = 1
    BY <2>1, FS_Singleton
  <2> QED
    BY <2>2
<1>4. ASSUME NEW k \in Nat, k \in S PROVE k + 1 \in S
  <2>1. CASE k + 1 <= input.n
    <3>1. k \in 0 .. input.n /\ k + 1 \in 0 .. input.n /\ k < input.n
      BY <1>0, <2>1
    <3>2. PICK v : v \in Within[k + 1] \ Within[k]
      BY <3>1, <1>1, RingFacts
    <3>3. Within[k] \cup {v} \subseteq Within[k + 1]
      BY <3>1, <3>2, WithinGrows, <1>0
    <3>4. Cardinality(Within[k] \cup {v}) = Cardinality(Within[k]) + 1
      BY <3>1, <3>2, <1>2, FS_AddElement
    <3>5. Cardinality(Within[k] \cup {v}) <= Cardinality(Within[k + 1])
      BY <3>1, <3>3, <1>2, FS_Subset
    <3> QED
      BY <1>2, <1>4, <3>1, <3>4, <3>5
  <2> QED
    BY <2>1
<1> HIDE DEF S
<1>5. Nat \subseteq S
  BY <1>3, <1>4, NatInd
<1>6. input.n \in S /\ input.n \in 0 .. input.n
  BY <1>0, <1>5
<1> QED
  BY <1>0, <1>2, <1>6 DEF S

(* From a vertex of the last level visited to one not visited is a step    *)
(* of one level.                                                           *)
LEMMA NextLevel ==
    ASSUME input \in Inputs, NEW d \in 0 .. input.n, d < input.n,
           NEW u \in Within[d], NEW v \in Row(u)
    PROVE  /\ v \in Within[d + 1] /\ v \in V /\ u \in Reachable /\ v \in Reachable
           /\ <<u, v>> \in input.edges
           /\ u \in Ring(d) /\ v \notin Within[d] => Dist(v) = Dist(u) + 1
<1>0. input.n \in Nat /\ d + 1 \in 0 .. input.n /\ input.n \in 0 .. input.n /\ u \in V
  BY WithinDef
<1>1. v \in Within[d + 1]
  BY WithinDef
<1>2. v \in V /\ <<u, v>> \in input.edges
  BY <1>0, RowFacts
<1>3. u \in Reachable /\ v \in Reachable
  <2>1. Within[d] \subseteq Within[input.n] /\ Within[d + 1] \subseteq Within[input.n]
    BY <1>0, WithinGrows
  <2> QED
    BY <2>1, <1>1 DEF Reachable
<1>4. ASSUME u \in Ring(d), v \notin Within[d] PROVE Dist(v) = Dist(u) + 1
  <2>1. Dist(u) = d
    BY <1>4 DEF Ring
  <2>2. v \in Ring(d + 1)
    BY <1>1, <1>4, RingFacts
  <2> QED
    BY <2>1, <2>2 DEF Ring
<1> QED
  BY <1>1, <1>2, <1>3, <1>4

(* Every vertex within d + 1 is within d or next to one in the ring of d,  *)
(* provided that the earlier ones are done with.                           *)
LEMMA WithinNext ==
    ASSUME input \in Inputs, NEW d \in 0 .. input.n, d < input.n, NEW v \in Within[d + 1]
    PROVE  v \in Within[d] \/ \E u \in Ring(d) : v \in Row(u)
<1>0. input.n \in Nat /\ d \in Nat
  BY WithinDef
<1>1. CASE v \in Within[d]
  BY <1>1
<1>2. CASE v \notin Within[d]
  <2>1. PICK u \in Within[d] : v \in Row(u)
    BY <1>2, WithinDef
  <2>2. Dist(u) \in 0 .. input.n /\ Dist(u) <= d /\ u \in Within[Dist(u)]
    BY <2>1, DistFacts, <1>0
  <2>3. CASE Dist(u) = d
    BY <2>1, <2>3 DEF Ring
  <2>4. CASE Dist(u) # d
    <3>1. Dist(u) + 1 \in 0 .. input.n /\ Dist(u) + 1 <= d /\ Dist(u) < input.n
      BY <1>0, <2>2, <2>4
    <3>2. v \in Within[Dist(u) + 1]
      BY <2>1, <2>2, <3>1, WithinDef
    <3> QED
      BY <1>2, <3>1, <3>2, WithinGrows
  <2> QED
    BY <2>3, <2>4
<1> QED
  BY <1>1, <1>2

-----------------------------------------------------------------------------
(* What steps have in common.                                              *)

LEMMA SameGraph ==
    ASSUME input' = input
    PROVE  /\ V' = V /\ Within' = Within /\ Reachable' = Reachable /\ Chunks' = Chunks
           /\ \A u : /\ out_neigh(u)' = out_neigh(u) /\ Row(u)' = Row(u) /\ Succ(u)' = Succ(u)
                     /\ Pred(u)' = Pred(u) /\ Word(u)' = Word(u) /\ Dist(u)' = Dist(u)
                     /\ Ring(u)' = Ring(u)
           /\ InitParent' = InitParent
<1>1. V' = V
  BY DEF V
<1>2. Within' = Within
  BY DEF Within
<1>3. Reachable' = Reachable
  BY <1>2 DEF Reachable
<1>4. Chunks' = Chunks
  BY <1>1 DEF Chunks
<1>5. \A u : out_neigh(u)' = out_neigh(u)
  BY DEF out_neigh
<1>6. \A u : Row(u)' = Row(u)
  BY <1>5 DEF Row
<1>7. \A u : Succ(u)' = Succ(u) /\ Pred(u)' = Pred(u) /\ Word(u)' = Word(u)
  BY <1>1 DEF Succ, Pred, Word
<1>8. \A u : Dist(u)' = Dist(u)
  BY <1>2 DEF Dist
<1>9. \A u : Ring(u)' = Ring(u)
  BY <1>2, <1>8 DEF Ring
<1>10. InitParent' = InitParent
  BY <1>1, <1>7 DEF InitParent
<1> QED
  BY <1>1, <1>2, <1>3, <1>4, <1>5, <1>6, <1>7, <1>8, <1>9, <1>10

LEMMA InputStays == ASSUME [Next]_vars PROVE input' = input
BY DEF Next, MasterStep, BottomUp, TopDown, Finish, TDEnds, BUStarts, BUAgain, BUEnds,
     QueueFilled, Fork, ThreadStep, Flushing, QueueToBitmap, BUStep, BitmapToQueue, TDStep,
     Exploring, Terminated, master, vars

LEMMA InitParentFacts ==
    ASSUME input \in Inputs
    PROVE  \A v \in V : /\ IsFiniteSet(Succ(v)) /\ Cardinality(Succ(v)) \in 0 .. input.n
                        /\ InitParent[v] \in -input.n .. -1
                        /\ Cardinality(Succ(v)) <= -InitParent[v]
                        /\ -InitParent[v] <= Cardinality(Succ(v)) + 1
<1> SUFFICES ASSUME NEW v \in V
             PROVE  /\ IsFiniteSet(Succ(v)) /\ Cardinality(Succ(v)) \in 0 .. input.n
                    /\ InitParent[v] \in -input.n .. -1
                    /\ Cardinality(Succ(v)) <= -InitParent[v]
                    /\ -InitParent[v] <= Cardinality(Succ(v)) + 1
  OBVIOUS
<1>0. input.n \in Nat \ {0} /\ IsFiniteSet(V) /\ Cardinality(V) = input.n
  BY InputFacts DEF V
<1>1. Succ(v) \in SUBSET V
  BY DEF Succ
<1>2. IsFiniteSet(Succ(v)) /\ Cardinality(Succ(v)) <= input.n
  BY <1>0, <1>1, FS_Subset
<1>3. Cardinality(Succ(v)) \in Nat
  BY <1>2, FS_CardinalityType
<1>4. Succ(v) # {} => Cardinality(Succ(v)) # 0
  BY <1>2, FS_EmptySet
<1>5. Succ(v) = {} => Cardinality(Succ(v)) = 0
  BY FS_EmptySet
<1>6. InitParent[v] = IF Succ(v) # {} THEN -Cardinality(Succ(v)) ELSE -1
  BY DEF InitParent
<1> QED
  BY <1>0, <1>2, <1>3, <1>4, <1>5, <1>6

(* A vertex is visited: what becomes of the tree and the sum of degrees.   *)
Visit(d, u, v) ==
    /\ u \in Ring(d) /\ v \in Row(u) /\ v \in V \ Visited
    /\ parent' = [parent EXCEPT ![v] = u]
    /\ UNCHANGED <<input, phase>>

LEMMA VisitFacts ==
    ASSUME TypeOK, ParentInv, NEW d \in 0 .. input.n, d < input.n, Within[d] \subseteq Visited,
           phase # "done", NEW u, NEW v, Visit(d, u, v)
    PROVE  /\ Visited' = Visited \cup {v} /\ v \in Within[d + 1]
           /\ parent' \in [V -> -input.n .. input.n - 1]
           /\ ParentInv'
<1>0. input \in Inputs /\ parent \in [V -> -input.n .. input.n - 1] /\ input.n \in Nat \ {0}
      /\ input.source \in V
  BY WithinDef DEF TypeOK
<1>1. u \in Within[d] /\ u \in V
  BY <1>0, RingFacts, WithinDef DEF Visit
<1>2. /\ v \in Within[d + 1] /\ u \in Reachable /\ v \in Reachable /\ <<u, v>> \in input.edges
      /\ Dist(v) = Dist(u) + 1
  BY <1>0, <1>1, NextLevel DEF Visit
<1>3. u \in -input.n .. input.n - 1 /\ u >= 0
  BY <1>0, <1>1 DEF V
<1>4. parent' \in [V -> -input.n .. input.n - 1]
  BY <1>0, <1>3 DEF Visit
<1>5. V' = V /\ Reachable' = Reachable /\ input' = input /\ phase' = phase /\ InitParent' = InitParent
      /\ \A x : Dist(x)' = Dist(x)
  BY SameGraph DEF Visit
<1>6. \A x \in V : parent'[x] = IF x = v THEN u ELSE parent[x]
  BY <1>0 DEF Visit
<1>7. Visited' = Visited \cup {v}
  BY <1>3, <1>5, <1>6 DEF Visited, Visit
<1>8. parent[input.source] = input.source /\ input.source \in Visited /\ v # input.source
  BY <1>0 DEF ParentInv, Visited, V, Visit
<1>9. parent'[input.source] = input.source
  BY <1>0, <1>6, <1>8
<1>10. \A x \in V : parent'[x] < 0 => parent'[x] = InitParent[x]
  BY <1>3, <1>6 DEF ParentInv
<1>11. ASSUME NEW x \in Visited' \ {input.source}
       PROVE  /\ <<parent'[x], x>> \in input.edges
              /\ parent'[x] \in Reachable /\ x \in Reachable /\ Dist(x) = Dist(parent'[x]) + 1
  <2>1. CASE x = v
    BY <1>2, <1>6, <2>1 DEF Visit
  <2>2. CASE x # v
    <3>1. x \in Visited /\ x \in V /\ parent'[x] = parent[x]
      BY <1>6, <1>7, <2>2, <1>11 DEF Visited
    <3> QED
      BY <3>1, <1>11 DEF ParentInv
  <2> QED
    BY <2>1, <2>2
<1>12. ParentInv'
  BY <1>5, <1>9, <1>10, <1>11 DEF ParentInv
<1> QED
  BY <1>2, <1>4, <1>7, <1>12

Degrees(S) == Cardinality({e \in input.edges : e[1] \in S}) + Cardinality(S)

LEMMA DegreesBound ==
    ASSUME input \in Inputs, NEW S \in SUBSET V
    PROVE  Degrees(S) \in 0 .. Cardinality(input.edges) + input.n
<1>0. /\ input.n \in Nat /\ IsFiniteSet(V) /\ Cardinality(V) = input.n /\ IsFiniteSet(input.edges)
  BY InputFacts DEF V
<1> DEFINE E == {e \in input.edges : e[1] \in S}
<1>1. IsFiniteSet(E) /\ Cardinality(E) <= Cardinality(input.edges)
  BY <1>0, FS_Subset
<1>2. IsFiniteSet(S) /\ Cardinality(S) <= input.n
  BY <1>0, FS_Subset
<1>3. Cardinality(E) \in Nat /\ Cardinality(S) \in Nat /\ Cardinality(input.edges) \in Nat
  BY <1>0, <1>1, <1>2, FS_CardinalityType
<1> QED
  BY <1>0, <1>1, <1>2, <1>3 DEF Degrees

LEMMA DegreesGrow ==
    ASSUME input \in Inputs, NEW S \in SUBSET V, NEW v \in V \ S
    PROVE  Degrees(S \cup {v}) = Degrees(S) + Cardinality(Succ(v)) + 1
<1>0. /\ IsFiniteSet(V) /\ IsFiniteSet(input.edges) /\ input.edges \subseteq V \X V
  BY InputFacts DEF V
<1> DEFINE E(T) == {e \in input.edges : e[1] \in T}
           F == {e \in input.edges : e[1] = v}
<1>1. IsFiniteSet(E(S)) /\ IsFiniteSet(F) /\ IsFiniteSet(S) /\ IsFiniteSet(Succ(v))
  <2>1. Succ(v) \in SUBSET V /\ E(S) \in SUBSET input.edges /\ F \in SUBSET input.edges
    BY DEF Succ
  <2> QED
    BY <1>0, <2>1, FS_Subset
<1>2. E(S \cup {v}) = E(S) \cup F /\ E(S) \cap F = {}
  OBVIOUS
<1>3. Cardinality(E(S) \cup F) = Cardinality(E(S)) + Cardinality(F)
  <2>1. Cardinality(E(S) \cup F) = Cardinality(E(S)) + Cardinality(F) - Cardinality(E(S) \cap F)
    BY <1>1, FS_Union
  <2>2. Cardinality(E(S) \cap F) = 0
    BY <1>2, FS_EmptySet
  <2>3. Cardinality(E(S)) \in Nat /\ Cardinality(F) \in Nat
    BY <1>1, FS_CardinalityType
  <2> HIDE DEF E, F
  <2> QED
    BY <2>1, <2>2, <2>3
<1>4. Cardinality(F) = Cardinality(Succ(v))
  <2> DEFINE f == [x \in Succ(v) |-> <<v, x>>]
  <2>1. f \in [Succ(v) -> F]
    BY DEF Succ
  <2>2. \A x, y \in Succ(v) : f[x] = f[y] => x = y
    OBVIOUS
  <2>3. ASSUME NEW e \in F PROVE \E x \in Succ(v) : f[x] = e
    <3>1. e = <<v, e[2]>> /\ e[2] \in V
      BY <1>0
    <3>2. e[2] \in Succ(v)
      BY <3>1, <2>3 DEF Succ
    <3> QED
      BY <3>1, <3>2
  <2> HIDE DEF f, F
  <2>4. f \in Bijection(Succ(v), F)
    BY <2>1, <2>2, <2>3 DEF Bijection, Injection, Surjection, IsInjective
  <2> QED
    BY <2>4, <1>1, FS_Bijection DEF ExistsBijection
<1>5. Cardinality(S \cup {v}) = Cardinality(S) + 1
  BY <1>1, FS_AddElement
<1>6. Cardinality(E(S)) \in Nat /\ Cardinality(Succ(v)) \in Nat /\ Cardinality(S) \in Nat
  BY <1>1, FS_CardinalityType
<1>7. Degrees(S \cup {v}) = Cardinality(E(S \cup {v})) + Cardinality(S \cup {v})
      /\ Degrees(S) = Cardinality(E(S)) + Cardinality(S)
  BY DEF Degrees
<1> HIDE DEF E, F
<1>8. Cardinality(E(S \cup {v})) = Cardinality(E(S)) + Cardinality(Succ(v))
  BY <1>2, <1>3, <1>4
<1> QED
  BY <1>5, <1>6, <1>7, <1>8

LEMMA ScoutVisit ==
    ASSUME TypeOK, ParentInv, ScoutInv, phase # "done", NEW v \in V \ Visited,
           input' = input, Visited' = Visited \cup {v},
           scout_count' \in {scout_count, scout_count - parent[v]}
    PROVE  scout_count' \in 0 .. Cardinality(input.edges) + input.n /\ ScoutInv'
<1>0. input \in Inputs /\ scout_count \in 0 .. Cardinality(input.edges) + input.n
  BY DEF TypeOK
<1>1. parent[v] = InitParent[v]
  <2>1. parent[v] \in Int /\ ~ (parent[v] >= 0)
    BY <1>0, WithinDef DEF TypeOK, Visited
  <2> QED
    BY <2>1 DEF ParentInv
<1>2. /\ Cardinality(Succ(v)) \in Nat /\ parent[v] \in Int
      /\ -parent[v] <= Cardinality(Succ(v)) + 1 /\ -parent[v] >= 0
  BY <1>0, <1>1, InitParentFacts
<1>3. Visited \in SUBSET V /\ Visited \cup {v} \in SUBSET V
  BY DEF Visited
<1>4. Degrees(Visited \cup {v}) = Degrees(Visited) + Cardinality(Succ(v)) + 1
  BY <1>0, <1>3, DegreesGrow DEF Visited
<1>5. Degrees(Visited \cup {v}) \in 0 .. Cardinality(input.edges) + input.n
  BY <1>0, <1>3, DegreesBound
<1>6. Degrees(Visited) \in 0 .. Cardinality(input.edges) + input.n
  BY <1>0, <1>3, DegreesBound
<1>7. scout_count <= Degrees(Visited)
  BY DEF ScoutInv, Degrees
<1>8. scout_count' >= 0 /\ scout_count' \in Int /\ scout_count' <= Degrees(Visited \cup {v})
  BY <1>0, <1>2, <1>4, <1>6, <1>7
<1>9. ScoutInv' <=> scout_count' <= Degrees(Visited \cup {v})
  BY DEF ScoutInv, Degrees
<1>10. Cardinality(input.edges) + input.n \in Nat
  <2>1. input.n \in Nat /\ IsFiniteSet(input.edges)
    BY <1>0, InputFacts
  <2> QED
    BY <2>1, FS_CardinalityType
<1> QED
  BY <1>5, <1>8, <1>9, <1>10

-----------------------------------------------------------------------------
(* Sequences.                                                              *)

LEMMA AppendFacts ==
    ASSUME NEW S, NEW q \in Seq(S), NEW x \in S
    PROVE  /\ Append(q, x) \in Seq(S) /\ Len(Append(q, x)) = Len(q) + 1
           /\ ToSet(Append(q, x)) = ToSet(q) \cup {x}
           /\ Distinct(q) /\ x \notin ToSet(q) => Distinct(Append(q, x))
<1>1. /\ Append(q, x) \in Seq(S) /\ DOMAIN Append(q, x) = 1 .. Len(q) + 1 /\ DOMAIN q = 1 .. Len(q)
      /\ Len(q) \in Nat /\ Append(q, x)[Len(q) + 1] = x
      /\ \A i \in 1 .. Len(q) : Append(q, x)[i] = q[i]
  OBVIOUS
<1>2. Len(Append(q, x)) = Len(q) + 1
  OBVIOUS
<1>3. ToSet(Append(q, x)) \subseteq ToSet(q) \cup {x}
  <2> SUFFICES ASSUME NEW i \in 1 .. Len(q) + 1 PROVE Append(q, x)[i] \in ToSet(q) \cup {x}
    BY <1>1 DEF ToSet
  <2>1. i = Len(q) + 1 \/ i \in 1 .. Len(q)
    BY <1>1
  <2> QED
    BY <1>1, <2>1 DEF ToSet
<1>4. ToSet(q) \cup {x} \subseteq ToSet(Append(q, x))
  <2>1. Len(q) + 1 \in 1 .. Len(q) + 1 /\ \A i \in 1 .. Len(q) : i \in 1 .. Len(q) + 1
    BY <1>1
  <2> QED
    BY <1>1, <2>1 DEF ToSet
<1>5. ASSUME Distinct(q), x \notin ToSet(q) PROVE Distinct(Append(q, x))
  <2> SUFFICES ASSUME NEW i \in 1 .. Len(q) + 1, NEW k \in 1 .. Len(q) + 1,
                      Append(q, x)[i] = Append(q, x)[k]
               PROVE  i = k
    BY <1>1 DEF Distinct
  <2>1. \A j \in 1 .. Len(q) + 1 : j = Len(q) + 1 \/ (j \in 1 .. Len(q) /\ q[j] \in ToSet(q))
    BY <1>1 DEF ToSet
  <2> QED
    BY <1>1, <1>5, <2>1 DEF Distinct
<1> QED
  BY <1>1, <1>2, <1>3, <1>4, <1>5

LEMMA ShortSeq ==
    ASSUME NEW S, NEW x \in S
    PROVE  /\ <<>> \in Seq(S) /\ ToSet(<<>>) = {} /\ Distinct(<<>>) /\ Len(<<>>) = 0
           /\ <<x>> \in Seq(S) /\ ToSet(<<x>>) = {x} /\ Distinct(<<x>>) /\ Len(<<x>>) = 1
           /\ <<x>> # <<>>
BY DEF ToSet, Distinct

LEMMA InToSet ==
    ASSUME NEW S, NEW q \in Seq(S)
    PROVE  \A x : x \in ToSet(q) <=> \E i \in 1 .. Len(q) : x = q[i]
BY DEF ToSet

LEMMA RowLen ==
    ASSUME input \in Inputs, NEW u \in V
    PROVE  Len(out_neigh(u)) \in 0 .. input.n
<1> DEFINE q == out_neigh(u)
<1>1. q \in Seq(V) /\ Distinct(q) /\ IsFiniteSet(V) /\ Cardinality(V) = input.n /\ input.n \in Nat
  BY RowFacts, InputFacts DEF V
<1>2. q \in [1 .. Len(q) -> V] /\ Len(q) \in Nat /\ DOMAIN q = 1 .. Len(q)
  BY <1>1
<1>3. q \in Injection(1 .. Len(q), V)
  BY <1>1, <1>2 DEF Injection, IsInjective, Distinct
<1>4. Cardinality(1 .. Len(q)) <= Cardinality(V)
  BY <1>1, <1>3, FS_Injection
<1>5. Cardinality(1 .. Len(q)) = Len(q)
  <2>1. Cardinality(1 .. Len(q)) = IF 1 > Len(q) THEN 0 ELSE Len(q) - 1 + 1
    BY <1>2, FS_Interval
  <2> QED
    BY <1>2, <2>1
<1> QED
  BY <1>1, <1>2, <1>4, <1>5

-----------------------------------------------------------------------------
(* The queue and its buffers.                                              *)

QInv == TypeOK /\ RegionInv /\ SlotsInv /\ DistinctInv

LEMMA Types ==
    ASSUME TypeOK
    PROVE  /\ input \in Inputs /\ input.n \in Nat \ {0} /\ shared \in [V -> V \cup {NoSlot}]
           /\ shared_in \in 0 .. input.n /\ shared_out_end \in 0 .. input.n
           /\ shared_out_start \in 0 .. input.n
           /\ shared_out_start <= shared_out_end /\ shared_out_end <= shared_in
           /\ DOMAIN pc = Threads
           /\ \A t \in Threads :
                /\ local_queue[t] \in Seq(V) /\ Len(local_queue[t]) \in Nat
                /\ hold[t] = <<>> \/ \E v \in V : hold[t] = <<v>>
                /\ hold[t] \in Seq(V) /\ Held(t) \subseteq V
                /\ copy_start[t] \in 0 .. input.n
<1>1. /\ input \in Inputs /\ input.n \in Nat \ {0} /\ shared \in [V -> V \cup {NoSlot}]
      /\ shared_in \in 0 .. input.n /\ shared_out_end \in 0 .. input.n
      /\ shared_out_start \in 0 .. input.n
      /\ shared_out_start <= shared_out_end /\ shared_out_end <= shared_in
      /\ DOMAIN pc = Threads
  BY WithinDef DEF TypeOK
<1>2. ASSUME NEW t \in Threads
      PROVE  /\ local_queue[t] \in Seq(V) /\ Len(local_queue[t]) \in Nat
             /\ hold[t] = <<>> \/ \E v \in V : hold[t] = <<v>>
             /\ hold[t] \in Seq(V) /\ Held(t) \subseteq V
             /\ copy_start[t] \in 0 .. input.n
  <2>1. local_queue[t] \in Seq(V) /\ copy_start[t] \in 0 .. input.n
    BY DEF TypeOK
  <2>2. hold[t] = <<>> \/ \E v \in V : hold[t] = <<v>>
    BY DEF TypeOK
  <2>3. hold[t] \in Seq(V)
    <3>1. <<>> \in Seq(V) /\ \A v \in V : <<v>> \in Seq(V)
      OBVIOUS
    <3> QED
      BY <2>2, <3>1
  <2>4. Held(t) \subseteq V
    BY <2>1, <2>3, SeqElements DEF Held
  <2>5. Len(local_queue[t]) \in Nat
    BY <2>1
  <2> QED
    BY <2>1, <2>2, <2>3, <2>4, <2>5
<1> QED
  BY <1>1, <1>2

(* A step of a thread that leaves the queue and the buffers alone.         *)
Private(t, x) ==
    /\ pc' = [pc EXCEPT ![t] = x]
    /\ x \notin {"reserve", "copy", "end"} /\ pc[t] \notin {"reserve", "copy", "end"}
    /\ UNCHANGED <<input, phase, queue, buffer, old_awake_count>> /\ work' \subseteq work

LEMMA PrivateQueue ==
    ASSUME QInv, NEW t \in Threads, NEW x, Private(t, x)
    PROVE  /\ RegionInv' /\ SlotsInv' /\ DistinctInv'
           /\ Filled' = Filled /\ Enqueued' = Enqueued /\ \A w \in Threads : Held(w)' = Held(w)
<1>0. /\ V' = V /\ shared' = shared /\ shared_in' = shared_in /\ shared_out_start' = shared_out_start
      /\ shared_out_end' = shared_out_end /\ local_queue' = local_queue /\ hold' = hold
      /\ copy_start' = copy_start /\ phase' = phase /\ old_awake_count' = old_awake_count
      /\ work' \subseteq work
  BY SameGraph DEF Private, queue, buffer
<1>1. DOMAIN pc = Threads
  BY Types DEF QInv
<1>2. \A w \in Threads : pc'[w] = IF w = t THEN x ELSE pc[w]
  BY <1>1 DEF Private
<1>3. Filled' = Filled
  BY <1>0 DEF Filled
<1>4. \A w \in Threads : Held(w)' = Held(w)
  BY <1>0 DEF Held
<1>5. Enqueued' = Enqueued
  BY <1>0, <1>3, <1>4 DEF Enqueued
<1>6. \A w \in Threads : Mine(w)' = Mine(w)
  BY <1>0 DEF Mine
<1>7. \A w \in Threads : pc'[w] = "copy" <=> pc[w] = "copy"
  BY <1>2 DEF Private
<1>8. SlotsInv'
  BY <1>0, <1>3, <1>6, <1>7 DEF QInv, SlotsInv
<1>9. DistinctInv'
  BY <1>0, <1>3, <1>4 DEF QInv, DistinctInv
<1>10. \A w \in Threads : /\ pc'[w] = "end" <=> pc[w] = "end"
                          /\ pc'[w] \in {"reserve", "copy"} <=> pc[w] \in {"reserve", "copy"}
  BY <1>2 DEF Private
<1>11. RegionInv'
  BY <1>0, <1>10 DEF QInv, RegionInv
<1> QED
  BY <1>3, <1>4, <1>5, <1>8, <1>9, <1>11

(* A vertex that is in no slot and no buffer is pushed.                    *)
Pushed(t, v, x) ==
    /\ PushBack(t, v, x) /\ x \in {"look", "take"}
    /\ phase \in {"td", "c"} /\ pc[t] \in {"claim", "take"}
    /\ v \in V /\ \A w \in Threads : v \notin Held(w)
    /\ \A s \in Filled : shared[s] # v
    /\ UNCHANGED <<input, phase, queue, copy_start, old_awake_count>> /\ work' \subseteq work

LEMMA PushQueue ==
    ASSUME QInv, NEW t \in Threads, NEW v, NEW x, Pushed(t, v, x)
    PROVE  /\ RegionInv' /\ SlotsInv' /\ DistinctInv'
           /\ Filled' = Filled /\ Enqueued' = Enqueued \cup {v}
           /\ local_queue' \in [Threads -> Seq(V)]
           /\ hold' \in [Threads -> {<<>>} \cup {<<u>> : u \in V}]
           /\ \A w \in Threads : Len(local_queue'[w]) <= local_size
           /\ \A w \in Threads \ {t} : hold'[w] = hold[w] /\ pc'[w] = pc[w]
           /\ \/ pc'[t] = x /\ hold'[t] = <<>>
              \/ pc'[t] = "reserve" /\ hold'[t] # <<>>
<1>0. /\ V' = V /\ shared' = shared /\ shared_in' = shared_in /\ shared_out_start' = shared_out_start
      /\ shared_out_end' = shared_out_end
      /\ copy_start' = copy_start /\ phase' = phase /\ old_awake_count' = old_awake_count
      /\ work' \subseteq work
  BY SameGraph DEF Pushed, queue
<1>1. /\ DOMAIN pc = Threads /\ v \in V
      /\ local_queue \in [Threads -> Seq(V)] /\ hold \in [Threads -> {<<>>} \cup {<<u>> : u \in V}]
      /\ \A w \in Threads : Len(local_queue[w]) <= local_size
  BY Types DEF QInv, Pushed, TypeOK
<1>2. hold[t] = <<>>
  BY DEF QInv, RegionInv, Pushed
<1>3. local_queue[t] \in Seq(V) /\ v \notin ToSet(local_queue[t]) /\ Distinct(local_queue[t])
  BY <1>1 DEF Pushed, Held, QInv, DistinctInv
<1> DEFINE q == Append(local_queue[t], v)
<1>4. q \in Seq(V) /\ Len(q) = Len(local_queue[t]) + 1 /\ ToSet(q) = ToSet(local_queue[t]) \cup {v}
      /\ Distinct(q)
  BY <1>1, <1>3, AppendFacts
<1>5. /\ ToSet(<<>>) = {} /\ Distinct(<<>>) /\ ToSet(<<v>>) = {v} /\ <<v>> # <<>>
  BY <1>1, ShortSeq
<1>6. \/ /\ Len(local_queue[t]) < local_size /\ local_queue' = [local_queue EXCEPT ![t] = q]
         /\ hold' = hold /\ pc' = [pc EXCEPT ![t] = x]
      \/ /\ hold' = [hold EXCEPT ![t] = <<v>>] /\ pc' = [pc EXCEPT ![t] = "reserve"]
         /\ local_queue' = local_queue
  BY DEF Pushed, PushBack
<1> HIDE DEF q
<1>7. \A w \in Threads \ {t} : local_queue'[w] = local_queue[w] /\ hold'[w] = hold[w] /\ pc'[w] = pc[w]
  BY <1>1, <1>6
<1>8. \/ /\ Len(local_queue[t]) < local_size /\ local_queue'[t] = q
         /\ hold'[t] = <<>> /\ pc'[t] = x
      \/ hold'[t] = <<v>> /\ pc'[t] = "reserve" /\ local_queue'[t] = local_queue[t]
  BY <1>1, <1>2, <1>6
<1>9. Held(t)' = Held(t) \cup {v}
  BY <1>2, <1>4, <1>5, <1>8 DEF Held
<1>10. \A w \in Threads \ {t} : Held(w)' = Held(w)
  BY <1>7 DEF Held
<1>11. Filled' = Filled
  BY <1>0 DEF Filled
<1>12. Enqueued' = Enqueued \cup {v}
  <2>1. \A y : (\E w \in Threads : y \in Held(w)') <=> y = v \/ \E w \in Threads : y \in Held(w)
    BY <1>9, <1>10
  <2> QED
    BY <2>1, <1>0, <1>1, <1>11 DEF Enqueued
<1>13. local_queue' \in [Threads -> Seq(V)] /\ hold' \in [Threads -> {<<>>} \cup {<<u>> : u \in V}]
  BY <1>1, <1>4, <1>6
<1>14. ASSUME NEW w \in Threads PROVE Len(local_queue'[w]) <= local_size
  <2>1. Len(local_queue[t]) \in Nat /\ local_size \in Nat
    BY <1>3, SizesAssumption
  <2> QED
    BY <1>1, <1>4, <1>7, <1>8, <2>1
<1>15. DistinctInv'
  <2>1. \A s, r \in Filled' : shared'[s] = shared'[r] => s = r
    BY <1>0, <1>11 DEF QInv, DistinctInv
  <2>2. ASSUME NEW w \in Threads
        PROVE  /\ Distinct(local_queue'[w]) /\ ToSet(hold'[w]) \cap ToSet(local_queue'[w]) = {}
               /\ \A s \in Filled' : shared'[s] \notin Held(w)'
    <3>1. CASE w = t
      BY <3>1, <1>0, <1>3, <1>4, <1>5, <1>8, <1>9, <1>11 DEF QInv, DistinctInv, Pushed
    <3>2. CASE w # t
      BY <3>2, <1>0, <1>7, <1>10, <1>11 DEF QInv, DistinctInv
    <3> QED
      BY <3>1, <3>2
  <2>3. \A u, w \in Threads : u # w => Held(u)' \cap Held(w)' = {}
    BY <1>9, <1>10 DEF QInv, DistinctInv, Pushed
  <2> QED
    BY <2>1, <2>2, <2>3 DEF DistinctInv
<1>16. \A w \in Threads : pc'[w] = "copy" <=> pc[w] = "copy"
  BY <1>7, <1>8 DEF Pushed
<1>17. \A w \in Threads : pc[w] = "copy" => Mine(w)' = Mine(w) /\ local_queue'[w] = local_queue[w]
  BY <1>0, <1>7 DEF Mine, Pushed
<1>18. SlotsInv'
  BY <1>0, <1>11, <1>16, <1>17 DEF QInv, SlotsInv
<1>19. RegionInv'
  <2>1. ASSUME NEW w \in Threads
        PROVE  /\ pc'[w] = "end" => work' = {}
               /\ pc'[w] = "end" \/ phase \in {"e", "bu"} => local_queue'[w] = <<>>
               /\ hold'[w] # <<>> => pc'[w] \in {"reserve", "copy"}
               /\ pc'[w] \in {"reserve", "copy"} /\ hold'[w] = <<>> => work' = {}
    <3>1. CASE w = t
      BY <3>1, <1>8, <1>5 DEF Pushed
    <3>2. CASE w # t
      BY <3>2, <1>0, <1>7 DEF QInv, RegionInv
    <3> QED
      BY <3>1, <3>2
  <2> QED
    BY <2>1, <1>0 DEF QInv, RegionInv, Pushed
<1> QED
  BY <1>7, <1>8, <1>5, <1>11, <1>12, <1>13, <1>14, <1>15, <1>18, <1>19

LEMMA QueueHeld ==
    ASSUME TypeOK
    PROVE  \A w \in Threads : \A i \in 1 .. Len(local_queue[w]) :
             local_queue[w][i] \in Held(w) /\ local_queue[w][i] \in V
<1> SUFFICES ASSUME NEW w \in Threads, NEW i \in 1 .. Len(local_queue[w])
             PROVE  local_queue[w][i] \in Held(w) /\ local_queue[w][i] \in V
  OBVIOUS
<1>1. local_queue[w] \in Seq(V)
  BY Types
<1>2. local_queue[w][i] \in ToSet(local_queue[w])
  BY <1>1, InToSet
<1> QED
  BY <1>1, <1>2 DEF Held

(* The queue has room for a buffer: slots and buffered vertices are        *)
(* different vertices, one each.                                           *)
LEMMA Room ==
    ASSUME QInv, NEW t \in Threads, pc[t] = "reserve"
    PROVE  shared_in + Len(local_queue[t]) <= input.n
<1> DEFINE D == 0 .. shared_in + Len(local_queue[t]) - 1
           base(w) == IF w = t THEN shared_in ELSE copy_start[w]
           P(s, v) == \/ s \in Filled /\ v = shared[s]
                      \/ \E w \in Threads : \E i \in 1 .. Len(local_queue[w]) :
                           s = base(w) + i - 1 /\ v = local_queue[w][i]
           f == [s \in D |-> CHOOSE v \in V : P(s, v)]
<1>0. /\ TypeOK /\ input \in Inputs /\ input.n \in Nat \ {0} /\ shared \in [V -> V \cup {NoSlot}]
      /\ shared_in \in 0 .. input.n
      /\ \A w \in Threads : /\ local_queue[w] \in Seq(V) /\ Len(local_queue[w]) \in Nat
                            /\ copy_start[w] \in 0 .. input.n
  BY Types DEF QInv
<1>1. \A w \in Threads : \A i \in 1 .. Len(local_queue[w]) :
        local_queue[w][i] \in Held(w) /\ local_queue[w][i] \in V
  BY <1>0, QueueHeld
<1>2. ASSUME NEW s \in D PROVE \E v \in V : P(s, v)
  <2>1. CASE s >= shared_in
    <3> DEFINE i == s - shared_in + 1
    <3>1. i \in 1 .. Len(local_queue[t]) /\ s = base(t) + i - 1
      BY <1>0, <2>1
    <3> HIDE DEF i
    <3> QED
      BY <3>1, <1>1
  <2>2. CASE s < shared_in /\ s \in Filled
    <3>1. shared[s] \in V
      BY <2>2, <1>0 DEF Filled
    <3> QED
      BY <2>2, <3>1
  <2>3. CASE s < shared_in /\ s \notin Filled
    <3>1. s \in V
      BY <1>0, <2>3 DEF V
    <3>2. PICK w \in Threads : pc[w] = "copy" /\ s \in Mine(w)
      BY <3>1, <2>3 DEF QInv, SlotsInv
    <3> DEFINE i == s - copy_start[w] + 1
    <3>3. w # t /\ i \in 1 .. Len(local_queue[w]) /\ s = base(w) + i - 1
      <4>1. w # t /\ base(w) = copy_start[w] /\ copy_start[w] \in Int /\ Len(local_queue[w]) \in Nat
        BY <1>0, <3>2
      <4>2. s \in copy_start[w] .. copy_start[w] + Len(local_queue[w]) - 1 /\ s \in Int
        BY <3>2, <4>1 DEF Mine
      <4> QED
        BY <4>1, <4>2
    <3> HIDE DEF i
    <3> QED
      BY <3>3, <1>1
  <2> QED
    BY <2>1, <2>2, <2>3, <1>0
<1>3. ASSUME NEW s, NEW r, NEW v, P(s, v), P(r, v) PROVE s = r
  <2>1. CASE s \in Filled /\ v = shared[s] /\ r \in Filled /\ v = shared[r]
    BY <2>1 DEF QInv, DistinctInv
  <2>2. ASSUME NEW x \in Filled, v = shared[x],
               NEW w \in Threads, NEW i \in 1 .. Len(local_queue[w]), v = local_queue[w][i]
        PROVE  FALSE
    BY <2>2, <1>1 DEF QInv, DistinctInv
  <2>3. ASSUME NEW w \in Threads, NEW i \in 1 .. Len(local_queue[w]),
               s = base(w) + i - 1, v = local_queue[w][i],
               NEW u \in Threads, NEW k \in 1 .. Len(local_queue[u]),
               r = base(u) + k - 1, v = local_queue[u][k]
        PROVE  s = r
    <3>1. v \in Held(w) \cap Held(u)
      BY <1>1, <2>3
    <3>2. w = u
      BY <3>1 DEF QInv, DistinctInv
    <3>3. Distinct(local_queue[w]) /\ DOMAIN local_queue[w] = 1 .. Len(local_queue[w])
      BY <1>0 DEF QInv, DistinctInv
    <3>4. i = k
      BY <2>3, <3>2, <3>3 DEF Distinct
    <3> QED
      BY <2>3, <3>2, <3>4
  <2> QED
    BY <1>3, <2>1, <2>2, <2>3
<1>4. \A s \in D : f[s] \in V /\ P(s, f[s])
  BY <1>2
<1>5. f \in [D -> V]
  BY <1>4
<1>6. f \in Injection(D, V)
  <2> HIDE DEF P, D, f
  <2>1. \A s, r \in D : f[s] = f[r] => s = r
    BY <1>3, <1>4
  <2>2. DOMAIN f = D
    BY <1>5
  <2> QED
    BY <1>5, <2>1, <2>2 DEF Injection, IsInjective
<1>7. IsFiniteSet(V) /\ Cardinality(V) = input.n
  BY <1>0, InputFacts DEF V
<1>8. Cardinality(D) <= input.n
  BY <1>6, <1>7, FS_Injection
<1>9. Cardinality(D) = shared_in + Len(local_queue[t])
  <2> DEFINE b == shared_in + Len(local_queue[t]) - 1
  <2>1. b \in Int /\ 0 \in Int /\ (~ (0 > b) => b - 0 + 1 = shared_in + Len(local_queue[t]))
        /\ (0 > b => shared_in + Len(local_queue[t]) = 0)
    BY <1>0
  <2>2. Cardinality(0 .. b) = IF 0 > b THEN 0 ELSE b - 0 + 1
    BY <2>1, FS_Interval
  <2> QED
    BY <2>1, <2>2
<1> QED
  BY <1>8, <1>9

LEMMA ReserveQueue ==
    ASSUME QInv, NEW t \in Threads, Reserve(t), phase \in {"td", "c"},
           UNCHANGED <<input, phase, shared_out_start, shared_out_end, work, old_awake_count>>
    PROVE  /\ RegionInv' /\ SlotsInv' /\ DistinctInv'
           /\ Filled' = Filled /\ Enqueued' = Enqueued
           /\ shared_in' \in 0 .. input.n /\ shared_in' >= shared_in
           /\ copy_start' \in [Threads -> 0 .. input.n]
<1>0. /\ V' = V /\ shared' = shared /\ shared_in' = shared_in + Len(local_queue[t])
      /\ local_queue' = local_queue /\ hold' = hold /\ pc[t] = "reserve"
      /\ pc' = [pc EXCEPT ![t] = "copy"] /\ copy_start' = [copy_start EXCEPT ![t] = shared_in]
  BY SameGraph DEF Reserve
<1>1. /\ TypeOK /\ input.n \in Nat /\ DOMAIN pc = Threads /\ copy_start \in [Threads -> 0 .. input.n]
      /\ shared_in \in 0 .. input.n /\ shared_out_end \in 0 .. input.n /\ shared_out_end <= shared_in
      /\ \A w \in Threads : Len(local_queue[w]) \in Nat /\ copy_start[w] \in 0 .. input.n
  BY Types DEF QInv, TypeOK
<1>2. shared_in' \in 0 .. input.n /\ shared_in' >= shared_in
  BY <1>0, <1>1, Room
<1>3. copy_start' \in [Threads -> 0 .. input.n]
  BY <1>0, <1>1
<1>4. \A w \in Threads : /\ pc'[w] = IF w = t THEN "copy" ELSE pc[w]
                         /\ copy_start'[w] = IF w = t THEN shared_in ELSE copy_start[w]
  BY <1>0, <1>1
<1>5. Filled' = Filled
  BY <1>0 DEF Filled
<1>6. \A w \in Threads : Held(w)' = Held(w)
  BY <1>0 DEF Held
<1>7. Enqueued' = Enqueued
  BY <1>0, <1>5, <1>6 DEF Enqueued
<1>8. DistinctInv'
  <2>1. shared' = shared /\ local_queue' = local_queue /\ hold' = hold
    BY <1>0
  <2> QED
    BY <2>1, <1>5, <1>6 DEF QInv, DistinctInv
<1>9. Mine(t)' = shared_in .. shared_in' - 1 /\ \A w \in Threads \ {t} : Mine(w)' = Mine(w)
  BY <1>0, <1>1, <1>4 DEF Mine
<1>10. SlotsInv'
  <2>1. ASSUME NEW w \in Threads, pc'[w] = "copy"
        PROVE  shared_out_end <= copy_start'[w] /\ copy_start'[w] + Len(local_queue[w]) <= shared_in'
    <3>1. CASE w = t
      BY <3>1, <1>0, <1>1, <1>4
    <3>2. CASE w # t
      <4>1. shared_out_end <= copy_start[w] /\ copy_start[w] + Len(local_queue[w]) <= shared_in
        BY <2>1, <3>2, <1>4 DEF QInv, SlotsInv
      <4> QED
        BY <3>2, <4>1, <1>0, <1>1, <1>4
    <3> QED
      BY <3>1, <3>2
  <2>2. ASSUME NEW w \in Threads \ {t}, pc[w] = "copy" PROVE \A s \in Mine(w) : s < shared_in
    <3>1. copy_start[w] + Len(local_queue[w]) <= shared_in
      BY <2>2 DEF QInv, SlotsInv
    <3> QED
      BY <3>1, <1>1 DEF Mine
  <2>3. ASSUME NEW u \in Threads, NEW w \in Threads, u # w, pc'[u] = "copy", pc'[w] = "copy"
        PROVE  Mine(u)' \cap Mine(w)' = {}
    <3>1. CASE u # t /\ w # t
      BY <3>1, <2>3, <1>4, <1>9 DEF QInv, SlotsInv
    <3>2. CASE u = t
      <4>1. w \in Threads \ {t} /\ pc[w] = "copy" /\ Mine(w)' = Mine(w)
        BY <2>3, <3>2, <1>4, <1>9
      <4>2. \A s \in Mine(w) : s < shared_in
        BY <4>1, <2>2
      <4> QED
        BY <3>2, <4>1, <4>2, <1>9, <1>1
    <3>3. CASE w = t
      <4>1. u \in Threads \ {t} /\ pc[u] = "copy" /\ Mine(u)' = Mine(u)
        BY <2>3, <3>3, <1>4, <1>9
      <4>2. \A s \in Mine(u) : s < shared_in
        BY <4>1, <2>2
      <4> QED
        BY <3>3, <4>1, <4>2, <1>9, <1>1
    <3> QED
      BY <3>1, <3>2, <3>3
  <2>4. ASSUME NEW s \in V
        PROVE  s \in Filled <=> s < shared_in' /\ \A w \in Threads : pc'[w] = "copy" => s \notin Mine(w)'
    <3>0. s \in Nat /\ shared_in' \in Nat
      BY <1>1, <1>2 DEF V
    <3>1. s \in Filled <=> s < shared_in /\ \A w \in Threads : pc[w] = "copy" => s \notin Mine(w)
      BY DEF QInv, SlotsInv
    <3>2. ASSUME s \in Filled PROVE s < shared_in' /\ \A w \in Threads : pc'[w] = "copy" => s \notin Mine(w)'
      BY <3>0, <3>1, <3>2, <1>0, <1>1, <1>2, <1>4, <1>9
    <3>3. ASSUME s < shared_in', \A w \in Threads : pc'[w] = "copy" => s \notin Mine(w)'
          PROVE  s \in Filled
      <4>1. s < shared_in
        BY <3>0, <3>3, <1>0, <1>1, <1>4, <1>9
      <4>2. \A w \in Threads : pc[w] = "copy" => s \notin Mine(w)
        BY <3>3, <1>0, <1>4, <1>9
      <4> QED
        BY <3>1, <4>1, <4>2
    <3> QED
      BY <3>2, <3>3
  <2> QED
    BY <2>1, <2>3, <2>4, <1>0, <1>5 DEF SlotsInv
<1>11. RegionInv'
  <2>1. \A w \in Threads : /\ pc'[w] = "end" <=> pc[w] = "end"
                           /\ pc'[w] \in {"reserve", "copy"} <=> pc[w] \in {"reserve", "copy"}
    BY <1>0, <1>4
  <2> QED
    BY <2>1, <1>0 DEF QInv, RegionInv
<1> QED
  BY <1>2, <1>3, <1>5, <1>7, <1>8, <1>10, <1>11

LEMMA CopyQueue ==
    ASSUME QInv, NEW t \in Threads, Copy(t), phase \in {"td", "c"},
           UNCHANGED <<input, phase, shared_out_start, shared_out_end, work, old_awake_count>>
    PROVE  /\ RegionInv' /\ SlotsInv' /\ DistinctInv'
           /\ Enqueued' = Enqueued
           /\ \A s \in Filled : s \in Filled' /\ shared'[s] = shared[s]
           /\ \A s \in Filled' : s \in Filled \/ s >= shared_out_end
           /\ shared' \in [V -> V \cup {NoSlot}]
           /\ local_queue' \in [Threads -> Seq(V)]
           /\ hold' \in [Threads -> {<<>>} \cup {<<v>> : v \in V}]
           /\ \A w \in Threads : Len(local_queue'[w]) <= local_size
           /\ \A w \in Threads \ {t} : hold'[w] = hold[w] /\ pc'[w] = pc[w]
           /\ hold'[t] = <<>> /\ pc'[t] = IF hold[t] = <<>> THEN "end" ELSE AfterPush
<1> DEFINE q == local_queue[t]
           c == copy_start[t]
<1>0. /\ V' = V /\ shared_in' = shared_in /\ copy_start' = copy_start /\ pc[t] = "copy"
      /\ shared' = [s \in DOMAIN shared |-> IF s - c \in 0 .. Len(q) - 1 THEN q[s - c + 1] ELSE shared[s]]
      /\ local_queue' = [local_queue EXCEPT ![t] = hold[t]] /\ hold' = [hold EXCEPT ![t] = <<>>]
      /\ pc' = [pc EXCEPT ![t] = IF hold[t] = <<>> THEN "end" ELSE AfterPush]
  BY SameGraph DEF Copy
<1>1. /\ TypeOK /\ input.n \in Nat /\ DOMAIN pc = Threads /\ c \in 0 .. input.n
      /\ shared_in \in 0 .. input.n /\ shared_out_end \in 0 .. input.n
      /\ shared \in [V -> V \cup {NoSlot}] /\ q \in Seq(V) /\ Len(q) \in Nat
      /\ hold[t] \in Seq(V) /\ (hold[t] = <<>> \/ \E v \in V : hold[t] = <<v>>)
  BY Types DEF QInv
<1>2. /\ local_queue \in [Threads -> Seq(V)] /\ hold \in [Threads -> {<<>>} \cup {<<u>> : u \in V}]
      /\ \A w \in Threads : Len(local_queue[w]) <= local_size
  BY DEF QInv, TypeOK
<1>3. \A i \in 1 .. Len(q) : q[i] \in Held(t) /\ q[i] \in V /\ q[i] \in ToSet(q)
  BY <1>1, QueueHeld, InToSet
<1>4. shared_out_end <= c /\ c + Len(q) <= shared_in
  BY <1>0 DEF QInv, SlotsInv
<1>5. \A s \in Int : s \in Mine(t) <=> s - c \in 0 .. Len(q) - 1
  BY <1>1 DEF Mine
<1>6. Mine(t) \subseteq V /\ \A s \in Mine(t) : s >= shared_out_end /\ s < shared_in
                                               /\ s - c + 1 \in 1 .. Len(q)
  <2> HIDE DEF q, c
  <2> SUFFICES ASSUME NEW s \in Mine(t)
               PROVE  s \in V /\ s >= shared_out_end /\ s < shared_in /\ s - c + 1 \in 1 .. Len(q)
    OBVIOUS
  <2>1. s \in Int /\ c <= s /\ s <= c + Len(q) - 1
    BY <1>1 DEF Mine, q, c
  <2>2. c \in Nat /\ Len(q) \in Nat /\ shared_in \in Nat /\ shared_in <= input.n
        /\ shared_out_end \in Nat /\ input.n \in Nat
    BY <1>1
  <2> QED
    BY <2>1, <2>2, <1>4 DEF V
<1>7. \A s \in V : shared'[s] = IF s \in Mine(t) THEN q[s - c + 1] ELSE shared[s]
  <2>1. DOMAIN shared = V /\ \A s \in V : s \in Int
    BY <1>1 DEF V
  <2> QED
    BY <2>1, <1>0, <1>5
<1>8. \A s \in Mine(t) : s \in V /\ shared'[s] = q[s - c + 1] /\ shared'[s] \in Held(t)
                         /\ shared'[s] \in V /\ shared'[s] \in ToSet(q)
  BY <1>3, <1>6, <1>7
<1>9. \A s \in V \ Mine(t) : shared'[s] = shared[s]
  BY <1>7
<1>10. NoSlot \notin V
  BY DEF NoSlot, V
<1>11. Filled' = Filled \cup Mine(t) /\ Filled \cap Mine(t) = {}
  <2>1. Filled \cap Mine(t) = {}
    BY <1>0 DEF QInv, SlotsInv, Filled
  <2>2. Filled' = {s \in V : shared'[s] # NoSlot}
    BY <1>0 DEF Filled, NoSlot
  <2> QED
    BY <2>1, <2>2, <1>6, <1>8, <1>9, <1>10 DEF Filled
<1>12. shared' \in [V -> V \cup {NoSlot}]
  <2>1. shared' = [s \in V |-> shared'[s]]
    BY <1>0, <1>1
  <2>2. \A s \in V : shared'[s] \in V \cup {NoSlot}
    BY <1>1, <1>8, <1>9
  <2> QED
    BY <2>1, <2>2
<1>13. local_queue' \in [Threads -> Seq(V)] /\ hold' \in [Threads -> {<<>>} \cup {<<v>> : v \in V}]
  BY <1>0, <1>1, <1>2
<1>14. /\ \A w \in Threads \ {t} : local_queue'[w] = local_queue[w] /\ hold'[w] = hold[w] /\ pc'[w] = pc[w]
       /\ local_queue'[t] = hold[t] /\ hold'[t] = <<>>
       /\ pc'[t] = IF hold[t] = <<>> THEN "end" ELSE AfterPush
  BY <1>0, <1>1, <1>2
<1> HIDE DEF q, c
<1>15. \A w \in Threads : Len(local_queue'[w]) <= local_size
  <2>1. (Len(hold[t]) = 0 \/ Len(hold[t]) = 1) /\ local_size \in Nat /\ local_size >= 1
    <3>1. CASE hold[t] = <<>>
      BY <3>1, SizesAssumption
    <3>2. CASE \E v \in V : hold[t] = <<v>>
      BY <3>2, SizesAssumption
    <3> QED
      BY <3>1, <3>2, <1>1
  <2>2. Len(hold[t]) <= local_size
    <3>1. CASE Len(hold[t]) = 0
      BY <3>1, <2>1
    <3>2. CASE Len(hold[t]) = 1
      BY <3>2, <2>1
    <3> QED
      BY <3>1, <3>2, <2>1
  <2> QED
    BY <2>2, <1>2, <1>14
<1>16. ToSet(<<>>) = {} /\ Distinct(<<>>)
  BY DEF ToSet, Distinct
<1>17. Held(t) = ToSet(q) \cup ToSet(hold[t]) /\ Held(t)' = ToSet(hold[t])
       /\ \A w \in Threads \ {t} : Held(w)' = Held(w)
  BY <1>14, <1>16 DEF Held, q
<1>18. \A v \in ToSet(q) : \E s \in Mine(t) : shared'[s] = v
  <2> SUFFICES ASSUME NEW i \in 1 .. Len(q) PROVE \E s \in Mine(t) : shared'[s] = q[i]
    BY <1>1, InToSet
  <2> DEFINE s == c + i - 1
  <2>1. s \in Int /\ s - c \in 0 .. Len(q) - 1 /\ s - c + 1 = i
    BY <1>1
  <2> HIDE DEF s
  <2> QED
    BY <2>1, <1>5, <1>8
<1>19. Enqueued' = Enqueued
  <2>1. \A v : (\E s \in Filled' : s >= shared_out_end /\ shared'[s] = v) <=>
                 v \in ToSet(q) \/ \E s \in Filled : s >= shared_out_end /\ shared[s] = v
    BY <1>6, <1>8, <1>9, <1>11, <1>18 DEF Filled
  <2>2. \A v : (\E w \in Threads : v \in Held(w)) <=> v \in ToSet(q) \/ \E w \in Threads : v \in Held(w)'
    BY <1>17
  <2> QED
    BY <2>1, <2>2, <1>0 DEF Enqueued
<1>20. DistinctInv'
  <2>1. Distinct(q) /\ DOMAIN q = 1 .. Len(q) /\ ToSet(hold[t]) \cap ToSet(q) = {}
    BY <1>1 DEF q, QInv, DistinctInv
  <2>2. ASSUME NEW s \in Filled', NEW r \in Filled', shared'[s] = shared'[r] PROVE s = r
    <3>1. CASE s \in Mine(t) /\ r \in Mine(t)
      <4>1. s - c + 1 = r - c + 1
        BY <3>1, <2>1, <2>2, <1>6, <1>8 DEF Distinct
      <4>2. s \in Int /\ r \in Int /\ c \in Int
        BY <3>1, <1>1, <1>6 DEF V
      <4> QED
        BY <4>1, <4>2
    <3>2. CASE s \in Filled /\ r \in Filled
      BY <3>2, <2>2, <1>9, <1>11 DEF QInv, DistinctInv, Filled
    <3>3. CASE s \in Filled /\ r \in Mine(t)
      BY <3>3, <2>2, <1>8, <1>9, <1>11 DEF QInv, DistinctInv, Filled
    <3>4. CASE s \in Mine(t) /\ r \in Filled
      BY <3>4, <2>2, <1>8, <1>9, <1>11 DEF QInv, DistinctInv, Filled
    <3> QED
      BY <3>1, <3>2, <3>3, <3>4, <1>11
  <2>3. ASSUME NEW w \in Threads
        PROVE  /\ Distinct(local_queue'[w]) /\ ToSet(hold'[w]) \cap ToSet(local_queue'[w]) = {}
    <3>1. CASE w = t
      <4>1. Distinct(hold[t])
        BY <1>1, ShortSeq
      <4> QED
        BY <3>1, <4>1, <1>14, <1>16
    <3>2. CASE w # t
      BY <3>2, <1>14 DEF QInv, DistinctInv
    <3> QED
      BY <3>1, <3>2
  <2>4. ASSUME NEW w \in Threads, NEW s \in Filled' PROVE shared'[s] \notin Held(w)'
    <3>1. CASE s \in Filled
      <4>1. shared'[s] = shared[s] /\ shared[s] \notin Held(w)
        BY <3>1, <1>9, <1>11 DEF QInv, DistinctInv, Filled
      <4> QED
        BY <4>1, <1>17
    <3>2. CASE s \in Mine(t) /\ w = t
      BY <3>2, <2>1, <1>8, <1>17
    <3>3. CASE s \in Mine(t) /\ w # t
      <4>1. Held(w) \cap Held(t) = {}
        BY <3>3 DEF QInv, DistinctInv
      <4> QED
        BY <4>1, <3>3, <1>8, <1>17
    <3> QED
      BY <3>1, <3>2, <3>3, <1>11
  <2>5. \A u, w \in Threads : u # w => Held(u)' \cap Held(w)' = {}
    BY <1>17 DEF QInv, DistinctInv
  <2> QED
    BY <2>2, <2>3, <2>4, <2>5 DEF DistinctInv
<1>21. pc'[t] \in {"end", "look", "take"}
  BY <1>14 DEF AfterPush
<1>22. SlotsInv'
  <2>1. \A w \in Threads : pc'[w] = "copy" => w # t /\ pc[w] = "copy" /\ Mine(w)' = Mine(w)
                                              /\ local_queue'[w] = local_queue[w]
    BY <1>0, <1>14, <1>21 DEF Mine
  <2>2. \A w \in Threads \ {t} : pc[w] = "copy" => pc'[w] = "copy"
    BY <1>14
  <2>3. ASSUME NEW s \in V
        PROVE  s \in Filled' <=> s < shared_in /\ \A w \in Threads : pc'[w] = "copy" => s \notin Mine(w)'
    <3>1. s \in Filled <=> s < shared_in /\ \A w \in Threads : pc[w] = "copy" => s \notin Mine(w)
      BY DEF QInv, SlotsInv
    <3>2. s \in Mine(t) => \A w \in Threads \ {t} : pc[w] = "copy" => s \notin Mine(w)
      BY <1>0 DEF QInv, SlotsInv
    <3>3. CASE s \in Mine(t)
      BY <3>2, <3>3, <2>1, <1>6, <1>11
    <3>4. CASE s \notin Mine(t)
      BY <3>1, <3>4, <2>1, <2>2, <1>11
    <3> QED
      BY <3>3, <3>4
  <2>4. \A w \in Threads : pc'[w] = "copy" =>
          shared_out_end <= copy_start[w] /\ copy_start[w] + Len(local_queue'[w]) <= shared_in
    BY <2>1 DEF QInv, SlotsInv
  <2>5. \A u, w \in Threads :
          u # w /\ pc'[u] = "copy" /\ pc'[w] = "copy" => Mine(u)' \cap Mine(w)' = {}
    BY <2>1 DEF QInv, SlotsInv
  <2> QED
    BY <2>3, <2>4, <2>5, <1>0 DEF SlotsInv
<1>23. RegionInv'
  <2>1. hold[t] = <<>> => work = {}
    BY <1>0 DEF QInv, RegionInv
  <2>2. ASSUME NEW w \in Threads
        PROVE  /\ pc'[w] = "end" => work = {}
               /\ pc'[w] = "end" \/ phase \in {"e", "bu"} => local_queue'[w] = <<>>
               /\ hold'[w] # <<>> => pc'[w] \in {"reserve", "copy"}
               /\ pc'[w] \in {"reserve", "copy"} /\ hold'[w] = <<>> => work = {}
    <3>1. CASE w = t
      BY <3>1, <2>1, <1>14 DEF AfterPush
    <3>2. CASE w # t
      BY <3>2, <1>14 DEF QInv, RegionInv
    <3> QED
      BY <3>1, <3>2
  <2> QED
    BY <2>2, <1>0 DEF QInv, RegionInv
<1>24. \A s \in Filled : s \in Filled' /\ shared'[s] = shared[s]
  BY <1>9, <1>11 DEF Filled
<1>25. \A s \in Filled' : s \in Filled \/ s >= shared_out_end
  BY <1>6, <1>11
<1> QED
  BY <1>12, <1>13, <1>14, <1>15, <1>19, <1>20, <1>22, <1>23, <1>24, <1>25

LEMMA RunsOutQueue ==
    ASSUME QInv, NEW t \in Threads, RunsOut(t),
           UNCHANGED <<input, phase, shared_out_start, shared_out_end, work, old_awake_count>>
    PROVE  /\ RegionInv' /\ SlotsInv' /\ DistinctInv'
           /\ Enqueued' = Enqueued /\ Filled' = Filled
           /\ \A w \in Threads \ {t} : pc'[w] = pc[w]
           /\ pc'[t] = IF phase \in {"td", "c"} THEN "reserve" ELSE "end"
           /\ hold[t] = <<>>
<1>0. /\ V' = V /\ shared' = shared /\ shared_in' = shared_in
      /\ local_queue' = local_queue /\ hold' = hold /\ copy_start' = copy_start
      /\ pc[t] = "take" /\ work = {}
      /\ pc' = [pc EXCEPT ![t] = IF phase \in {"td", "c"} THEN "reserve" ELSE "end"]
  BY SameGraph DEF RunsOut, buffer
<1>1. DOMAIN pc = Threads /\ TypeOK
  BY Types DEF QInv
<1>2. \A w \in Threads : pc'[w] = IF w = t THEN IF phase \in {"td", "c"} THEN "reserve" ELSE "end" ELSE pc[w]
  BY <1>0, <1>1
<1>3. Filled' = Filled
  BY <1>0 DEF Filled
<1>4. \A w \in Threads : Held(w)' = Held(w)
  BY <1>0 DEF Held
<1>5. Enqueued' = Enqueued
  BY <1>0, <1>3, <1>4 DEF Enqueued
<1>6. \A w \in Threads : Mine(w)' = Mine(w)
  BY <1>0 DEF Mine
<1>7. \A w \in Threads : pc'[w] = "copy" <=> pc[w] = "copy"
  BY <1>0, <1>2
<1>8. SlotsInv'
  BY <1>0, <1>3, <1>6, <1>7 DEF QInv, SlotsInv
<1>9. DistinctInv'
  BY <1>0, <1>3, <1>4 DEF QInv, DistinctInv
<1>10. hold[t] = <<>>
  BY <1>0 DEF QInv, RegionInv
<1>11. phase \in {"e", "bu"} => local_queue[t] = <<>>
  BY DEF QInv, RegionInv
<1>12. phase \in {"td", "c", "e", "bu"}
  BY <1>0, <1>1 DEF QInv, RegionInv, TypeOK
<1>13. RegionInv'
  <2>1. ASSUME NEW w \in Threads
        PROVE  /\ pc'[w] = "end" => work = {}
               /\ pc'[w] = "end" \/ phase \in {"e", "bu"} => local_queue[w] = <<>>
               /\ hold[w] # <<>> => pc'[w] \in {"reserve", "copy"}
               /\ pc'[w] \in {"reserve", "copy"} /\ hold[w] = <<>> => work = {}
    <3>1. CASE w = t
      BY <3>1, <1>0, <1>2, <1>10, <1>11, <1>12
    <3>2. CASE w # t
      BY <3>2, <1>2 DEF QInv, RegionInv
    <3> QED
      BY <3>1, <3>2
  <2> QED
    BY <2>1, <1>0, <1>12 DEF QInv, RegionInv
<1> QED
  BY <1>2, <1>3, <1>5, <1>8, <1>9, <1>10, <1>13

-----------------------------------------------------------------------------
(* Facts about the invariant that several steps use.                       *)

Inv(d) == QInv /\ ParentInv /\ ScoutInv /\ d \in 0 .. input.n /\ AtLevel(d)

LEMMA MinOne == ASSUME NEW v \in Nat PROVE Min({v}) = v
<1>1. {v} \in SUBSET Nat /\ {v} # {}
  OBVIOUS
<1> QED
  BY <1>1, MinFacts

LEMMA WindowFacts ==
    ASSUME QInv
    PROVE  \A s \in Window : s \in Filled /\ s \in V /\ shared[s] \in V /\ s < shared_out_end
<1> SUFFICES ASSUME NEW s \in Window
             PROVE  s \in Filled /\ s \in V /\ shared[s] \in V /\ s < shared_out_end
  OBVIOUS
<1>1. /\ input.n \in Nat /\ shared_in \in 0 .. input.n /\ shared_out_end \in 0 .. input.n
      /\ shared_out_start \in 0 .. input.n /\ shared_out_end <= shared_in
      /\ shared \in [V -> V \cup {NoSlot}]
      /\ \A t \in Threads : copy_start[t] \in 0 .. input.n /\ Len(local_queue[t]) \in Nat
  BY Types DEF QInv
<1>2. s \in Int /\ s >= 0 /\ s < shared_out_end /\ s < shared_in /\ s < input.n
  BY <1>1 DEF Window
<1>3. s \in V
  BY <1>1, <1>2 DEF V
<1>4. ASSUME NEW t \in Threads, pc[t] = "copy" PROVE s \notin Mine(t)
  <2>1. shared_out_end <= copy_start[t]
    BY <1>4 DEF QInv, SlotsInv
  <2>2. copy_start[t] \in Int /\ Len(local_queue[t]) \in Int /\ shared_out_end \in Int
    BY <1>1
  <2> QED
    BY <2>1, <2>2, <1>2 DEF Mine
<1>5. s \in Filled
  BY <1>2, <1>3, <1>4 DEF QInv, SlotsInv
<1> QED
  BY <1>1, <1>2, <1>3, <1>5 DEF Filled

(* A step that leaves the tree alone.                                      *)
LEMMA SameTree ==
    ASSUME UNCHANGED <<input, parent>>, phase # "done", phase' # "done"
    PROVE  /\ Visited' = Visited
           /\ ParentInv => ParentInv'
           /\ ScoutInv /\ scout_count' = scout_count => ScoutInv'
<1>1. V' = V /\ Reachable' = Reachable /\ InitParent' = InitParent /\ \A x : Dist(x)' = Dist(x)
  BY SameGraph
<1>2. Visited' = Visited
  BY <1>1 DEF Visited
<1>3. ParentInv => ParentInv'
  BY <1>1, <1>2 DEF ParentInv
<1>4. ScoutInv /\ scout_count' = scout_count => ScoutInv'
  BY <1>2 DEF ScoutInv
<1> QED
  BY <1>2, <1>3, <1>4

(* What LevelInv and FrontInv say of a step that visits nothing of an      *)
(* earlier level and nothing beyond the next.                              *)
LEMMA LevelStays ==
    ASSUME NEW d, LevelInv(d), phase \in {"e", "td", "bu", "c"},
           UNCHANGED <<input, phase, shared_out_start, shared_out_end>>,
           Visited \subseteq Visited', phase \in {"e", "c"} => Visited' = Visited,
           phase \in {"td", "bu"} => Visited' \subseteq Within[d + 1],
           phase = "c" => front' = front,
           \A s \in Filled : shared'[s] = shared[s],
           \A s \in Filled' : s \in Filled \/ s >= shared_out_end,
           \A s \in Window : s \in Filled, shared_out_end \in Nat
    PROVE  LevelInv(d)'
<1>1. Within' = Within /\ Ring(d)' = Ring(d) /\ V' = V
  BY SameGraph
<1>2. {shared'[s] : s \in Window'} = {shared[s] : s \in Window}
  BY DEF Window
<1>3. \A s \in Filled' : s < shared_out_end => s \in Filled
  <2> SUFFICES ASSUME NEW s \in Filled', s < shared_out_end, s >= shared_out_end PROVE FALSE
    OBVIOUS
  <2>1. s \in Int
    BY <1>1 DEF Filled, V
  <2> QED
    BY <2>1
<1>4. (Within[d] \subseteq Visited)'
  BY <1>1 DEF LevelInv
<1>5. (phase \in {"loop", "e", "c", "done"} => Visited = Within[d])'
  BY <1>1 DEF LevelInv
<1>6. (phase \in {"e", "td", "bu"} => d < input.n /\ Ring(d) # {})'
  BY <1>1 DEF LevelInv
<1>7. (phase \in {"td", "bu"} => Visited \subseteq Within[d + 1])'
  BY <1>1
<1>8. (phase \in {"loop", "e", "td", "done"} => {shared[s] : s \in Window} = Ring(d))'
  BY <1>1, <1>2 DEF LevelInv
<1>9. (\A s \in Filled : s < shared_out_end =>
         shared[s] \in Within[d] /\ (phase = "c" => shared[s] \notin front))'
  BY <1>1, <1>3 DEF LevelInv
<1> QED
  BY <1>4, <1>5, <1>6, <1>7, <1>8, <1>9 DEF LevelInv

LEMMA FrontStays ==
    ASSUME NEW d, FrontInv(d), UNCHANGED <<input, phase, front>>
    PROVE  FrontInv(d)'
<1>1. Within' = Within /\ Ring(d)' = Ring(d) /\ \A u : Row(u)' = Row(u)
  BY SameGraph
<1> QED
  BY <1>1 DEF FrontInv

-----------------------------------------------------------------------------
(* The steps of QueueToBitmap.                                             *)

LEMMA QueueToBitmapStep ==
    ASSUME NEW d, Inv(d), NEW t \in Threads, QueueToBitmap(t)
    PROVE  Inv(d)'
<1>0. /\ phase = "e" /\ UNCHANGED <<master, parent, shared, shared_in, curr, scout_count, awake_count, nth, buffer>>
      /\ TakeQueued(t) \/ ReadWord(t) \/ CasWord(t)
  BY DEF QueueToBitmap
<1>1. /\ UNCHANGED <<input, phase, edges_to_check, old_awake_count, shared_out_start, shared_out_end>>
      /\ UNCHANGED <<local_queue, hold, copy_start, queue>>
  BY <1>0 DEF master, buffer, queue
<1>2. /\ V' = V /\ Window' = Window /\ Within' = Within /\ Ring(d)' = Ring(d)
      /\ \A u : Row(u)' = Row(u) /\ Word(u)' = Word(u)
  BY <1>1, SameGraph DEF Window
<1>3. QInv /\ TypeOK /\ LevelInv(d) /\ FrontInv(d) /\ QueueToBitmapInv(d) /\ d \in 0 .. input.n
  BY DEF Inv, AtLevel, QInv
<1>4. /\ pc \in [Threads -> {"take", "end", "read_word", "cas_word"}]
      /\ at \in [Threads -> SUBSET V] /\ work \subseteq Window /\ front \subseteq V
      /\ input.n \in Nat \ {0} /\ shared_out_end \in Nat
  BY <1>0, <1>3, Types DEF TypeOK
<1>5. \A s \in Window : s \in Filled /\ s \in V /\ shared[s] \in V
  BY <1>3, WindowFacts
<1>6. ASSUME NEW s \in Window PROVE shared[s] \in Ring(d)
  BY <1>0, <1>3, <1>6 DEF LevelInv
<1>7. ASSUME pc[t] \in {"read_word", "cas_word"}
      PROVE  \E s \in Window : at[t] = {shared[s]}
  BY <1>0, <1>3, <1>7 DEF QueueToBitmapInv
(* What each step does.                                                    *)
<1>8. \E x \in {"take", "read_word", "cas_word"} :
        /\ pc' = [pc EXCEPT ![t] = x] /\ pc[t] \notin {"reserve", "copy", "end"}
        /\ work' \subseteq work
        /\ \/ /\ x = "read_word" /\ pc[t] = "take"
              /\ \E s \in work : work' = work \ {s} /\ at' = [at EXCEPT ![t] = {shared[s]}]
              /\ front' = front /\ seen' = seen
           \/ /\ x \in {"cas_word", "read_word"} /\ pc[t] \in {"read_word", "cas_word"}
              /\ at' = at /\ work' = work /\ front' = front
              /\ seen' = seen \/ seen' = [seen EXCEPT ![t] = front \cap Word(Min(at[t]))]
           \/ /\ x = "take" /\ pc[t] = "cas_word" /\ at' = at /\ work' = work
              /\ front' = front \cup at[t] /\ seen' = seen
  BY <1>0 DEF TakeQueued, ReadWord, CasWord
<1>9. PICK x \in {"take", "read_word", "cas_word"} :
        /\ pc' = [pc EXCEPT ![t] = x] /\ pc[t] \notin {"reserve", "copy", "end"}
        /\ work' \subseteq work
        /\ \/ /\ x = "read_word" /\ pc[t] = "take"
              /\ \E s \in work : work' = work \ {s} /\ at' = [at EXCEPT ![t] = {shared[s]}]
              /\ front' = front /\ seen' = seen
           \/ /\ x \in {"cas_word", "read_word"} /\ pc[t] \in {"read_word", "cas_word"}
              /\ at' = at /\ work' = work /\ front' = front
              /\ seen' = seen \/ seen' = [seen EXCEPT ![t] = front \cap Word(Min(at[t]))]
           \/ /\ x = "take" /\ pc[t] = "cas_word" /\ at' = at /\ work' = work
              /\ front' = front \cup at[t] /\ seen' = seen
  BY <1>8
<1>10. /\ \A w \in Threads : pc'[w] = IF w = t THEN x ELSE pc[w]
       /\ \A w \in Threads \ {t} : at'[w] = at[w]
  BY <1>4, <1>9
<1>11. Private(t, x)
  BY <1>1, <1>9 DEF Private, buffer
<1>12. RegionInv' /\ SlotsInv' /\ DistinctInv' /\ Filled' = Filled
  BY <1>3, <1>11, PrivateQueue
<1>13. Visited' = Visited /\ ParentInv' /\ ScoutInv'
  BY <1>0, <1>1, SameTree DEF Inv
<1>14. front' \subseteq V /\ front \subseteq front' /\ \A v \in front' : v \in front \/ v \in Ring(d)
  BY <1>4, <1>5, <1>6, <1>7, <1>9
<1>15. TypeOK'
  <2>1. pc' \in [Threads -> {"take", "end", "read_word", "cas_word"}]
    BY <1>4, <1>9
  <2>2. at' \in [Threads -> SUBSET V]
    BY <1>4, <1>5, <1>9
  <2>3. seen' \in [Threads -> SUBSET (-input.n .. input.n - 1)]
    <3>1. V \subseteq -input.n .. input.n - 1
      BY <1>4 DEF V
    <3>2. seen \in [Threads -> SUBSET (-input.n .. input.n - 1)]
      BY <1>3 DEF TypeOK
    <3>3. front \cap Word(Min(at[t])) \subseteq V
      BY <1>4
    <3> QED
      BY <1>9, <3>1, <3>2, <3>3
  <2>4. work' \subseteq Window'
    BY <1>2, <1>4, <1>9
  <2> QED
    BY <2>1, <2>2, <2>3, <2>4, <1>0, <1>1, <1>2, <1>3, <1>14 DEF TypeOK
<1>16. LevelInv(d)'
  BY <1>0, <1>1, <1>3, <1>4, <1>5, <1>12, <1>13, LevelStays
<1>17. FrontInv(d)'
  <2>1. Ring(d) \subseteq Within[d]
    BY <1>3, RingFacts DEF TypeOK
  <2> QED
    BY <2>1, <1>0, <1>1, <1>2, <1>3, <1>14 DEF FrontInv
<1>18. QueueToBitmapInv(d)'
  <2>1. ASSUME NEW w \in Threads, pc'[w] \in {"read_word", "cas_word"}
        PROVE  \E s \in Window : at'[w] = {shared[s]}
    <3>1. CASE w # t
      BY <3>1, <2>1, <1>0, <1>3, <1>10 DEF QueueToBitmapInv
    <3>2. CASE w = t
      BY <3>2, <2>1, <1>4, <1>7, <1>9, <1>10
    <3> QED
      BY <3>1, <3>2
  <2>2. ASSUME NEW s \in Window \ work'
        PROVE  shared[s] \in front' \/
                 \E w \in Threads : pc'[w] \in {"read_word", "cas_word"} /\ at'[w] = {shared[s]}
    <3>1. CASE s \in work
      BY <3>1, <2>2, <1>4, <1>9, <1>10
    <3>2. CASE shared[s] \in front
      BY <3>2, <1>14
    <3>3. ASSUME NEW w \in Threads, pc[w] \in {"read_word", "cas_word"}, at[w] = {shared[s]}
          PROVE  shared[s] \in front' \/
                 \E u \in Threads : pc'[u] \in {"read_word", "cas_word"} /\ at'[u] = {shared[s]}
      <4>1. CASE w # t
        BY <4>1, <3>3, <1>10
      <4>2. CASE w = t
        BY <4>2, <3>3, <1>9, <1>10
      <4> QED
        BY <4>1, <4>2
    <3> QED
      BY <3>1, <3>2, <3>3, <2>2, <1>0, <1>3 DEF QueueToBitmapInv
  <2> QED
    BY <2>1, <2>2, <1>0, <1>2 DEF QueueToBitmapInv
<1>19. BitmapToQueueInv(d)' /\ TDInv(d)' /\ BUInv(d)'
  BY <1>0, <1>1 DEF BitmapToQueueInv, TDInv, BUInv
<1> QED
  BY <1>1, <1>3, <1>12, <1>13, <1>15, <1>16, <1>17, <1>18, <1>19 DEF Inv, QInv, AtLevel

-----------------------------------------------------------------------------
(* The steps of TDStep.                                                    *)

(* The vertex of the window a thread is at, and the neighbours it has done.*)
AtVertex(t) ==
    /\ \E s \in Window : at[t] = {shared[s]}
    /\ nth[t] <= Len(Neighbours(t))
    /\ \A k \in 1 .. nth[t] : Neighbours(t)[k] \in Visited

Claims(t) ==
    nth[t] < Len(Neighbours(t)) /\ seen[t] = {InitParent[Neighbours(t)[nth[t] + 1]]}

(* A step of one thread leaves the others where they are.                  *)
Others(t) ==
    \A w \in Threads \ {t} :
        /\ pc'[w] = pc[w] /\ hold'[w] = hold[w] /\ at'[w] = at[w]
        /\ nth'[w] = nth[w] /\ seen'[w] = seen[w]

LEMMA TDKeeps ==
    ASSUME NEW d, NEW t \in Threads, TDInv(d), phase = "td", Others(t),
           UNCHANGED <<input, phase, shared_out_start, shared_out_end>>,
           \A s \in Window : shared'[s] = shared[s],
           Visited \subseteq Visited', Enqueued' = Visited' \ Within[d],
           InHand(t)' => AtVertex(t)', pc'[t] = "claim" => Claims(t)',
           \A s \in Window \ work' :
             \/ Row(shared[s]) \subseteq Visited'
             \/ InHand(t)' /\ at'[t] = {shared[s]}
             \/ \E w \in Threads \ {t} : InHand(w) /\ at[w] = {shared[s]}
    PROVE  TDInv(d)'
<1>1. /\ Within' = Within /\ InitParent' = InitParent /\ Window' = Window
      /\ \A u : Row(u)' = Row(u) /\ out_neigh(u)' = out_neigh(u)
  BY SameGraph DEF Window
<1>2. \A w \in Threads \ {t} : (InHand(w)' <=> InHand(w)) /\ Neighbours(w)' = Neighbours(w)
  BY <1>1 DEF Others, InHand, Neighbours
<1>3. ASSUME NEW w \in Threads, InHand(w)' PROVE AtVertex(w)'
  <2>1. CASE w = t
    BY <2>1, <1>3
  <2>2. CASE w # t
    <3>1. AtVertex(w)
      BY <2>2, <1>2, <1>3 DEF TDInv, AtVertex
    <3>2. (\E s \in Window : at[w] = {shared[s]})'
      BY <3>1, <2>2, <1>1 DEF AtVertex, Others
    <3>3. (nth[w] <= Len(Neighbours(w)))' /\ (\A k \in 1 .. nth[w] : Neighbours(w)[k] \in Visited)'
      BY <3>1, <2>2, <1>2 DEF AtVertex, Others
    <3> QED
      BY <3>2, <3>3 DEF AtVertex
  <2> QED
    BY <2>1, <2>2
<1>4. ASSUME NEW w \in Threads, pc'[w] = "claim" PROVE Claims(w)'
  <2>1. CASE w = t
    BY <2>1, <1>4
  <2>2. CASE w # t
    BY <2>2, <1>1, <1>2, <1>4 DEF TDInv, Claims, Others
  <2> QED
    BY <2>1, <2>2
<1>5. ASSUME NEW s \in Window \ work'
      PROVE  Row(shared[s])' \subseteq Visited' \/ \E w \in Threads : InHand(w)' /\ at'[w] = {shared'[s]}
  BY <1>1, <1>2 DEF Others
<1>6. (Enqueued = Visited \ Within[d])'
  BY <1>1
<1>7. \A s \in Window : Row(shared[s])' = (Row(shared[s]))'
  OBVIOUS
<1> QED
  BY <1>1, <1>3, <1>4, <1>5, <1>6 DEF TDInv, AtVertex, Claims

LEMMA TDFacts ==
    ASSUME NEW d, Inv(d), phase = "td"
    PROVE  /\ pc \in [Threads -> {"take", "end", "look", "claim", "reserve", "copy"}]
           /\ at \in [Threads -> SUBSET V] /\ nth \in [Threads -> 0 .. input.n]
           /\ seen \in [Threads -> SUBSET (-input.n .. input.n - 1)]
           /\ parent \in [V -> -input.n .. input.n - 1]
           /\ work \subseteq Window /\ input \in Inputs /\ input.n \in Nat \ {0}
           /\ d \in 0 .. input.n /\ d < input.n /\ d + 1 \in 0 .. input.n
           /\ Within[d] \subseteq Visited /\ Visited \subseteq Within[d + 1]
           /\ Enqueued = Visited \ Within[d] /\ shared_out_end \in Nat
           /\ Ring(d) \subseteq V /\ {shared[s] : s \in Window} = Ring(d)
           /\ \A s \in Filled : shared[s] \in Visited
           /\ \A t \in Threads : Held(t) \subseteq Visited \ Within[d]
           /\ \A t \in Threads : InHand(t) =>
                /\ AtVertex(t) /\ Min(at[t]) \in Ring(d) /\ at[t] = {Min(at[t])}
                /\ Neighbours(t) \in Seq(V) /\ Len(Neighbours(t)) \in 0 .. input.n
                /\ ToSet(Neighbours(t)) = Row(Min(at[t]))
                /\ \A k \in 1 .. Len(Neighbours(t)) : /\ Neighbours(t)[k] \in Row(Min(at[t]))
                                                      /\ Neighbours(t)[k] \in V
<1>1. /\ TypeOK /\ QInv /\ LevelInv(d) /\ TDInv(d) /\ d \in 0 .. input.n
  BY DEF Inv, AtLevel, QInv
<1>2. /\ pc \in [Threads -> {"take", "end", "look", "claim", "reserve", "copy"}]
      /\ at \in [Threads -> SUBSET V] /\ nth \in [Threads -> 0 .. input.n]
      /\ seen \in [Threads -> SUBSET (-input.n .. input.n - 1)]
      /\ parent \in [V -> -input.n .. input.n - 1]
      /\ work \subseteq Window
  BY <1>1 DEF TypeOK
<1>3. /\ input \in Inputs /\ input.n \in Nat \ {0} /\ shared_out_end \in Nat
      /\ shared \in [V -> V \cup {NoSlot}] /\ \A t \in Threads : Held(t) \subseteq V
  BY <1>1, Types
<1>4. d < input.n /\ d + 1 \in 0 .. input.n
  BY <1>1, <1>3 DEF LevelInv
<1>5. /\ Within[d] \subseteq Visited /\ Visited \subseteq Within[d + 1]
      /\ Enqueued = Visited \ Within[d] /\ {shared[s] : s \in Window} = Ring(d)
  BY <1>1 DEF LevelInv, TDInv
<1>6. Ring(d) \subseteq V
  BY <1>1, <1>3, RingFacts, WithinDef
<1>7. ASSUME NEW s \in Filled PROVE shared[s] \in Visited
  <2>1. s \in Int /\ s \in V /\ shared[s] \in V
    BY <1>3 DEF Filled, V
  <2>2. CASE s < shared_out_end
    BY <2>2, <1>1, <1>5 DEF LevelInv
  <2>3. CASE s >= shared_out_end
    BY <2>1, <2>3, <1>5 DEF Enqueued
  <2> QED
    BY <2>1, <2>2, <2>3, <1>3
<1>8. ASSUME NEW t \in Threads PROVE Held(t) \subseteq Visited \ Within[d]
  BY <1>3, <1>5 DEF Enqueued
<1>9. ASSUME NEW t \in Threads, InHand(t)
      PROVE  /\ AtVertex(t) /\ Min(at[t]) \in Ring(d) /\ at[t] = {Min(at[t])}
             /\ Neighbours(t) \in Seq(V) /\ Len(Neighbours(t)) \in 0 .. input.n
             /\ ToSet(Neighbours(t)) = Row(Min(at[t]))
             /\ \A k \in 1 .. Len(Neighbours(t)) : /\ Neighbours(t)[k] \in Row(Min(at[t]))
                                                   /\ Neighbours(t)[k] \in V
  <2>1. AtVertex(t)
    BY <1>1, <1>9 DEF TDInv, AtVertex
  <2>2. PICK s \in Window : at[t] = {shared[s]}
    BY <2>1 DEF AtVertex
  <2>3. shared[s] \in Ring(d) /\ shared[s] \in V
    BY <1>5, <1>6
  <2>4. Min(at[t]) = shared[s]
    <3>1. shared[s] \in Nat
      BY <2>3, <1>3 DEF V
    <3> QED
      BY <3>1, <2>2, MinOne
  <2>5. Neighbours(t) \in Seq(V) /\ ToSet(Neighbours(t)) = Row(Min(at[t]))
    BY <2>3, <2>4, <1>3, RowFacts DEF Neighbours, Row
  <2>6. Len(Neighbours(t)) \in 0 .. input.n
    BY <2>3, <2>4, <1>3, RowLen DEF Neighbours
  <2>7. \A k \in 1 .. Len(Neighbours(t)) : /\ Neighbours(t)[k] \in Row(Min(at[t]))
                                           /\ Neighbours(t)[k] \in V
    BY <2>5, InToSet
  <2> QED
    BY <2>1, <2>2, <2>3, <2>4, <2>5, <2>6, <2>7
<1> QED
  BY <1>1, <1>2, <1>3, <1>4, <1>5, <1>6, <1>7, <1>8, <1>9

(* A step of TDStep that claims nothing.                                   *)
LEMMA TDPrivate ==
    ASSUME NEW d, Inv(d), NEW t \in Threads, phase = "td", Exploring,
           NEW x \in {"take", "look", "claim"},
           pc' = [pc EXCEPT ![t] = x], pc[t] \in {"take", "look", "claim"},
           UNCHANGED <<parent, scout_count, local_queue, hold>>, work' \subseteq work,
           TDInv(d)',
           at' \in [Threads -> SUBSET V], nth' \in [Threads -> 0 .. input.n],
           seen' \in [Threads -> SUBSET (-input.n .. input.n - 1)]
    PROVE  Inv(d)'
<1>1. /\ UNCHANGED <<input, phase, edges_to_check, old_awake_count, shared_out_start, shared_out_end>>
      /\ UNCHANGED <<shared, shared_in, front, curr, awake_count, copy_start, queue, buffer>>
  BY DEF Exploring, master, buffer, queue
<1>2. /\ V' = V /\ Window' = Window
  BY <1>1, SameGraph DEF Window
<1>3. QInv /\ TypeOK /\ LevelInv(d) /\ FrontInv(d) /\ d \in 0 .. input.n
  BY DEF Inv, AtLevel, QInv
<1>4. Private(t, x)
  BY <1>1 DEF Private
<1>5. RegionInv' /\ SlotsInv' /\ DistinctInv' /\ Filled' = Filled
  BY <1>3, <1>4, PrivateQueue
<1>6. Visited' = Visited /\ ParentInv' /\ ScoutInv'
  BY <1>1, SameTree DEF Inv
<1>7. TypeOK'
  <2>1. pc' \in [Threads -> {"take", "end", "look", "claim", "reserve", "copy"}] /\ work' \subseteq Window'
    BY <1>2, TDFacts
  <2> QED
    BY <2>1, <1>1, <1>2, <1>3 DEF TypeOK
<1>8. LevelInv(d)'
  <2>1. Visited \subseteq Within[d + 1] /\ shared_out_end \in Nat
    BY TDFacts
  <2>2. \A s \in Window : s \in Filled
    BY <1>3, WindowFacts
  <2> QED
    BY <2>1, <2>2, <1>1, <1>3, <1>5, <1>6, LevelStays
<1>9. FrontInv(d)'
  BY <1>1, <1>3, FrontStays
<1>10. QueueToBitmapInv(d)' /\ BitmapToQueueInv(d)' /\ BUInv(d)'
  BY <1>1 DEF BitmapToQueueInv, QueueToBitmapInv, BUInv
<1> QED
  BY <1>1, <1>3, <1>5, <1>6, <1>7, <1>8, <1>9, <1>10 DEF Inv, QInv, AtLevel

LEMMA TakeVertexStep ==
    ASSUME NEW d, Inv(d), NEW t \in Threads, phase = "td", Exploring, TakeVertex(t)
    PROVE  Inv(d)'
<1>1. /\ pc[t] = "take" /\ pc' = [pc EXCEPT ![t] = "look"] /\ nth' = [nth EXCEPT ![t] = 0]
      /\ UNCHANGED <<parent, scout_count, seen, local_queue, hold>>
  BY DEF TakeVertex
<1>2. PICK s \in work : work' = work \ {s} /\ at' = [at EXCEPT ![t] = {shared[s]}]
  BY DEF TakeVertex
<1>3. UNCHANGED <<input, phase, shared_out_start, shared_out_end, shared>>
  BY DEF Exploring, master
<1>4. /\ pc \in [Threads -> {"take", "end", "look", "claim", "reserve", "copy"}]
      /\ at \in [Threads -> SUBSET V] /\ nth \in [Threads -> 0 .. input.n]
      /\ seen \in [Threads -> SUBSET (-input.n .. input.n - 1)]
      /\ work \subseteq Window /\ input \in Inputs /\ input.n \in Nat \ {0}
      /\ {shared[r] : r \in Window} = Ring(d) /\ Ring(d) \subseteq V
      /\ Enqueued = Visited \ Within[d]
  BY TDFacts
<1>5. QInv /\ TDInv(d) /\ ~ InHand(t)
  BY <1>1 DEF Inv, AtLevel, InHand, QInv, RegionInv
<1>6. shared[s] \in V /\ s \in Window
  BY <1>2, <1>4
<1>7. /\ pc'[t] = "look" /\ at'[t] = {shared[s]} /\ nth'[t] = 0 /\ Others(t)
  BY <1>1, <1>2, <1>4 DEF Others
<1>8. AtVertex(t)'
  <2>1. Window' = Window /\ \A u : out_neigh(u)' = out_neigh(u)
    BY <1>3, SameGraph DEF Window
  <2>2. Min(at'[t]) = shared[s]
    <3>1. shared[s] \in Nat
      BY <1>4, <1>6 DEF V
    <3> QED
      BY <3>1, <1>7, MinOne
  <2>3. Len(out_neigh(shared[s])) \in Nat
    BY <1>4, <1>6, RowLen
  <2>4. Neighbours(t)' = out_neigh(shared[s])
    BY <2>1, <2>2 DEF Neighbours
  <2>5. (nth[t] <= Len(Neighbours(t)))' /\ (\A k \in 1 .. nth[t] : Neighbours(t)[k] \in Visited)'
    BY <1>7, <2>3, <2>4
  <2>6. (\E r \in Window : at[t] = {shared[r]})'
    BY <1>3, <1>6, <1>7, <2>1
  <2> QED
    BY <2>5, <2>6 DEF AtVertex
<1>9. TDInv(d)'
  <2>1. /\ Visited' = Visited /\ Within' = Within
    BY <1>1, <1>3, SameGraph DEF Visited
  <2>2. Enqueued' = Enqueued
    <3>1. /\ V' = V /\ Filled' = Filled /\ \A w \in Threads : Held(w)' = Held(w)
      BY <1>1, <1>3, SameGraph DEF Filled, Held
    <3> QED
      BY <3>1, <1>3 DEF Enqueued
  <2>3. InHand(t)'
    BY <1>7 DEF InHand
  <2>4. ASSUME NEW r \in Window \ work'
        PROVE  \/ Row(shared[r]) \subseteq Visited'
               \/ InHand(t)' /\ at'[t] = {shared[r]}
               \/ \E w \in Threads \ {t} : InHand(w) /\ at[w] = {shared[r]}
    <3>1. CASE r = s
      BY <3>1, <1>7, <2>3
    <3>2. CASE r # s
      <4>1. r \in Window \ work
        BY <3>2, <1>2, <2>4
      <4> QED
        BY <4>1, <1>5, <2>1 DEF TDInv
    <3> QED
      BY <3>1, <3>2
  <2> QED
    BY <1>3, <1>4, <1>5, <1>7, <1>8, <2>1, <2>2, <2>4, TDKeeps
<1>10. at' \in [Threads -> SUBSET V] /\ nth' \in [Threads -> 0 .. input.n] /\ seen' = seen
  BY <1>1, <1>2, <1>4, <1>6
<1> QED
  BY <1>1, <1>2, <1>4, <1>9, <1>10, TDPrivate

LEMMA LookStep ==
    ASSUME NEW d, Inv(d), NEW t \in Threads, phase = "td", Exploring, Look(t)
    PROVE  Inv(d)'
<1> DEFINE v == Neighbours(t)[nth[t] + 1]
<1>1. /\ pc[t] = "look" /\ nth[t] < Len(Neighbours(t))
      /\ UNCHANGED <<parent, scout_count, work, at, local_queue, hold>>
      /\ \/ /\ parent[v] < 0 /\ seen' = [seen EXCEPT ![t] = {parent[v]}]
            /\ pc' = [pc EXCEPT ![t] = "claim"] /\ nth' = nth
         \/ /\ ~ (parent[v] < 0) /\ nth' = [nth EXCEPT ![t] = @ + 1]
            /\ seen' = seen /\ pc' = pc
  BY DEF Look, Unvisited
<1>2. UNCHANGED <<input, phase, shared_out_start, shared_out_end, shared>>
  BY DEF Exploring, master
<1>3. /\ pc \in [Threads -> {"take", "end", "look", "claim", "reserve", "copy"}]
      /\ at \in [Threads -> SUBSET V] /\ nth \in [Threads -> 0 .. input.n]
      /\ seen \in [Threads -> SUBSET (-input.n .. input.n - 1)]
      /\ parent \in [V -> -input.n .. input.n - 1]
      /\ input.n \in Nat \ {0} /\ Enqueued = Visited \ Within[d]
  BY TDFacts
<1>4. InHand(t)
  BY <1>1 DEF InHand
<1>5. /\ AtVertex(t) /\ Len(Neighbours(t)) \in 0 .. input.n
      /\ \A k \in 1 .. Len(Neighbours(t)) : Neighbours(t)[k] \in V
  BY <1>4, TDFacts
<1>6. nth[t] \in Nat /\ nth[t] + 1 \in 1 .. Len(Neighbours(t)) /\ nth[t] + 1 \in 0 .. input.n
  BY <1>1, <1>3, <1>5
<1>7. v \in V /\ parent[v] \in -input.n .. input.n - 1
  BY <1>3, <1>5, <1>6
<1> HIDE DEF v
<1>8. TDInv(d) /\ ParentInv
  BY DEF Inv, AtLevel
<1>9. /\ Visited' = Visited /\ Within' = Within /\ Window' = Window /\ InitParent' = InitParent
      /\ \A u : out_neigh(u)' = out_neigh(u)
  BY <1>1, <1>2, SameGraph DEF Visited, Window
<1>10. Enqueued' = Enqueued
  <2>1. /\ V' = V /\ Filled' = Filled /\ \A w \in Threads : Held(w)' = Held(w)
    BY <1>1, <1>2, SameGraph DEF Filled, Held
  <2> QED
    BY <2>1, <1>2 DEF Enqueued
<1>11. Others(t) /\ at'[t] = at[t]
  BY <1>1, <1>3 DEF Others
<1>12. Neighbours(t)' = Neighbours(t)
  BY <1>9, <1>11 DEF Neighbours
<1>13. CASE parent[v] < 0
  <2>1. /\ seen' = [seen EXCEPT ![t] = {parent[v]}] /\ pc' = [pc EXCEPT ![t] = "claim"] /\ nth' = nth
    BY <1>1, <1>13
  <2>2. parent[v] = InitParent[v]
    BY <1>7, <1>8, <1>13 DEF ParentInv
  <2>3. seen'[t] = {InitParent[v]} /\ pc'[t] = "claim" /\ nth'[t] = nth[t]
    BY <1>3, <2>1, <2>2
  <2>4. AtVertex(t)'
    BY <1>2, <1>5, <1>9, <1>11, <1>12, <2>3 DEF AtVertex
  <2>5. Claims(t)'
    BY <1>1, <1>9, <1>12, <2>3 DEF Claims, v
  <2>6. InHand(t)'
    BY <2>3 DEF InHand
  <2>7. ASSUME NEW r \in Window \ work'
        PROVE  \/ Row(shared[r]) \subseteq Visited'
               \/ InHand(t)' /\ at'[t] = {shared[r]}
               \/ \E w \in Threads \ {t} : InHand(w) /\ at[w] = {shared[r]}
    BY <2>6, <1>1, <1>8, <1>9, <1>11 DEF TDInv
  <2>8. TDInv(d)'
    BY <1>2, <1>3, <1>8, <1>9, <1>10, <1>11, <2>4, <2>5, <2>7, TDKeeps
  <2>9. seen' \in [Threads -> SUBSET (-input.n .. input.n - 1)]
    BY <1>3, <1>7, <2>1
  <2> QED
    BY <1>1, <1>3, <2>1, <2>8, <2>9, TDPrivate
<1>14. CASE ~ (parent[v] < 0)
  <2>1. nth' = [nth EXCEPT ![t] = @ + 1] /\ seen' = seen /\ pc' = pc
    BY <1>1, <1>14
  <2>2. v \in Visited
    BY <1>7, <1>14, <1>3 DEF Visited
  <2>3. nth'[t] = nth[t] + 1 /\ pc'[t] = "look" /\ nth' \in [Threads -> 0 .. input.n]
    BY <1>1, <1>3, <1>6, <2>1
  <2>4. \A k \in 1 .. nth[t] + 1 : Neighbours(t)[k] \in Visited
    <3>1. \A k \in 1 .. nth[t] + 1 : k \in 1 .. nth[t] \/ k = nth[t] + 1
      BY <1>6
    <3> QED
      BY <3>1, <2>2, <1>5 DEF AtVertex, v
  <2>5. AtVertex(t)'
    BY <1>2, <1>5, <1>6, <1>9, <1>11, <1>12, <2>3, <2>4 DEF AtVertex
  <2>6. InHand(t)'
    BY <2>3 DEF InHand
  <2>7. ASSUME NEW r \in Window \ work'
        PROVE  \/ Row(shared[r]) \subseteq Visited'
               \/ InHand(t)' /\ at'[t] = {shared[r]}
               \/ \E w \in Threads \ {t} : InHand(w) /\ at[w] = {shared[r]}
    BY <2>6, <1>1, <1>8, <1>9, <1>11 DEF TDInv
  <2>8. TDInv(d)'
    BY <1>2, <1>3, <1>8, <1>9, <1>10, <1>11, <2>3, <2>5, <2>7, TDKeeps
  <2>9. pc' = [pc EXCEPT ![t] = "look"]
    BY <1>1, <1>3, <2>1
  <2> QED
    BY <1>1, <1>3, <2>1, <2>3, <2>8, <2>9, TDPrivate
<1> QED
  BY <1>13, <1>14

LEMMA VertexEndsStep ==
    ASSUME NEW d, Inv(d), NEW t \in Threads, phase = "td", Exploring, VertexEnds(t)
    PROVE  Inv(d)'
<1>1. /\ pc[t] = "look" /\ nth[t] = Len(Neighbours(t)) /\ pc' = [pc EXCEPT ![t] = "take"]
      /\ UNCHANGED <<parent, scout_count, work, at, nth, seen, local_queue, hold>>
  BY DEF VertexEnds
<1>2. UNCHANGED <<input, phase, shared_out_start, shared_out_end, shared>>
  BY DEF Exploring, master
<1>3. /\ pc \in [Threads -> {"take", "end", "look", "claim", "reserve", "copy"}]
      /\ at \in [Threads -> SUBSET V] /\ nth \in [Threads -> 0 .. input.n]
      /\ seen \in [Threads -> SUBSET (-input.n .. input.n - 1)]
      /\ input.n \in Nat \ {0} /\ Enqueued = Visited \ Within[d]
  BY TDFacts
<1>4. InHand(t)
  BY <1>1 DEF InHand
<1>5. /\ AtVertex(t) /\ at[t] = {Min(at[t])}
      /\ Neighbours(t) \in Seq(V) /\ ToSet(Neighbours(t)) = Row(Min(at[t]))
  BY <1>4, TDFacts
<1>6. Row(Min(at[t])) \subseteq Visited
  <2>1. \A k \in 1 .. Len(Neighbours(t)) : Neighbours(t)[k] \in Visited
    BY <1>1, <1>5 DEF AtVertex
  <2> QED
    BY <2>1, <1>5, InToSet
<1>7. TDInv(d) /\ hold[t] = <<>>
  BY <1>1 DEF Inv, AtLevel, QInv, RegionInv
<1>8. Visited' = Visited /\ Within' = Within
  BY <1>1, <1>2, SameGraph DEF Visited
<1>9. Enqueued' = Enqueued
  <2>1. /\ V' = V /\ Filled' = Filled /\ \A w \in Threads : Held(w)' = Held(w)
    BY <1>1, <1>2, SameGraph DEF Filled, Held
  <2> QED
    BY <2>1, <1>2 DEF Enqueued
<1>10. Others(t) /\ pc'[t] = "take"
  BY <1>1, <1>3 DEF Others
<1>11. ~ InHand(t)'
  BY <1>1, <1>7, <1>10 DEF InHand
<1>12. ASSUME NEW r \in Window \ work'
       PROVE  \/ Row(shared[r]) \subseteq Visited'
              \/ InHand(t)' /\ at'[t] = {shared[r]}
              \/ \E w \in Threads \ {t} : InHand(w) /\ at[w] = {shared[r]}
  <2>1. CASE at[t] = {shared[r]}
    BY <2>1, <1>5, <1>6, <1>8
  <2>2. CASE at[t] # {shared[r]}
    BY <2>2, <1>1, <1>7, <1>8 DEF TDInv
  <2> QED
    BY <2>1, <2>2
<1>13. TDInv(d)'
  BY <1>2, <1>3, <1>7, <1>8, <1>9, <1>10, <1>11, <1>12, TDKeeps
<1> QED
  BY <1>1, <1>3, <1>13, TDPrivate

LEMMA ClaimStep ==
    ASSUME NEW d, Inv(d), NEW t \in Threads, phase = "td", Exploring, Claim(t)
    PROVE  Inv(d)'
<1> DEFINE v == Neighbours(t)[nth[t] + 1]
           u == Min(at[t])
<1>1. /\ pc[t] = "claim" /\ nth' = [nth EXCEPT ![t] = @ + 1] /\ UNCHANGED <<work, at, seen>>
      /\ \/ /\ {parent[v]} = seen[t] /\ parent' = [parent EXCEPT ![v] = u]
            /\ scout_count' = scout_count - parent[v] /\ PushBack(t, v, "look")
         \/ /\ {parent[v]} # seen[t] /\ pc' = [pc EXCEPT ![t] = "look"]
            /\ UNCHANGED <<parent, scout_count, local_queue, hold>>
  BY DEF Claim
<1>2. /\ UNCHANGED <<input, phase, shared_out_start, shared_out_end, edges_to_check, old_awake_count>>
      /\ UNCHANGED <<shared, shared_in, front, curr, awake_count, copy_start, queue>>
  BY DEF Exploring, master, queue
<1>3. /\ pc \in [Threads -> {"take", "end", "look", "claim", "reserve", "copy"}]
      /\ at \in [Threads -> SUBSET V] /\ nth \in [Threads -> 0 .. input.n]
      /\ seen \in [Threads -> SUBSET (-input.n .. input.n - 1)]
      /\ parent \in [V -> -input.n .. input.n - 1]
      /\ work \subseteq Window /\ input \in Inputs /\ input.n \in Nat \ {0}
      /\ d \in 0 .. input.n /\ d < input.n /\ Enqueued = Visited \ Within[d]
      /\ Within[d] \subseteq Visited /\ Visited \subseteq Within[d + 1]
      /\ \A s \in Filled : shared[s] \in Visited
      /\ \A w \in Threads : Held(w) \subseteq Visited \ Within[d]
  BY TDFacts
<1>4. InHand(t)
  BY <1>1 DEF InHand
<1>5. /\ AtVertex(t) /\ u \in Ring(d) /\ at[t] = {u} /\ Len(Neighbours(t)) \in 0 .. input.n
      /\ \A k \in 1 .. Len(Neighbours(t)) : Neighbours(t)[k] \in V /\ Neighbours(t)[k] \in Row(u)
  BY <1>4, TDFacts
<1>6. TDInv(d) /\ ParentInv /\ ScoutInv /\ QInv /\ TypeOK /\ LevelInv(d) /\ FrontInv(d)
  BY DEF Inv, AtLevel, QInv
<1>7. nth[t] < Len(Neighbours(t)) /\ seen[t] = {InitParent[v]}
  BY <1>1, <1>6 DEF TDInv
<1>8. nth[t] \in Nat /\ nth[t] + 1 \in 1 .. Len(Neighbours(t)) /\ nth[t] + 1 \in 0 .. input.n
  BY <1>3, <1>5, <1>7
<1>9. v \in V /\ v \in Row(u) /\ parent[v] \in -input.n .. input.n - 1 /\ InitParent[v] \in -input.n .. -1
  BY <1>3, <1>5, <1>8, InitParentFacts
<1>10. nth'[t] = nth[t] + 1 /\ nth' \in [Threads -> 0 .. input.n]
  BY <1>1, <1>3, <1>8
<1>11. /\ V' = V /\ Within' = Within /\ Window' = Window /\ InitParent' = InitParent
       /\ Neighbours(t)' = Neighbours(t)
  <2>1. \A x : out_neigh(x)' = out_neigh(x)
    BY <1>2, SameGraph
  <2> QED
    BY <1>1, <1>2, <2>1, SameGraph DEF Window, Neighbours
<1>12. v \in Visited' /\ Visited \subseteq Visited' => AtVertex(t)'
  <2> SUFFICES ASSUME v \in Visited', Visited \subseteq Visited' PROVE AtVertex(t)'
    OBVIOUS
  <2>1. \A k \in 1 .. nth[t] + 1 : k \in 1 .. nth[t] \/ k = nth[t] + 1
    BY <1>8
  <2>2. \A k \in 1 .. nth[t] + 1 : Neighbours(t)[k] \in Visited'
    BY <2>1, <1>5 DEF AtVertex
  <2>3. (\E s \in Window : at[t] = {shared[s]})'
    BY <1>1, <1>2, <1>5, <1>11 DEF AtVertex
  <2> QED
    BY <1>8, <1>10, <1>11, <2>2, <2>3 DEF AtVertex
<1>13. ASSUME InHand(t)', Visited \subseteq Visited', NEW r \in Window \ work'
       PROVE  \/ Row(shared[r]) \subseteq Visited'
              \/ InHand(t)' /\ at'[t] = {shared[r]}
              \/ \E w \in Threads \ {t} : InHand(w) /\ at[w] = {shared[r]}
  BY <1>13, <1>1, <1>6 DEF TDInv
<1> HIDE DEF u, v
<1>14. CASE {parent[v]} # seen[t]
  <2>1. pc' = [pc EXCEPT ![t] = "look"] /\ UNCHANGED <<parent, scout_count, local_queue, hold>>
    BY <1>1, <1>14
  <2>2. v \in Visited
    BY <1>6, <1>7, <1>9, <1>14 DEF ParentInv, Visited
  <2>3. Visited' = Visited /\ Enqueued' = Enqueued
    <3>1. Filled' = Filled /\ \A w \in Threads : Held(w)' = Held(w)
      BY <1>2, <1>11, <2>1 DEF Filled, Held
    <3> QED
      BY <3>1, <1>2, <1>11, <2>1 DEF Enqueued, Visited
  <2>4. pc'[t] = "look" /\ Others(t)
    BY <1>1, <1>3, <2>1 DEF Others
  <2>5. InHand(t)'
    BY <2>4 DEF InHand
  <2>6. TDInv(d)'
    BY <1>2, <1>3, <1>6, <1>12, <1>13, <2>2, <2>3, <2>4, <2>5, TDKeeps
  <2> QED
    BY <1>1, <1>3, <1>10, <2>1, <2>6, TDPrivate
<1>15. CASE {parent[v]} = seen[t]
  <2>1. /\ parent' = [parent EXCEPT ![v] = u] /\ scout_count' = scout_count - parent[v]
        /\ PushBack(t, v, "look")
    BY <1>1, <1>15
  <2>2. v \notin Visited
    <3>1. parent[v] = InitParent[v]
      BY <1>7, <1>15
    <3>2. parent[v] < 0
      BY <3>1, <1>3, <1>9
    <3>3. ~ (parent[v] >= 0)
      BY <3>2, <1>9
    <3> QED
      BY <3>3 DEF Visited
  <2>3. Visit(d, u, v)
    BY <1>2, <1>5, <1>9, <2>1, <2>2 DEF Visit
  <2>4. /\ Visited' = Visited \cup {v} /\ v \in Within[d + 1]
        /\ parent' \in [V -> -input.n .. input.n - 1] /\ ParentInv'
    BY <1>3, <1>6, <2>3, VisitFacts
  <2>5. Pushed(t, v, "look")
    BY <1>1, <1>2, <1>3, <1>9, <2>1, <2>2 DEF Pushed
  <2>6. /\ RegionInv' /\ SlotsInv' /\ DistinctInv'
        /\ Filled' = Filled /\ Enqueued' = Enqueued \cup {v}
        /\ local_queue' \in [Threads -> Seq(V)]
        /\ hold' \in [Threads -> {<<>>} \cup {<<x>> : x \in V}]
        /\ \A w \in Threads : Len(local_queue'[w]) <= local_size
        /\ \A w \in Threads \ {t} : hold'[w] = hold[w] /\ pc'[w] = pc[w]
        /\ \/ pc'[t] = "look" /\ hold'[t] = <<>>
           \/ pc'[t] = "reserve" /\ hold'[t] # <<>>
    BY <1>6, <2>5, PushQueue
  <2>7. InHand(t)' /\ pc'[t] # "claim"
    BY <2>6 DEF InHand
  <2>8. Others(t)
    BY <1>1, <1>3, <2>6 DEF Others
  <2>9. TDInv(d)'
    <3>1. Enqueued' = Visited' \ Within[d]
      BY <1>3, <2>2, <2>4, <2>6
    <3> QED
      BY <1>2, <1>6, <1>12, <1>13, <2>4, <2>7, <2>8, <3>1, TDKeeps
  <2>10. ScoutInv' /\ scout_count' \in 0 .. Cardinality(input.edges) + input.n
    BY <1>2, <1>6, <1>9, <2>1, <2>2, <2>4, ScoutVisit
  <2>11. TypeOK'
    <3>1. pc' \in [Threads -> {"take", "end", "look", "claim", "reserve", "copy"}]
      BY <1>3, <2>1 DEF PushBack
    <3> QED
      BY <3>1, <1>1, <1>2, <1>6, <1>10, <1>11, <2>4, <2>6, <2>10 DEF TypeOK
  <2>12. LevelInv(d)'
    <3>1. \A s \in Window : s \in Filled
      BY <1>6, WindowFacts
    <3>2. shared_out_end \in Nat
      BY TDFacts
    <3>3. Visited' \subseteq Within[d + 1]
      BY <1>3, <2>4
    <3> QED
      BY <3>1, <3>2, <3>3, <1>2, <1>6, <2>4, <2>6, LevelStays
  <2>13. FrontInv(d)'
    BY <1>2, <1>6, FrontStays
  <2>14. QueueToBitmapInv(d)' /\ BitmapToQueueInv(d)' /\ BUInv(d)'
    BY <1>2 DEF BitmapToQueueInv, QueueToBitmapInv, BUInv
  <2> QED
    BY <1>2, <1>3, <2>4, <2>6, <2>9, <2>10, <2>11, <2>12, <2>13, <2>14 DEF Inv, QInv, AtLevel
<1> QED
  BY <1>14, <1>15

-----------------------------------------------------------------------------
(* The steps of a flush, and the end of a thread's part in a region.       *)

Resting(t) ==
    UNCHANGED <<master, parent, front, curr, scout_count, awake_count, work, at, nth, seen>>

LEMMA FlushRegions ==
    ASSUME NEW d, Inv(d), NEW t \in Threads, Resting(t), phase \in {"e", "td", "bu", "c"},
           \A w \in Threads \ {t} : pc'[w] = pc[w] /\ hold'[w] = hold[w],
           InHand(t)' <=> InHand(t), pc'[t] \notin {"claim", "read_word", "cas_word", "scan", "set_bit"},
           pc[t] \notin {"claim", "read_word", "cas_word", "scan", "set_bit"},
           phase \in {"td", "c"} => Enqueued' = Enqueued,
           \A s \in Filled : shared'[s] = shared[s]
    PROVE  QueueToBitmapInv(d)' /\ BitmapToQueueInv(d)' /\ TDInv(d)' /\ BUInv(d)'
<1>1. /\ UNCHANGED <<input, phase, edges_to_check, old_awake_count, shared_out_start, shared_out_end>>
      /\ UNCHANGED <<parent, front, curr, scout_count, awake_count, work, at, nth, seen>>
  BY DEF Resting, master
<1>2. /\ V' = V /\ Within' = Within /\ Window' = Window /\ InitParent' = InitParent /\ Chunks' = Chunks
      /\ \A u : Row(u)' = Row(u) /\ out_neigh(u)' = out_neigh(u) /\ Word(u)' = Word(u) /\ Pred(u)' = Pred(u)
  BY <1>1, SameGraph DEF Window
<1>3. Visited' = Visited /\ \A u : Found(u)' = Found(u)
  BY <1>1, <1>2 DEF Visited, Found
<1>4. QInv /\ QueueToBitmapInv(d) /\ BitmapToQueueInv(d) /\ TDInv(d) /\ BUInv(d)
  BY DEF Inv, AtLevel
<1>5. \A s \in Window : shared'[s] = shared[s]
  BY <1>4, WindowFacts
<1>6. QueueToBitmapInv(d)'
  <2>1. \A w \in Threads : /\ pc'[w] \in {"read_word", "cas_word"} <=> pc[w] \in {"read_word", "cas_word"}
                           /\ at'[w] = at[w]
    BY <1>1
  <2> QED
    BY <2>1, <1>1, <1>2, <1>4, <1>5 DEF QueueToBitmapInv
<1>7. BitmapToQueueInv(d)'
  BY <1>1, <1>4 DEF BitmapToQueueInv
<1>8. TDInv(d)'
  <2>1. CASE phase = "td"
    <3>1. Others(t)
      BY <1>1 DEF Others
    <3>2. Neighbours(t)' = Neighbours(t)
      BY <1>1, <1>2 DEF Neighbours
    <3>3. InHand(t) => AtVertex(t)
      BY <1>4, <2>1 DEF TDInv, AtVertex
    <3>4. AtVertex(t) => AtVertex(t)'
      BY <3>2, <1>1, <1>2, <1>3, <1>5 DEF AtVertex
    <3>5. Enqueued' = Visited' \ Within[d]
      BY <1>3, <1>4, <2>1 DEF TDInv
    <3>6. ASSUME NEW r \in Window \ work'
          PROVE  \/ Row(shared[r]) \subseteq Visited'
                 \/ InHand(t)' /\ at'[t] = {shared[r]}
                 \/ \E w \in Threads \ {t} : InHand(w) /\ at[w] = {shared[r]}
      BY <1>1, <1>3, <1>4, <2>1 DEF TDInv
    <3> QED
      BY <3>1, <3>3, <3>4, <3>5, <3>6, <1>1, <1>3, <1>4, <1>5, <2>1, TDKeeps
  <2>2. CASE phase # "td"
    BY <2>2, <1>1 DEF TDInv
  <2> QED
    BY <2>1, <2>2
<1>9. BUInv(d)'
  <2>1. \A w \in Threads : /\ Scanning(w)' <=> Scanning(w)
                           /\ pc'[w] = "set_bit" <=> pc[w] = "set_bit"
    BY <1>1 DEF Scanning
  <2>2. CASE phase = "bu"
    BY <2>1, <2>2, <1>1, <1>2, <1>3, <1>4 DEF BUInv
  <2>3. CASE phase # "bu"
    BY <2>3, <1>1 DEF BUInv
  <2> QED
    BY <2>2, <2>3
<1> QED
  BY <1>6, <1>7, <1>8, <1>9

LEMMA FlushingStep ==
    ASSUME NEW d, Inv(d), NEW t \in Threads, Flushing(t)
    PROVE  Inv(d)'
<1>1. Resting(t) /\ (Reserve(t) \/ Copy(t) \/ RunsOut(t))
  BY DEF Flushing, Resting
<1>2. /\ UNCHANGED <<input, phase, edges_to_check, old_awake_count, shared_out_start, shared_out_end>>
      /\ UNCHANGED <<parent, front, curr, scout_count, awake_count, work, at, nth, seen>>
  BY <1>1 DEF Resting, master
<1>3. QInv /\ TypeOK /\ RegionInv /\ LevelInv(d) /\ FrontInv(d) /\ ParentInv /\ ScoutInv /\ d \in 0 .. input.n
  BY DEF Inv, AtLevel, QInv
<1>4. pc[t] \in {"reserve", "copy"} => phase \in {"td", "c"}
  <2>1. phase \in {"loop", "e", "bu", "c", "td", "done"}
    BY <1>3 DEF TypeOK
  <2> QED
    BY <2>1, <1>3 DEF TypeOK
<1>5. pc[t] \in {"take", "reserve", "copy"} /\ phase \in {"e", "td", "bu", "c"}
  <2>1. pc[t] \in {"take", "reserve", "copy"}
    BY <1>1 DEF Reserve, Copy, RunsOut
  <2>2. phase \in {"loop", "e", "bu", "c", "td", "done"}
    BY <1>3 DEF TypeOK
  <2> QED
    BY <2>1, <2>2, <1>3 DEF RegionInv
<1>6. /\ V' = V /\ Window' = Window /\ Chunks' = Chunks
  BY <1>2, SameGraph DEF Window
<1>7. /\ Visited' = Visited /\ ParentInv' /\ ScoutInv'
  BY <1>2, <1>3, <1>5, SameTree
<1>8. /\ \A s \in Window : s \in Filled
      /\ shared_out_end \in Nat /\ shared_out_end <= shared_in /\ shared_in \in 0 .. input.n
  BY <1>3, WindowFacts, Types
<1>9. phase \in {"td", "bu"} => Visited \subseteq Within[d + 1]
  BY <1>3 DEF LevelInv
<1>10. FrontInv(d)'
  BY <1>2, <1>3, FrontStays
(* The three steps.                                                        *)
<1>11. CASE Reserve(t)
  <2>1. /\ pc[t] = "reserve" /\ pc' = [pc EXCEPT ![t] = "copy"] /\ UNCHANGED <<shared, local_queue, hold>>
    BY <1>11 DEF Reserve
  <2>2. phase \in {"td", "c"} /\ DOMAIN pc = Threads
    BY <2>1, <1>3, <1>4, Types
  <2>3. /\ RegionInv' /\ SlotsInv' /\ DistinctInv'
        /\ Filled' = Filled /\ Enqueued' = Enqueued
        /\ shared_in' \in 0 .. input.n /\ shared_in' >= shared_in
        /\ copy_start' \in [Threads -> 0 .. input.n]
    BY <1>2, <1>3, <1>11, <2>2, ReserveQueue
  <2>4. pc'[t] = "copy" /\ \A w \in Threads \ {t} : pc'[w] = pc[w] /\ hold'[w] = hold[w]
    BY <2>1, <2>2
  <2>5. TypeOK'
    <3>1. phase = "td" => pc' \in [Threads -> {"take", "end", "look", "claim", "reserve", "copy"}]
      BY <1>3, <2>1 DEF TypeOK
    <3>2. phase = "c" => pc' \in [Threads -> {"take", "end", "reserve", "copy"}]
      BY <1>3, <2>1 DEF TypeOK
    <3>3. shared_out_end <= shared_in'
      BY <1>8, <2>3
    <3> QED
      BY <3>1, <3>2, <3>3, <1>2, <1>3, <1>6, <2>1, <2>2, <2>3 DEF TypeOK
  <2>6. LevelInv(d)'
    BY <1>2, <1>3, <1>5, <1>7, <1>8, <1>9, <2>1, <2>3, LevelStays
  <2>7. InHand(t)' <=> InHand(t)
    BY <2>1, <2>4 DEF InHand
  <2>8. QueueToBitmapInv(d)' /\ BitmapToQueueInv(d)' /\ TDInv(d)' /\ BUInv(d)'
    BY <1>1, <1>5, <2>1, <2>3, <2>4, <2>7, FlushRegions
  <2> QED
    BY <1>2, <1>3, <1>7, <1>10, <2>3, <2>5, <2>6, <2>8 DEF Inv, QInv, AtLevel
<1>12. CASE Copy(t)
  <2>1. pc[t] = "copy" /\ UNCHANGED <<shared_in, copy_start>>
    BY <1>12 DEF Copy
  <2>2. phase \in {"td", "c"} /\ DOMAIN pc = Threads
    BY <2>1, <1>3, <1>4, Types
  <2>3. /\ RegionInv' /\ SlotsInv' /\ DistinctInv'
        /\ Enqueued' = Enqueued
        /\ \A s \in Filled : s \in Filled' /\ shared'[s] = shared[s]
        /\ \A s \in Filled' : s \in Filled \/ s >= shared_out_end
        /\ shared' \in [V -> V \cup {NoSlot}]
        /\ local_queue' \in [Threads -> Seq(V)]
        /\ hold' \in [Threads -> {<<>>} \cup {<<v>> : v \in V}]
        /\ \A w \in Threads : Len(local_queue'[w]) <= local_size
        /\ \A w \in Threads \ {t} : hold'[w] = hold[w] /\ pc'[w] = pc[w]
        /\ hold'[t] = <<>> /\ pc'[t] = IF hold[t] = <<>> THEN "end" ELSE AfterPush
    BY <1>2, <1>3, <1>12, <2>2, CopyQueue
  <2>4. pc'[t] \in {"end", "look", "take"} /\ (phase = "td" => (pc'[t] = "look" <=> hold[t] # <<>>))
        /\ (phase = "c" => pc'[t] # "look")
    BY <2>2, <2>3 DEF AfterPush
  <2>5. TypeOK'
    <3>0. DOMAIN pc' = Threads /\ pc' = [w \in Threads |-> pc'[w]]
      BY <1>12, <2>2 DEF Copy
    <3>1. phase = "td" => pc' \in [Threads -> {"take", "end", "look", "claim", "reserve", "copy"}]
      <4>1. ASSUME phase = "td", NEW w \in Threads
            PROVE  pc'[w] \in {"take", "end", "look", "claim", "reserve", "copy"}
        <5>1. pc[w] \in {"take", "end", "look", "claim", "reserve", "copy"}
          BY <1>3, <4>1 DEF TypeOK
        <5> QED
          BY <5>1, <2>3, <2>4
      <4> QED
        BY <3>0, <4>1
    <3>2. phase = "c" => pc' \in [Threads -> {"take", "end", "reserve", "copy"}]
      <4>1. ASSUME phase = "c", NEW w \in Threads
            PROVE  pc'[w] \in {"take", "end", "reserve", "copy"}
        <5>1. pc[w] \in {"take", "end", "reserve", "copy"}
          BY <1>3, <4>1 DEF TypeOK
        <5> QED
          BY <5>1, <4>1, <2>3, <2>4
      <4> QED
        BY <3>0, <4>1
    <3> QED
      BY <3>1, <3>2, <1>2, <1>3, <1>6, <2>1, <2>2, <2>3 DEF TypeOK
  <2>6. LevelInv(d)'
    BY <1>2, <1>3, <1>5, <1>7, <1>8, <1>9, <2>3, LevelStays
  <2>7. phase = "td" => (InHand(t)' <=> InHand(t))
    BY <2>1, <2>3, <2>4 DEF InHand
  <2>8. QueueToBitmapInv(d)' /\ BitmapToQueueInv(d)' /\ TDInv(d)' /\ BUInv(d)'
    <3>1. CASE phase = "td"
      BY <3>1, <1>1, <1>5, <2>1, <2>3, <2>4, <2>7, FlushRegions
    <3>2. CASE phase = "c"
      <4>1. BitmapToQueueInv(d)
        BY DEF Inv, AtLevel
      <4> QED
        BY <3>2, <4>1, <1>2, <2>3 DEF QueueToBitmapInv, BitmapToQueueInv, TDInv, BUInv
    <3> QED
      BY <3>1, <3>2, <2>2
  <2> QED
    BY <1>2, <1>3, <1>7, <1>10, <2>3, <2>5, <2>6, <2>8 DEF Inv, QInv, AtLevel
<1>13. CASE RunsOut(t)
  <2>1. /\ pc[t] = "take" /\ UNCHANGED <<shared, shared_in, local_queue, hold, copy_start>>
        /\ pc' = [pc EXCEPT ![t] = IF phase \in {"td", "c"} THEN "reserve" ELSE "end"]
    BY <1>13 DEF RunsOut, buffer
  <2>2. /\ RegionInv' /\ SlotsInv' /\ DistinctInv'
        /\ Enqueued' = Enqueued /\ Filled' = Filled
        /\ \A w \in Threads \ {t} : pc'[w] = pc[w]
        /\ pc'[t] = IF phase \in {"td", "c"} THEN "reserve" ELSE "end"
        /\ hold[t] = <<>>
    BY <1>2, <1>3, <1>13, RunsOutQueue
  <2>3. TypeOK'
    <3>1. phase = "td" => pc' \in [Threads -> {"take", "end", "look", "claim", "reserve", "copy"}]
      BY <1>3, <2>1 DEF TypeOK
    <3>2. phase = "c" => pc' \in [Threads -> {"take", "end", "reserve", "copy"}]
      BY <1>3, <2>1 DEF TypeOK
    <3>3. phase = "e" => pc' \in [Threads -> {"take", "end", "read_word", "cas_word"}]
      BY <1>3, <2>1 DEF TypeOK
    <3>4. phase = "bu" => pc' \in [Threads -> {"take", "end", "scan", "set_bit"}]
      BY <1>3, <2>1 DEF TypeOK
    <3> QED
      BY <3>1, <3>2, <3>3, <3>4, <1>2, <1>3, <1>5, <1>6, <2>1 DEF TypeOK
  <2>4. LevelInv(d)'
    BY <1>2, <1>3, <1>5, <1>7, <1>8, <1>9, <2>1, <2>2, LevelStays
  <2>5. InHand(t)' <=> InHand(t)
    BY <2>1, <2>2 DEF InHand
  <2>6. QueueToBitmapInv(d)' /\ BitmapToQueueInv(d)' /\ TDInv(d)' /\ BUInv(d)'
    BY <1>1, <1>5, <2>1, <2>2, <2>5, FlushRegions
  <2> QED
    BY <1>2, <1>3, <1>7, <1>10, <2>2, <2>3, <2>4, <2>6 DEF Inv, QInv, AtLevel
<1> QED
  BY <1>1, <1>11, <1>12, <1>13

-----------------------------------------------------------------------------
(* The step of BitmapToQueue.                                              *)

LEMMA BitmapToQueueStep ==
    ASSUME NEW d, Inv(d), NEW t \in Threads, BitmapToQueue(t)
    PROVE  Inv(d)'
<1>1. /\ phase = "c" /\ pc[t] = "take" /\ UNCHANGED <<parent, scout_count, at, nth, seen>>
      /\ UNCHANGED <<input, phase, shared_out_start, shared_out_end, edges_to_check, old_awake_count>>
      /\ UNCHANGED <<shared, shared_in, front, curr, awake_count, copy_start, queue>>
  BY DEF BitmapToQueue, TakeBit, Exploring, master, queue
<1>2. PICK v \in work :
        /\ work' = work \ {v}
        /\ IF v \in front THEN PushBack(t, v, "take") ELSE UNCHANGED <<pc, local_queue, hold>>
  BY DEF BitmapToQueue, TakeBit
<1>3. QInv /\ TypeOK /\ LevelInv(d) /\ FrontInv(d) /\ ParentInv /\ ScoutInv /\ d \in 0 .. input.n
      /\ BitmapToQueueInv(d)
  BY DEF Inv, AtLevel, QInv
<1>4. /\ pc \in [Threads -> {"take", "end", "reserve", "copy"}] /\ work \subseteq V
      /\ Enqueued = front \ work /\ shared_out_end \in Nat
  BY <1>1, <1>3, Types DEF TypeOK, BitmapToQueueInv
<1>5. V' = V /\ Window' = Window /\ Visited' = Visited /\ ParentInv' /\ ScoutInv'
  BY <1>1, <1>3, SameGraph, SameTree DEF Window
<1>6. \A s \in Window : s \in Filled
  BY <1>3, WindowFacts
<1>7. FrontInv(d)' /\ QueueToBitmapInv(d)' /\ TDInv(d)' /\ BUInv(d)'
  BY <1>1, <1>3, FrontStays DEF QueueToBitmapInv, TDInv, BUInv
<1>8. CASE v \in front
  <2>1. PushBack(t, v, "take")
    BY <1>2, <1>8
  <2>2. \A w \in Threads : v \notin Held(w)
    BY <1>4 DEF Enqueued
  <2>3. ASSUME NEW s \in Filled PROVE shared[s] # v
    <3>1. s \in Int
      BY DEF Filled, V
    <3>2. CASE s < shared_out_end
      BY <3>2, <1>1, <1>3, <1>8 DEF LevelInv
    <3>3. CASE s >= shared_out_end
      BY <3>3, <1>4 DEF Enqueued
    <3> QED
      BY <3>1, <3>2, <3>3, <1>4
  <2>4. Pushed(t, v, "take")
    BY <1>1, <1>2, <1>4, <2>1, <2>2, <2>3 DEF Pushed
  <2>5. /\ RegionInv' /\ SlotsInv' /\ DistinctInv'
        /\ Filled' = Filled /\ Enqueued' = Enqueued \cup {v}
        /\ local_queue' \in [Threads -> Seq(V)]
        /\ hold' \in [Threads -> {<<>>} \cup {<<x>> : x \in V}]
        /\ \A w \in Threads : Len(local_queue'[w]) <= local_size
    BY <1>3, <2>4, PushQueue
  <2>6. TypeOK'
    <3>1. pc' \in [Threads -> {"take", "end", "reserve", "copy"}]
      BY <1>4, <2>1 DEF PushBack
    <3> QED
      BY <3>1, <1>1, <1>2, <1>3, <1>5, <2>5 DEF TypeOK
  <2>7. BitmapToQueueInv(d)'
    BY <1>1, <1>2, <1>4, <1>8, <2>5 DEF BitmapToQueueInv
  <2>8. LevelInv(d)'
    BY <1>1, <1>3, <1>4, <1>5, <1>6, <2>5, LevelStays
  <2> QED
    BY <1>1, <1>3, <1>5, <1>7, <2>5, <2>6, <2>7, <2>8 DEF Inv, QInv, AtLevel
<1>9. CASE v \notin front
  <2>1. UNCHANGED <<pc, local_queue, hold>>
    BY <1>2, <1>9
  <2>2. Private(t, "take")
    BY <1>1, <1>2, <1>4, <2>1 DEF Private, buffer
  <2>3. RegionInv' /\ SlotsInv' /\ DistinctInv' /\ Filled' = Filled /\ Enqueued' = Enqueued
    BY <1>3, <2>2, PrivateQueue
  <2>4. TypeOK'
    BY <1>1, <1>2, <1>3, <1>5, <2>1 DEF TypeOK
  <2>5. BitmapToQueueInv(d)'
    BY <1>1, <1>2, <1>4, <1>9, <2>3 DEF BitmapToQueueInv
  <2>6. LevelInv(d)'
    BY <1>1, <1>3, <1>4, <1>5, <1>6, <2>3, LevelStays
  <2> QED
    BY <1>1, <1>3, <1>5, <1>7, <2>3, <2>4, <2>5, <2>6 DEF Inv, QInv, AtLevel
<1> QED
  BY <1>8, <1>9

-----------------------------------------------------------------------------
(* The chunks and the words of the bitmap.                                 *)

LEMMA ChunkFacts ==
    ASSUME input \in Inputs
    PROVE  /\ \A c \in Chunks : c \subseteq V
           /\ \A c, e \in Chunks : c # e => c \cap e = {}
           /\ \A v \in V : \E c \in Chunks : v \in c
<1>1. input.n \in Nat \ {0} /\ ChunkSize \in Nat \ {0}
  BY InputFacts, SizesAssumption
<1> DEFINE ch(i) == {v \in V : v \div ChunkSize = i}
<1>2. Chunks = {ch(i) : i \in 0 .. (input.n - 1) \div ChunkSize}
  BY DEF Chunks
<1>3. \A c \in Chunks : c \subseteq V
  BY <1>2
<1>4. ASSUME NEW c \in Chunks, NEW e \in Chunks, c # e PROVE c \cap e = {}
  <2>1. PICK i \in 0 .. (input.n - 1) \div ChunkSize : c = ch(i)
    BY <1>2
  <2>2. PICK k \in 0 .. (input.n - 1) \div ChunkSize : e = ch(k)
    BY <1>2
  <2> QED
    BY <1>4, <2>1, <2>2
<1>5. ASSUME NEW v \in V PROVE \E c \in Chunks : v \in c
  <2>1. v \in Nat /\ v <= input.n - 1
    BY <1>1 DEF V
  <2>2. v \div ChunkSize \in 0 .. (input.n - 1) \div ChunkSize
    BY <2>1, <1>1
  <2>3. v \in ch(v \div ChunkSize)
    OBVIOUS
  <2>4. ch(v \div ChunkSize) \in Chunks
    BY <2>2, <1>2
  <2> QED
    BY <2>3, <2>4
<1> QED
  BY <1>3, <1>4, <1>5

(* A word of the bitmap lies within a chunk.                               *)
LEMMA WordInChunk ==
    ASSUME input \in Inputs, NEW c \in Chunks, NEW x \in c, NEW u \in Word(x)
    PROVE  u \in c
<1>1. /\ ChunkSize \in Nat \ {0} /\ kBitsPerWord \in Nat \ {0} /\ ChunkSize % kBitsPerWord = 0
      /\ input.n \in Nat
  BY InputFacts, SizesAssumption
<1>2. /\ x \in V /\ u \in V /\ x \in Nat /\ u \in Nat
      /\ u \div kBitsPerWord = x \div kBitsPerWord
  BY <1>1, ChunkFacts DEF Word, V
<1> DEFINE k == kBitsPerWord
           m == ChunkSize \div k
           q == x \div k
           e == x \div ChunkSize
<1>3. m \in Nat \ {0} /\ ChunkSize = m * k
  BY <1>1
<1>4. q \in Nat /\ q * k <= x /\ x < (q + 1) * k /\ q * k <= u /\ u < (q + 1) * k
  BY <1>1, <1>2
<1>5. e \in Nat /\ e * ChunkSize <= x /\ x < (e + 1) * ChunkSize
  BY <1>1, <1>2
<1> HIDE DEF m, q, e
<1>6. e * m <= q /\ q < (e + 1) * m
  <2>1. e * (m * k) = (e * m) * k /\ (e + 1) * (m * k) = ((e + 1) * m) * k
    BY <1>1, <1>3, <1>5
  <2>2. (e * m) * k < (q + 1) * k /\ q * k < ((e + 1) * m) * k
    BY <1>1, <1>2, <1>3, <1>4, <1>5, <2>1
  <2>3. \A a, b \in Nat : a * k < b * k => a < b
    BY <1>1
  <2>4. e * m \in Nat /\ (e + 1) * m \in Nat
    BY <1>3, <1>5
  <2> QED
    BY <1>4, <2>2, <2>3, <2>4
<1>7. e * ChunkSize <= u /\ u < (e + 1) * ChunkSize
  BY <1>1, <1>2, <1>3, <1>4, <1>5, <1>6
<1>8. u \div ChunkSize = e
  BY <1>1, <1>2, <1>5, <1>7
<1>9. PICK i \in 0 .. (input.n - 1) \div ChunkSize : c = {v \in V : v \div ChunkSize = i}
  BY DEF Chunks
<1> QED
  BY <1>2, <1>8, <1>9 DEF e

-----------------------------------------------------------------------------
(* The steps of BUStep.                                                    *)

LEMMA BUFacts ==
    ASSUME NEW d, Inv(d), phase = "bu"
    PROVE  /\ pc \in [Threads -> {"take", "end", "scan", "set_bit"}]
           /\ at \in [Threads -> SUBSET V]
           /\ seen \in [Threads -> SUBSET (-input.n .. input.n - 1)]
           /\ parent \in [V -> -input.n .. input.n - 1]
           /\ V \subseteq -input.n .. input.n - 1 /\ V \subseteq Nat
           /\ work \subseteq Chunks /\ input \in Inputs /\ input.n \in Nat \ {0}
           /\ front \subseteq V /\ curr \subseteq V
           /\ d \in 0 .. input.n /\ d < input.n /\ Within[d] \subseteq Visited
           /\ Visited \subseteq Within[d + 1] /\ shared_out_end \in Nat
           /\ \A s \in Window : s \in Filled
           /\ \A t \in Threads : at[t] # {} => Min(at[t]) \in at[t] /\ \A x \in at[t] : Min(at[t]) <= x
<1>1. TypeOK /\ QInv /\ LevelInv(d) /\ d \in 0 .. input.n
  BY DEF Inv, AtLevel, QInv
<1>2. /\ pc \in [Threads -> {"take", "end", "scan", "set_bit"}]
      /\ at \in [Threads -> SUBSET V]
      /\ seen \in [Threads -> SUBSET (-input.n .. input.n - 1)]
      /\ parent \in [V -> -input.n .. input.n - 1]
      /\ work \subseteq Chunks /\ front \subseteq V /\ curr \subseteq V
  BY <1>1 DEF TypeOK
<1>3. input \in Inputs /\ input.n \in Nat \ {0} /\ shared_out_end \in Nat
  BY <1>1, Types
<1>4. V \subseteq -input.n .. input.n - 1 /\ V \subseteq Nat
  BY <1>3 DEF V
<1>5. d < input.n /\ Within[d] \subseteq Visited /\ Visited \subseteq Within[d + 1]
  BY <1>1 DEF LevelInv
<1>6. \A s \in Window : s \in Filled
  BY <1>1, WindowFacts
<1>7. ASSUME NEW t \in Threads, at[t] # {}
      PROVE  Min(at[t]) \in at[t] /\ \A x \in at[t] : Min(at[t]) <= x
  <2>1. at[t] \in SUBSET Nat
    BY <1>2, <1>4
  <2> QED
    BY <2>1, <1>7, MinFacts
<1> QED
  BY <1>1, <1>2, <1>3, <1>4, <1>5, <1>6, <1>7

LEMMA BUFrame ==
    ASSUME NEW d, Inv(d), NEW t \in Threads, phase = "bu", NEW x \in {"take", "scan", "set_bit"},
           UNCHANGED <<master, shared, shared_in, front, scout_count, nth, buffer>>,
           pc' = [pc EXCEPT ![t] = x], pc[t] \in {"take", "scan", "set_bit"}, work' \subseteq work,
           at' \in [Threads -> SUBSET V], seen' \in [Threads -> SUBSET (-input.n .. input.n - 1)],
           parent' \in [V -> -input.n .. input.n - 1], curr' \subseteq V, awake_count' \in 0 .. input.n,
           Visited \subseteq Visited', Visited' \subseteq Within[d + 1],
           ParentInv', ScoutInv', BUInv(d)'
    PROVE  Inv(d)'
<1>1. /\ UNCHANGED <<input, phase, edges_to_check, old_awake_count, shared_out_start, shared_out_end>>
      /\ UNCHANGED <<shared, shared_in, front, scout_count, nth, local_queue, hold, copy_start, queue>>
  BY DEF master, buffer, queue
<1>2. V' = V /\ Window' = Window /\ Chunks' = Chunks
  BY <1>1, SameGraph DEF Window
<1>3. QInv /\ TypeOK /\ LevelInv(d) /\ FrontInv(d) /\ d \in 0 .. input.n
  BY DEF Inv, AtLevel, QInv
<1>4. Private(t, x)
  BY <1>1 DEF Private, buffer
<1>5. RegionInv' /\ SlotsInv' /\ DistinctInv' /\ Filled' = Filled
  BY <1>3, <1>4, PrivateQueue
<1>6. TypeOK'
  <2>1. pc' \in [Threads -> {"take", "end", "scan", "set_bit"}] /\ work' \subseteq Chunks'
    BY <1>2, BUFacts
  <2> QED
    BY <2>1, <1>1, <1>2, <1>3 DEF TypeOK
<1>7. LevelInv(d)'
  BY <1>1, <1>3, <1>5, BUFacts, LevelStays
<1>8. FrontInv(d)'
  BY <1>1, <1>3, FrontStays
<1>9. QueueToBitmapInv(d)' /\ BitmapToQueueInv(d)' /\ TDInv(d)'
  BY <1>1 DEF BitmapToQueueInv, QueueToBitmapInv, TDInv
<1> QED
  BY <1>1, <1>3, <1>5, <1>6, <1>7, <1>8, <1>9 DEF Inv, QInv, AtLevel

LEMMA TakeChunkStep ==
    ASSUME NEW d, Inv(d), NEW t \in Threads, phase = "bu", TakeChunk(t),
           UNCHANGED <<master, shared, shared_in, front, scout_count, nth, buffer>>
    PROVE  Inv(d)'
<1>1. /\ pc[t] = "take" /\ pc' = [pc EXCEPT ![t] = "scan"]
      /\ UNCHANGED <<input, phase, front, parent, curr, awake_count, seen, scout_count>>
  BY DEF TakeChunk, master
<1>2. PICK c \in work : at' = [at EXCEPT ![t] = c] /\ work' = work \ {c}
  BY DEF TakeChunk
<1>3. /\ pc \in [Threads -> {"take", "end", "scan", "set_bit"}]
      /\ at \in [Threads -> SUBSET V]
      /\ seen \in [Threads -> SUBSET (-input.n .. input.n - 1)]
      /\ parent \in [V -> -input.n .. input.n - 1]
      /\ work \subseteq Chunks /\ input \in Inputs /\ curr \subseteq V
      /\ Visited \subseteq Within[d + 1]
  BY BUFacts
<1>4. TypeOK /\ ParentInv /\ ScoutInv /\ BUInv(d)
  BY DEF Inv, QInv, AtLevel
<1>5. /\ V' = V /\ Within' = Within /\ Chunks' = Chunks
      /\ \A u : Word(u)' = Word(u) /\ Pred(u)' = Pred(u)
  BY <1>1, SameGraph
<1>6. Visited' = Visited /\ ParentInv' /\ ScoutInv' /\ \A u : Found(u)' = Found(u)
  BY <1>1, <1>4, <1>5, SameTree DEF Found
<1>7. c \in Chunks /\ c \subseteq V /\ \A e \in Chunks : c # e => c \cap e = {}
  BY <1>2, <1>3, ChunkFacts
<1>8. /\ pc'[t] = "scan" /\ at'[t] = c /\ Scanning(t)' /\ ~ Scanning(t)
      /\ \A w \in Threads \ {t} : pc'[w] = pc[w] /\ at'[w] = at[w] /\ (Scanning(w)' <=> Scanning(w))
  BY <1>1, <1>2, <1>3 DEF Scanning
<1>9. BUInv(d)'
  <2>1. ASSUME NEW w \in Threads, Scanning(w)' PROVE \E e \in Chunks \ work' : at'[w] \subseteq e
    <3>1. CASE w = t
      BY <3>1, <1>2, <1>7, <1>8
    <3>2. CASE w # t
      BY <3>2, <2>1, <1>1, <1>2, <1>4, <1>8 DEF BUInv
    <3> QED
      BY <3>1, <3>2
  <2>2. ASSUME NEW w \in Threads, pc'[w] = "set_bit"
        PROVE  /\ at'[w] # {} /\ Min(at'[w]) \in Visited' \ (Within[d] \cup curr')
               /\ (seen[w] = curr \cap Word(Min(at[w])))'
    <3>1. w # t /\ pc[w] = "set_bit" /\ at'[w] = at[w]
      BY <2>2, <1>8
    <3> QED
      BY <3>1, <1>1, <1>4, <1>5, <1>6 DEF BUInv
  <2>3. ASSUME NEW w \in Threads \ {t}, Scanning(w), NEW e \in Chunks
        PROVE  c \cap e = {} \/ at[w] \cap e = {}
    <3>1. CASE e = c
      <4>1. PICK f \in Chunks \ work : at[w] \subseteq f
        BY <2>3, <1>1, <1>4 DEF BUInv
      <4>2. f # c /\ c \cap f = {}
        BY <4>1, <1>2, <1>7
      <4> QED
        BY <3>1, <4>1, <4>2
    <3>2. CASE e # c
      BY <3>2, <1>7
    <3> QED
      BY <3>1, <3>2
  <2>4. ASSUME NEW u \in Threads, NEW w \in Threads, NEW e \in Chunks,
               u # w, Scanning(u)', Scanning(w)'
        PROVE  at'[u] \cap e = {} \/ at'[w] \cap e = {}
    <3>1. CASE u = t
      BY <3>1, <2>3, <2>4, <1>8
    <3>2. CASE w = t
      BY <3>2, <2>3, <2>4, <1>8
    <3>3. CASE u # t /\ w # t
      BY <3>3, <2>4, <1>1, <1>4, <1>8 DEF BUInv
    <3> QED
      BY <3>1, <3>2, <3>3
  <2>5. curr' \subseteq Visited' \ Within[d] /\ awake_count' = Cardinality(Visited' \ Within[d])
    BY <1>1, <1>4, <1>6 DEF BUInv
  <2>6. ASSUME NEW v \in Visited' \ Within[d]
        PROVE  v \in curr' \/ \E w \in Threads : pc'[w] = "set_bit" /\ v = Min(at'[w])
    <3>1. v \in curr \/ \E w \in Threads : pc[w] = "set_bit" /\ v = Min(at[w])
      BY <1>1, <1>4, <1>6 DEF BUInv
    <3>2. \A w \in Threads : pc[w] = "set_bit" => w # t
      BY <1>1
    <3> QED
      BY <3>1, <3>2, <1>1, <1>8
  <2>7. ASSUME NEW v \in V, Found(v)
        PROVE  (\E e \in work' : v \in e) \/ \E w \in Threads : Scanning(w)' /\ v \in at'[w]
    <3>1. CASE v \in c
      BY <3>1, <1>8
    <3>2. CASE v \notin c
      <4>1. (\E e \in work : v \in e) \/ \E w \in Threads : Scanning(w) /\ v \in at[w]
        BY <2>7, <1>1, <1>4 DEF BUInv
      <4> QED
        BY <3>2, <4>1, <1>2, <1>8
    <3> QED
      BY <3>1, <3>2
  <2> QED
    BY <2>1, <2>2, <2>4, <2>5, <2>6, <2>7, <1>1, <1>5, <1>6 DEF BUInv
<1>10. at' \in [Threads -> SUBSET V] /\ awake_count \in 0 .. input.n
  BY <1>2, <1>3, <1>4, <1>7 DEF TypeOK
<1> QED
  BY <1>1, <1>2, <1>3, <1>6, <1>9, <1>10, BUFrame

LEMMA ChunkEndsStep ==
    ASSUME NEW d, Inv(d), NEW t \in Threads, phase = "bu", ChunkEnds(t),
           UNCHANGED <<master, shared, shared_in, front, scout_count, nth, buffer>>
    PROVE  Inv(d)'
<1>1. /\ pc[t] = "scan" /\ \A u \in at[t] : ~ Found(u)
      /\ pc' = [pc EXCEPT ![t] = "take"] /\ at' = [at EXCEPT ![t] = {}]
      /\ UNCHANGED <<input, phase, front, parent, curr, awake_count, work, seen, scout_count>>
  BY DEF ChunkEnds, master
<1>2. /\ pc \in [Threads -> {"take", "end", "scan", "set_bit"}]
      /\ at \in [Threads -> SUBSET V]
      /\ seen \in [Threads -> SUBSET (-input.n .. input.n - 1)]
      /\ parent \in [V -> -input.n .. input.n - 1] /\ curr \subseteq V
      /\ Visited \subseteq Within[d + 1]
  BY BUFacts
<1>3. TypeOK /\ ParentInv /\ ScoutInv /\ BUInv(d)
  BY DEF Inv, QInv, AtLevel
<1>4. /\ V' = V /\ Within' = Within /\ Chunks' = Chunks
      /\ \A u : Word(u)' = Word(u) /\ Pred(u)' = Pred(u)
  BY <1>1, SameGraph
<1>5. Visited' = Visited /\ ParentInv' /\ ScoutInv' /\ \A u : Found(u)' = Found(u)
  BY <1>1, <1>3, <1>4, SameTree DEF Found
<1>6. /\ pc'[t] = "take" /\ ~ Scanning(t)'
      /\ \A w \in Threads \ {t} : pc'[w] = pc[w] /\ at'[w] = at[w] /\ (Scanning(w)' <=> Scanning(w))
  BY <1>1, <1>2 DEF Scanning
<1>7. BUInv(d)'
  <2>1. ASSUME NEW w \in Threads, Scanning(w)' PROVE \E e \in Chunks \ work' : at'[w] \subseteq e
    <3>1. w # t /\ Scanning(w) /\ at'[w] = at[w]
      BY <2>1, <1>6
    <3> QED
      BY <3>1, <1>1, <1>3 DEF BUInv
  <2>2. ASSUME NEW w \in Threads, pc'[w] = "set_bit"
        PROVE  /\ at'[w] # {} /\ Min(at'[w]) \in Visited' \ (Within[d] \cup curr')
               /\ (seen[w] = curr \cap Word(Min(at[w])))'
    <3>1. w # t /\ pc[w] = "set_bit" /\ at'[w] = at[w]
      BY <2>2, <1>6
    <3> QED
      BY <3>1, <1>1, <1>3, <1>4, <1>5 DEF BUInv
  <2>3. ASSUME NEW u \in Threads, NEW w \in Threads, NEW e \in Chunks,
               u # w, Scanning(u)', Scanning(w)'
        PROVE  at'[u] \cap e = {} \/ at'[w] \cap e = {}
    <3>1. u # t /\ w # t /\ Scanning(u) /\ Scanning(w) /\ at'[u] = at[u] /\ at'[w] = at[w]
      BY <2>3, <1>6
    <3> QED
      BY <3>1, <2>3, <1>1, <1>3 DEF BUInv
  <2>4. curr' \subseteq Visited' \ Within[d] /\ awake_count' = Cardinality(Visited' \ Within[d])
    BY <1>1, <1>3, <1>5 DEF BUInv
  <2>5. ASSUME NEW v \in Visited' \ Within[d]
        PROVE  v \in curr' \/ \E w \in Threads : pc'[w] = "set_bit" /\ v = Min(at'[w])
    <3>1. v \in curr \/ \E w \in Threads : pc[w] = "set_bit" /\ v = Min(at[w])
      BY <1>1, <1>3, <1>5 DEF BUInv
    <3>2. \A w \in Threads : pc[w] = "set_bit" => w # t
      BY <1>1
    <3> QED
      BY <3>1, <3>2, <1>1, <1>6
  <2>6. ASSUME NEW v \in V, Found(v)
        PROVE  (\E e \in work' : v \in e) \/ \E w \in Threads : Scanning(w)' /\ v \in at'[w]
    <3>1. (\E e \in work : v \in e) \/ \E w \in Threads : Scanning(w) /\ v \in at[w]
      BY <2>6, <1>1, <1>3 DEF BUInv
    <3> QED
      BY <3>1, <2>6, <1>1, <1>6
  <2> QED
    BY <2>1, <2>2, <2>3, <2>4, <2>5, <2>6, <1>1, <1>4, <1>5 DEF BUInv
<1>8. at' \in [Threads -> SUBSET V] /\ awake_count \in 0 .. input.n
  BY <1>1, <1>2, <1>3 DEF TypeOK
<1> QED
  BY <1>1, <1>2, <1>5, <1>7, <1>8, BUFrame

LEMMA AdoptStep ==
    ASSUME NEW d, Inv(d), NEW t \in Threads, phase = "bu", Adopt(t),
           UNCHANGED <<master, shared, shared_in, front, scout_count, nth, buffer>>
    PROVE  Inv(d)'
<1>1. /\ pc[t] = "scan" /\ awake_count' = awake_count + 1 /\ pc' = [pc EXCEPT ![t] = "set_bit"]
      /\ UNCHANGED <<input, phase, front, curr, work, scout_count>>
  BY DEF Adopt, master
<1>2. PICK u \in at[t] :
         /\ Found(u) /\ \A x \in at[t] : x < u => ~ Found(x)
         /\ parent' = [parent EXCEPT ![u] = Min(Pred(u) \cap front)]
         /\ seen' = [seen EXCEPT ![t] = curr \cap Word(u)]
         /\ at' = [at EXCEPT ![t] = {x \in @ : x >= u}]
  BY DEF Adopt
<1>3. /\ pc \in [Threads -> {"take", "end", "scan", "set_bit"}]
      /\ at \in [Threads -> SUBSET V]
      /\ seen \in [Threads -> SUBSET (-input.n .. input.n - 1)]
      /\ parent \in [V -> -input.n .. input.n - 1]
      /\ V \subseteq -input.n .. input.n - 1 /\ V \subseteq Nat
      /\ input \in Inputs /\ input.n \in Nat \ {0}
      /\ front \subseteq V /\ curr \subseteq V
      /\ d \in 0 .. input.n /\ d < input.n /\ Within[d] \subseteq Visited
      /\ Visited \subseteq Within[d + 1]
  BY BUFacts
<1>4. TypeOK /\ ParentInv /\ ScoutInv /\ BUInv(d) /\ FrontInv(d)
  BY DEF Inv, QInv, AtLevel
<1>5. u \in V /\ parent[u] < 0 /\ u \notin Visited /\ u \in Nat
  <2>1. u \in V /\ parent[u] < 0 /\ parent[u] \in -input.n .. input.n - 1
    BY <1>2, <1>3 DEF Found
  <2>2. ~ (parent[u] >= 0)
    BY <2>1, <1>3
  <2> QED
    BY <2>1, <2>2, <1>3 DEF Visited
<1> DEFINE p == Min(Pred(u) \cap front)
<1>6. p \in Pred(u) \cap front
  <2>1. Pred(u) \cap front # {} /\ Pred(u) \cap front \in SUBSET Nat
    BY <1>2, <1>3 DEF Found
  <2> QED
    BY <2>1, MinFacts
<1>7. p \in V /\ u \in Row(p)
  BY <1>3, <1>6, RowFacts DEF Pred
<1>8. p \in Ring(d)
  BY <1>3, <1>4, <1>5, <1>6, <1>7 DEF FrontInv
<1>9. Visit(d, p, u)
  BY <1>1, <1>2, <1>5, <1>7, <1>8 DEF Visit
<1> HIDE DEF p
<1>10. /\ Visited' = Visited \cup {u} /\ u \in Within[d + 1]
       /\ parent' \in [V -> -input.n .. input.n - 1] /\ ParentInv'
  BY <1>3, <1>4, <1>9, VisitFacts
<1>11. ScoutInv'
  BY <1>1, <1>4, <1>5, <1>10, ScoutVisit
<1>12. /\ V' = V /\ Within' = Within /\ Chunks' = Chunks
       /\ \A x : Word(x)' = Word(x) /\ Pred(x)' = Pred(x)
  BY <1>1, SameGraph
<1>13. \A x \in V : Found(x)' => Found(x) /\ x # u
  <2> SUFFICES ASSUME NEW x \in V, Found(x)' PROVE Found(x) /\ x # u
    OBVIOUS
  <2>1. parent'[x] < 0 /\ Pred(x) \cap front # {}
    BY <1>1, <1>12 DEF Found
  <2>2. parent'[u] = p
    BY <1>2, <1>3, <1>5 DEF p
  <2>3. p \in Nat
    BY <1>3, <1>7
  <2>4. x # u
    BY <2>1, <2>2, <2>3
  <2>5. parent'[x] = parent[x]
    BY <2>4, <1>2, <1>3
  <2> QED
    BY <2>1, <2>4, <2>5 DEF Found
<1>14. /\ pc'[t] = "set_bit" /\ at'[t] = {x \in at[t] : x >= u} /\ seen'[t] = curr \cap Word(u)
       /\ Scanning(t) /\ Scanning(t)'
       /\ \A w \in Threads \ {t} : /\ pc'[w] = pc[w] /\ at'[w] = at[w] /\ seen'[w] = seen[w]
                                   /\ (Scanning(w)' <=> Scanning(w))
  BY <1>1, <1>2, <1>3 DEF Scanning
<1>15. at'[t] \subseteq at[t] /\ Min(at'[t]) = u /\ u \in at'[t]
  <2>1. u \in at'[t] /\ \A x \in at'[t] : u <= x
    BY <1>2, <1>5, <1>14
  <2>2. at'[t] \in SUBSET Nat
    BY <1>3, <1>14
  <2>3. Min(at'[t]) \in at'[t] /\ \A x \in at'[t] : Min(at'[t]) <= x
    BY <2>1, <2>2, MinFacts
  <2>4. Min(at'[t]) \in Nat /\ u <= Min(at'[t]) /\ Min(at'[t]) <= u
    BY <2>1, <2>2, <2>3
  <2> QED
    BY <2>1, <2>4, <1>5, <1>14
<1>16. \A w \in Threads : at'[w] \subseteq at[w] /\ (Scanning(w)' <=> Scanning(w))
  BY <1>14, <1>15
<1>17. Visited' \ Within[d] = (Visited \ Within[d]) \cup {u} /\ u \notin Within[d]
  BY <1>3, <1>5, <1>10
<1>18. awake_count' = Cardinality(Visited' \ Within[d]) /\ awake_count' \in 0 .. input.n
  <2>1. IsFiniteSet(V) /\ Cardinality(V) = input.n
    BY <1>3, InputFacts DEF V
  <2>2. Visited \ Within[d] \subseteq V /\ Visited' \ Within[d] \subseteq V
    BY <1>5, <1>17 DEF Visited
  <2>3. IsFiniteSet(Visited \ Within[d]) /\ u \notin Visited \ Within[d]
    BY <2>1, <2>2, <1>5, FS_Subset
  <2>4. Cardinality((Visited \ Within[d]) \cup {u}) = Cardinality(Visited \ Within[d]) + 1
    BY <2>3, FS_AddElement
  <2>5. awake_count = Cardinality(Visited \ Within[d]) /\ awake_count \in 0 .. input.n
    BY <1>1, <1>4 DEF BUInv, TypeOK
  <2>6. Cardinality(Visited' \ Within[d]) <= input.n
    BY <2>1, <2>2, FS_Subset
  <2>7. Cardinality(Visited' \ Within[d]) = awake_count + 1
    BY <2>4, <2>5, <1>17
  <2>8. awake_count' = awake_count + 1 /\ awake_count \in Nat /\ input.n \in Nat
    BY <2>5, <1>1, <1>3
  <2> QED
    BY <2>6, <2>7, <2>8
<1>19. BUInv(d)'
  <2>1. ASSUME NEW w \in Threads, Scanning(w)' PROVE \E e \in Chunks \ work' : at'[w] \subseteq e
    <3>1. \E e \in Chunks \ work : at[w] \subseteq e
      BY <2>1, <1>1, <1>4, <1>16 DEF BUInv
    <3> QED
      BY <3>1, <1>1, <1>16
  <2>2. ASSUME NEW w \in Threads, pc'[w] = "set_bit"
        PROVE  /\ at'[w] # {} /\ Min(at'[w]) \in Visited' \ (Within[d] \cup curr')
               /\ (seen[w] = curr \cap Word(Min(at[w])))'
    <3>1. CASE w = t
      <4>1. u \notin curr
        BY <1>1, <1>4, <1>5 DEF BUInv
      <4> QED
        BY <3>1, <4>1, <1>1, <1>10, <1>12, <1>14, <1>15, <1>17
    <3>2. CASE w # t
      BY <3>2, <2>2, <1>1, <1>4, <1>10, <1>12, <1>14 DEF BUInv
    <3> QED
      BY <3>1, <3>2
  <2>3. ASSUME NEW x \in Threads, NEW w \in Threads, NEW e \in Chunks,
               x # w, Scanning(x)', Scanning(w)'
        PROVE  at'[x] \cap e = {} \/ at'[w] \cap e = {}
    <3>1. at[x] \cap e = {} \/ at[w] \cap e = {}
      BY <2>3, <1>1, <1>4, <1>16 DEF BUInv
    <3> QED
      BY <3>1, <1>16
  <2>4. curr' \subseteq Visited' \ Within[d]
    BY <1>1, <1>4, <1>10 DEF BUInv
  <2>5. ASSUME NEW v \in Visited' \ Within[d]
        PROVE  v \in curr' \/ \E w \in Threads : pc'[w] = "set_bit" /\ v = Min(at'[w])
    <3>1. CASE v = u
      BY <3>1, <1>14, <1>15
    <3>2. CASE v # u
      <4>1. v \in curr \/ \E w \in Threads : pc[w] = "set_bit" /\ v = Min(at[w])
        BY <3>2, <1>1, <1>4, <1>10 DEF BUInv
      <4>2. \A w \in Threads : pc[w] = "set_bit" => w # t
        BY <1>1
      <4> QED
        BY <4>1, <4>2, <1>1, <1>14
    <3> QED
      BY <3>1, <3>2
  <2>6. ASSUME NEW v \in V, Found(v)'
        PROVE  (\E e \in work' : v \in e) \/ \E w \in Threads : Scanning(w)' /\ v \in at'[w]
    <3>1. Found(v) /\ v # u
      BY <2>6, <1>13
    <3>2. (\E e \in work : v \in e) \/ \E w \in Threads : Scanning(w) /\ v \in at[w]
      BY <3>1, <1>1, <1>4 DEF BUInv
    <3>3. v \in at[t] => v \in at'[t]
      <4>1. v \in at[t] => ~ (v < u)
        BY <3>1, <1>2
      <4>2. v \in Nat
        BY <1>3
      <4> QED
        BY <4>1, <4>2, <1>5, <1>14
    <3> QED
      BY <3>2, <3>3, <1>1, <1>14
  <2> QED
    BY <2>1, <2>2, <2>3, <2>4, <2>5, <2>6, <1>1, <1>12, <1>18 DEF BUInv
<1>20. /\ at' \in [Threads -> SUBSET V]
       /\ seen' \in [Threads -> SUBSET (-input.n .. input.n - 1)]
  <2>1. {x \in at[t] : x >= u} \subseteq V /\ curr \cap Word(u) \subseteq -input.n .. input.n - 1
    BY <1>3
  <2> QED
    BY <2>1, <1>2, <1>3
<1>21. Visited \subseteq Visited' /\ Visited' \subseteq Within[d + 1]
  BY <1>3, <1>10
<1> QED
  BY <1>1, <1>3, <1>10, <1>11, <1>18, <1>19, <1>20, <1>21, BUFrame

LEMMA SetBitStep ==
    ASSUME NEW d, Inv(d), NEW t \in Threads, phase = "bu", SetBit(t),
           UNCHANGED <<master, shared, shared_in, front, scout_count, nth, buffer>>
    PROVE  Inv(d)'
<1> DEFINE u == Min(at[t])
<1>1. /\ pc[t] = "set_bit" /\ pc' = [pc EXCEPT ![t] = "scan"]
      /\ curr' = (curr \ Word(u)) \cup seen[t] \cup {u}
      /\ at' = [at EXCEPT ![t] = @ \ {u}]
      /\ UNCHANGED <<input, phase, front, parent, awake_count, work, seen, scout_count>>
  BY DEF SetBit, master
<1>2. /\ pc \in [Threads -> {"take", "end", "scan", "set_bit"}]
      /\ at \in [Threads -> SUBSET V]
      /\ seen \in [Threads -> SUBSET (-input.n .. input.n - 1)]
      /\ parent \in [V -> -input.n .. input.n - 1] /\ curr \subseteq V
      /\ Visited \subseteq Within[d + 1] /\ input \in Inputs
      /\ \A w \in Threads : at[w] # {} => Min(at[w]) \in at[w]
  BY BUFacts
<1>3. TypeOK /\ ParentInv /\ ScoutInv /\ BUInv(d)
  BY DEF Inv, QInv, AtLevel
<1>4. /\ V' = V /\ Within' = Within /\ Chunks' = Chunks
      /\ \A x : Word(x)' = Word(x) /\ Pred(x)' = Pred(x)
  BY <1>1, SameGraph
<1>5. Visited' = Visited /\ ParentInv' /\ ScoutInv' /\ \A x : Found(x)' = Found(x)
  BY <1>1, <1>3, <1>4, SameTree DEF Found
<1>6. /\ at[t] # {} /\ u \in Visited \ (Within[d] \cup curr) /\ seen[t] = curr \cap Word(u)
      /\ u \in at[t] /\ u \in V
  BY <1>1, <1>2, <1>3 DEF BUInv, Visited
<1> HIDE DEF u
<1>7. curr' = curr \cup {u}
  BY <1>1, <1>6
<1>8. /\ pc'[t] = "scan" /\ at'[t] = at[t] \ {u} /\ Scanning(t) /\ Scanning(t)'
      /\ \A w \in Threads \ {t} : /\ pc'[w] = pc[w] /\ at'[w] = at[w]
                                  /\ (Scanning(w)' <=> Scanning(w))
  BY <1>1, <1>2 DEF Scanning
<1>9. \A w \in Threads : at'[w] \subseteq at[w] /\ (Scanning(w)' <=> Scanning(w))
  BY <1>8
<1>10. ASSUME NEW w \in Threads \ {t}, pc[w] = "set_bit"
       PROVE  u # Min(at[w]) /\ u \notin Word(Min(at[w]))
  <2>1. Scanning(w) /\ at[w] # {} /\ Min(at[w]) \in at[w]
    BY <1>1, <1>2, <1>3, <1>10 DEF BUInv, Scanning
  <2>2. PICK c \in Chunks : at[w] \subseteq c
    BY <2>1, <1>1, <1>3 DEF BUInv
  <2>3. at[t] \cap c = {} \/ at[w] \cap c = {}
    BY <2>1, <1>1, <1>3, <1>8 DEF BUInv
  <2>4. u \notin c
    BY <2>1, <2>2, <2>3, <1>6
  <2>5. \A x \in Word(Min(at[w])) : x \in c
    BY <2>1, <2>2, <1>2, WordInChunk
  <2> QED
    BY <2>1, <2>2, <2>4, <2>5
<1>11. BUInv(d)'
  <2>1. ASSUME NEW w \in Threads, Scanning(w)' PROVE \E e \in Chunks \ work' : at'[w] \subseteq e
    <3>1. \E e \in Chunks \ work : at[w] \subseteq e
      BY <2>1, <1>1, <1>3, <1>9 DEF BUInv
    <3> QED
      BY <3>1, <1>1, <1>9
  <2>2. ASSUME NEW w \in Threads, pc'[w] = "set_bit"
        PROVE  /\ at'[w] # {} /\ Min(at'[w]) \in Visited' \ (Within[d] \cup curr')
               /\ (seen[w] = curr \cap Word(Min(at[w])))'
    <3>1. w # t /\ pc[w] = "set_bit" /\ at'[w] = at[w]
      BY <2>2, <1>8
    <3>2. /\ at[w] # {} /\ Min(at[w]) \in Visited \ (Within[d] \cup curr)
          /\ seen[w] = curr \cap Word(Min(at[w]))
      BY <3>1, <1>1, <1>3 DEF BUInv
    <3>3. u # Min(at[w]) /\ u \notin Word(Min(at[w]))
      BY <3>1, <1>10
    <3>4. Word(Min(at[w]))' = Word(Min(at[w]))
      BY <3>1, <1>4
    <3> QED
      BY <3>1, <3>2, <3>3, <3>4, <1>1, <1>5, <1>7
  <2>3. ASSUME NEW x \in Threads, NEW w \in Threads, NEW e \in Chunks,
               x # w, Scanning(x)', Scanning(w)'
        PROVE  at'[x] \cap e = {} \/ at'[w] \cap e = {}
    <3>1. at[x] \cap e = {} \/ at[w] \cap e = {}
      BY <2>3, <1>1, <1>3, <1>9 DEF BUInv
    <3> QED
      BY <3>1, <1>9
  <2>4. curr' \subseteq Visited' \ Within[d] /\ awake_count' = Cardinality(Visited' \ Within[d])
    BY <1>1, <1>3, <1>5, <1>6, <1>7 DEF BUInv
  <2>5. ASSUME NEW v \in Visited' \ Within[d]
        PROVE  v \in curr' \/ \E w \in Threads : pc'[w] = "set_bit" /\ v = Min(at'[w])
    <3>1. v \in curr \/ \E w \in Threads : pc[w] = "set_bit" /\ v = Min(at[w])
      BY <1>1, <1>3, <1>5 DEF BUInv
    <3>2. v = Min(at[t]) => v \in curr'
      BY <1>7 DEF u
    <3> QED
      BY <3>1, <3>2, <1>7, <1>8
  <2>6. ASSUME NEW v \in V, Found(v)
        PROVE  (\E e \in work' : v \in e) \/ \E w \in Threads : Scanning(w)' /\ v \in at'[w]
    <3>1. (\E e \in work : v \in e) \/ \E w \in Threads : Scanning(w) /\ v \in at[w]
      BY <2>6, <1>1, <1>3 DEF BUInv
    <3>2. v # u
      <4>1. parent[u] \in Int /\ parent[u] >= 0
        BY <1>2, <1>6 DEF Visited
      <4> QED
        BY <4>1, <2>6 DEF Found
    <3> QED
      BY <3>1, <3>2, <1>1, <1>8
  <2>7. UNCHANGED <<phase, work>>
    BY <1>1
  <2> QED
    BY <2>1, <2>2, <2>3, <2>4, <2>5, <2>6, <2>7, <1>4, <1>5 DEF BUInv
<1>12. at' \in [Threads -> SUBSET V] /\ awake_count \in 0 .. input.n /\ curr' \subseteq V
  BY <1>1, <1>2, <1>3, <1>6, <1>7 DEF TypeOK
<1> QED
  BY <1>1, <1>2, <1>5, <1>11, <1>12, BUFrame

-----------------------------------------------------------------------------
(* The master's steps: no thread is in a region.                           *)

AllEnded == \A t \in Threads : pc[t] = "end"

NewSlots == shared_out_end .. shared_in - 1

LEMMA EndedFacts ==
    ASSUME QInv, AllEnded
    PROVE  /\ work = {}
           /\ \A t \in Threads : local_queue[t] = <<>> /\ hold[t] = <<>> /\ Held(t) = {}
           /\ \A s \in V : s \in Filled <=> s < shared_in
           /\ NewSlots \subseteq Filled /\ \A s \in NewSlots : shared[s] \in V
           /\ \A s \in Filled : s \in NewSlots \/ s < shared_out_end
           /\ Enqueued = {shared[s] : s \in NewSlots}
<1>1. work = {}
  <2>1. \E t \in Threads : TRUE
    BY ThreadsAssumption
  <2> QED
    BY <2>1 DEF QInv, RegionInv, AllEnded
<1>2. ASSUME NEW t \in Threads PROVE local_queue[t] = <<>> /\ hold[t] = <<>> /\ Held(t) = {}
  <2>1. local_queue[t] = <<>>
    BY DEF QInv, RegionInv, AllEnded
  <2>2. hold[t] = <<>>
    BY DEF QInv, RegionInv, AllEnded
  <2>3. ToSet(<<>>) = {}
    BY DEF ToSet
  <2> QED
    BY <2>1, <2>2, <2>3 DEF Held
<1>3. \A s \in V : s \in Filled <=> s < shared_in
  BY DEF QInv, SlotsInv, AllEnded
<1>4. /\ shared_in \in 0 .. input.n /\ shared_out_end \in 0 .. input.n /\ input.n \in Nat
      /\ shared_out_end <= shared_in /\ shared \in [V -> V \cup {NoSlot}]
  BY Types DEF QInv
<1>5. \A s \in NewSlots : s \in V /\ s < shared_in /\ s >= shared_out_end
  BY <1>4 DEF NewSlots, V
<1>6. NewSlots \subseteq Filled
  BY <1>3, <1>5
<1>7. \A s \in NewSlots : shared[s] \in V
  BY <1>4, <1>6 DEF Filled
<1>8. ASSUME NEW s \in Filled PROVE s \in NewSlots \/ s < shared_out_end
  <2>1. s \in V /\ s \in Int /\ s < shared_in
    BY <1>3 DEF Filled, V
  <2> QED
    BY <2>1, <1>4 DEF NewSlots
<1>9. \A s \in Filled : s >= shared_out_end <=> s \in NewSlots
  <2> SUFFICES ASSUME NEW s \in Filled PROVE s >= shared_out_end <=> s \in NewSlots
    OBVIOUS
  <2>1. s \in Int /\ shared_out_end \in Int
    BY <1>4 DEF Filled, V
  <2> QED
    BY <2>1, <1>5, <1>8
<1>10. Enqueued = {shared[s] : s \in NewSlots}
  BY <1>2, <1>6, <1>7, <1>9 DEF Enqueued
<1> QED
  BY <1>1, <1>2, <1>3, <1>6, <1>7, <1>8, <1>10

LEMMA ForkQueue ==
    ASSUME QInv, AllEnded, NEW p, NEW W, Fork(p, W)
    PROVE  /\ SlotsInv' /\ DistinctInv' /\ Filled' = Filled /\ Visited' = Visited
           /\ \A t \in Threads : /\ pc'[t] = "take" /\ local_queue'[t] = <<>> /\ hold'[t] = <<>>
                                 /\ ~ InHand(t)' /\ ~ Scanning(t)' /\ Held(t)' = {}
           /\ shared_out_end' = shared_in => Enqueued' = {}
<1>1. /\ pc' = Each("take") /\ local_queue' = Each(<<>>) /\ hold' = Each(<<>>)
      /\ copy_start' = Each(0) /\ UNCHANGED <<input, parent, shared, shared_in>>
  BY DEF Fork
<1>2. \A t \in Threads : pc'[t] = "take" /\ local_queue'[t] = <<>> /\ hold'[t] = <<>>
  BY <1>1 DEF Each
<1>3. \A t \in Threads : Held(t)' = {} /\ ~ InHand(t)' /\ ~ Scanning(t)'
  <2>1. ToSet(<<>>) = {}
    BY DEF ToSet
  <2> QED
    BY <1>2, <2>1 DEF Held, InHand, Scanning
<1>4. V' = V /\ Filled' = Filled /\ Visited' = Visited
  BY <1>1, SameGraph DEF Filled, Visited
<1>5. \A s \in V : s \in Filled <=> s < shared_in
  BY EndedFacts
<1>6. SlotsInv'
  BY <1>1, <1>2, <1>4, <1>5 DEF SlotsInv
<1>7. DistinctInv'
  <2>1. Distinct(<<>>) /\ ToSet(<<>>) = {}
    BY DEF Distinct, ToSet
  <2>2. \A s, r \in Filled' : shared'[s] = shared'[r] => s = r
    BY <1>1, <1>4 DEF QInv, DistinctInv
  <2> QED
    BY <2>1, <2>2, <1>2, <1>3 DEF DistinctInv
<1>8. shared_out_end' = shared_in => Enqueued' = {}
  <2> SUFFICES ASSUME shared_out_end' = shared_in, NEW s \in Filled, s >= shared_in PROVE FALSE
    BY <1>3, <1>4 DEF Enqueued
  <2>1. s \in Int /\ s < shared_in
    BY <1>5 DEF Filled, V
  <2>2. shared_in \in Int
    BY Types DEF QInv
  <2> QED
    BY <2>1, <2>2
<1> QED
  BY <1>2, <1>3, <1>4, <1>6, <1>7, <1>8

LEMMA ForkTypes ==
    ASSUME TypeOK, NEW p \in {"e", "td", "bu", "c"}, NEW W, Fork(p, W),
           W \subseteq IF p = "bu" THEN Chunks ELSE IF p = "c" THEN V ELSE Window',
           {shared_out_start', shared_out_end'} \subseteq 0 .. input.n,
           shared_out_start' <= shared_out_end', shared_out_end' <= shared_in,
           front' \subseteq V, curr' \subseteq V,
           {awake_count', old_awake_count'} \subseteq 0 .. input.n,
           scout_count' \in 0 .. Cardinality(input.edges) + input.n, edges_to_check' \in Int
    PROVE  TypeOK'
<1>1. /\ phase' = p /\ work' = W /\ pc' = Each("take") /\ at' = Each({}) /\ nth' = Each(0)
      /\ seen' = Each({}) /\ local_queue' = Each(<<>>) /\ hold' = Each(<<>>)
      /\ copy_start' = Each(0) /\ UNCHANGED <<input, parent, shared, shared_in>>
  BY DEF Fork
<1>2. V' = V /\ Chunks' = Chunks
  BY <1>1, SameGraph
<1>3. input.n \in Nat \ {0} /\ <<>> \in Seq(V) /\ Len(<<>>) <= local_size
  BY Types, SizesAssumption
<1>4. /\ at' \in [Threads -> SUBSET V] /\ nth' \in [Threads -> 0 .. input.n]
      /\ seen' \in [Threads -> SUBSET (-input.n .. input.n - 1)]
      /\ local_queue' \in [Threads -> Seq(V)]
      /\ hold' \in [Threads -> {<<>>} \cup {<<v>> : v \in V}]
      /\ copy_start' \in [Threads -> 0 .. input.n]
      /\ \A t \in Threads : Len(local_queue'[t]) <= local_size
  BY <1>1, <1>3 DEF Each
<1>5. pc' \in [Threads -> {"take"}]
  BY <1>1 DEF Each
<1> QED
  BY <1>1, <1>2, <1>4, <1>5 DEF TypeOK

LEMMA LoopFacts ==
    ASSUME NEW d, Inv(d), phase = "loop"
    PROVE  /\ AllEnded /\ shared_in = shared_out_end
           /\ Visited = Within[d] /\ {shared[s] : s \in Window} = Ring(d)
           /\ ~ QueueEmpty => shared_out_start < shared_out_end /\ Ring(d) # {} /\ d < input.n
           /\ QueueEmpty => Ring(d) = {}
<1>1. QInv /\ TypeOK /\ RegionInv /\ LevelInv(d) /\ d \in 0 .. input.n
  BY DEF Inv, AtLevel, QInv
<1>2. AllEnded /\ shared_in = shared_out_end
  BY <1>1 DEF RegionInv, AllEnded
<1>3. Visited = Within[d] /\ {shared[s] : s \in Window} = Ring(d)
  BY <1>1 DEF LevelInv
<1>4. /\ shared_out_start \in Int /\ shared_out_end \in Int /\ shared_out_start <= shared_out_end
      /\ input \in Inputs
  BY <1>1, Types
<1>5. ASSUME ~ QueueEmpty PROVE shared_out_start < shared_out_end /\ Ring(d) # {} /\ d < input.n
  <2>1. shared_out_start < shared_out_end
    BY <1>4, <1>5 DEF QueueEmpty
  <2>2. shared_out_start \in Window
    BY <1>4, <2>1 DEF Window
  <2>3. Ring(d) # {}
    BY <1>3, <2>2
  <2> QED
    BY <1>1, <1>4, <2>1, <2>3, RingNotLast
<1>6. ASSUME QueueEmpty PROVE Ring(d) = {}
  <2>1. Window = {}
    BY <1>4, <1>6 DEF QueueEmpty, Window
  <2> QED
    BY <1>3, <2>1
<1> QED
  BY <1>2, <1>3, <1>5, <1>6

LEMMA BottomUpStep == ASSUME NEW d, Inv(d), BottomUp PROVE Inv(d)'
<1>1. /\ phase = "loop" /\ ~ QueueEmpty /\ Fork("e", Window) /\ phase' = "e" /\ work' = Window
      /\ UNCHANGED <<input, parent, shared, shared_in, front, curr, shared_out_start, shared_out_end>>
      /\ UNCHANGED <<scout_count, edges_to_check, awake_count, old_awake_count>>
  BY DEF BottomUp, Fork, counts
<1>2. /\ QInv /\ TypeOK /\ RegionInv /\ LevelInv(d) /\ FrontInv(d) /\ d \in 0 .. input.n
      /\ ParentInv /\ ScoutInv
  BY DEF Inv, AtLevel, QInv
<1>3. /\ AllEnded /\ shared_in = shared_out_end
      /\ Visited = Within[d] /\ {shared[s] : s \in Window} = Ring(d)
      /\ shared_out_start < shared_out_end /\ Ring(d) # {} /\ d < input.n
  BY <1>1, LoopFacts
<1>4. /\ SlotsInv' /\ DistinctInv' /\ Filled' = Filled
      /\ \A t \in Threads : pc'[t] = "take" /\ local_queue'[t] = <<>> /\ hold'[t] = <<>>
  BY <1>1, <1>2, <1>3, ForkQueue
<1>5. /\ V' = V /\ Window' = Window /\ Within' = Within /\ Ring(d)' = Ring(d)
      /\ \A u : Row(u)' = Row(u)
  BY <1>1, SameGraph DEF Window
<1>6. TypeOK'
  <2>1. /\ {shared_out_start, shared_out_end} \subseteq 0 .. input.n
        /\ shared_out_start <= shared_out_end /\ shared_out_end <= shared_in
        /\ front \subseteq V /\ curr \subseteq V
        /\ {awake_count, old_awake_count} \subseteq 0 .. input.n
        /\ scout_count \in 0 .. Cardinality(input.edges) + input.n /\ edges_to_check \in Int
    BY <1>2 DEF TypeOK
  <2> QED
    BY <2>1, <1>1, <1>2, <1>5, ForkTypes
<1>7. RegionInv'
  BY <1>1, <1>3, <1>4 DEF RegionInv
<1>8. Visited' = Visited /\ ParentInv' /\ ScoutInv'
  BY <1>1, <1>2, SameTree
<1>9. LevelInv(d)'
  BY <1>1, <1>2, <1>3, <1>4, <1>5, <1>8 DEF LevelInv
<1>10. FrontInv(d)'
  BY <1>1, <1>2, <1>5 DEF FrontInv
<1>11. QueueToBitmapInv(d)' /\ BitmapToQueueInv(d)' /\ TDInv(d)' /\ BUInv(d)'
  BY <1>1, <1>4, <1>5 DEF QueueToBitmapInv, BitmapToQueueInv, TDInv, BUInv
<1> QED
  BY <1>1, <1>2, <1>4, <1>6, <1>7, <1>8, <1>9, <1>10, <1>11 DEF Inv, QInv, AtLevel

LEMMA TopDownStep == ASSUME NEW d, Inv(d), TopDown PROVE Inv(d)'
<1>1. /\ phase = "loop" /\ ~ QueueEmpty /\ Fork("td", Window) /\ phase' = "td" /\ work' = Window
      /\ edges_to_check' = edges_to_check - scout_count /\ scout_count' = 0
      /\ UNCHANGED <<input, parent, shared, shared_in, front, curr, shared_out_start, shared_out_end>>
      /\ UNCHANGED <<awake_count, old_awake_count>>
  BY DEF TopDown, BeginTD, Fork
<1>2. /\ QInv /\ TypeOK /\ RegionInv /\ LevelInv(d) /\ FrontInv(d) /\ d \in 0 .. input.n
      /\ ParentInv /\ ScoutInv
  BY DEF Inv, AtLevel, QInv
<1>3. /\ AllEnded /\ shared_in = shared_out_end
      /\ Visited = Within[d] /\ {shared[s] : s \in Window} = Ring(d)
      /\ shared_out_start < shared_out_end /\ Ring(d) # {} /\ d < input.n
  BY <1>1, LoopFacts
<1>4. /\ SlotsInv' /\ DistinctInv' /\ Filled' = Filled
      /\ \A t \in Threads : /\ pc'[t] = "take" /\ local_queue'[t] = <<>> /\ hold'[t] = <<>>
                            /\ ~ InHand(t)'
      /\ Enqueued' = {}
  BY <1>1, <1>2, <1>3, ForkQueue
<1>5. /\ V' = V /\ Window' = Window /\ Within' = Within /\ Ring(d)' = Ring(d)
      /\ \A u : Row(u)' = Row(u)
  BY <1>1, SameGraph DEF Window
<1>6. input \in Inputs /\ input.n \in Nat \ {0} /\ Cardinality(input.edges) \in Nat
  <2>1. input \in Inputs /\ input.n \in Nat \ {0}
    BY <1>2, Types
  <2> QED
    BY <2>1, InputFacts, FS_CardinalityType
<1>7. TypeOK'
  <2>1. /\ {shared_out_start, shared_out_end} \subseteq 0 .. input.n
        /\ shared_out_start <= shared_out_end /\ shared_out_end <= shared_in
        /\ front \subseteq V /\ curr \subseteq V
        /\ {awake_count, old_awake_count} \subseteq 0 .. input.n
        /\ scout_count \in Int /\ edges_to_check \in Int
    BY <1>2, <1>6 DEF TypeOK
  <2>2. 0 \in 0 .. Cardinality(input.edges) + input.n /\ edges_to_check - scout_count \in Int
    BY <2>1, <1>6
  <2> QED
    BY <2>1, <2>2, <1>1, <1>2, <1>5, ForkTypes
<1>8. RegionInv'
  BY <1>1, <1>3, <1>4 DEF RegionInv
<1>9. Visited' = Visited /\ ParentInv'
  BY <1>1, <1>2, SameTree
<1>10. ScoutInv'
  <2>1. Visited \in SUBSET V
    BY DEF Visited
  <2>2. Degrees(Visited) \in 0 .. Cardinality(input.edges) + input.n
    BY <2>1, <1>6, DegreesBound
  <2>3. Degrees(Visited) >= 0
    BY <2>2
  <2> QED
    BY <2>3, <1>1, <1>9 DEF ScoutInv, Degrees
<1>11. LevelInv(d)'
  <2>1. d + 1 \in 0 .. input.n /\ Within[d] \subseteq Within[d + 1]
    <3>1. d + 1 \in 0 .. input.n /\ d <= d + 1
      BY <1>2, <1>3, <1>6
    <3> QED
      BY <3>1, <1>2, <1>6, WithinGrows
  <2> QED
    BY <2>1, <1>1, <1>2, <1>3, <1>4, <1>5, <1>9 DEF LevelInv
<1>12. FrontInv(d)'
  BY <1>1, <1>2, <1>5 DEF FrontInv
<1>13. TDInv(d)'
  BY <1>1, <1>3, <1>4, <1>5, <1>9 DEF TDInv
<1>14. QueueToBitmapInv(d)' /\ BitmapToQueueInv(d)' /\ BUInv(d)'
  BY <1>1 DEF QueueToBitmapInv, BitmapToQueueInv, BUInv
<1> QED
  BY <1>1, <1>2, <1>4, <1>7, <1>8, <1>9, <1>10, <1>11, <1>12, <1>13, <1>14 DEF Inv, QInv, AtLevel

LEMMA FinishStep == ASSUME NEW d, Inv(d), Finish PROVE Inv(d)'
<1>1. /\ phase = "loop" /\ QueueEmpty /\ phase' = "done"
      /\ parent' = [v \in V |-> IF parent[v] < -1 THEN -1 ELSE parent[v]]
      /\ UNCHANGED <<input, shared, shared_in, shared_out_start, shared_out_end, front, curr, work, pc, at>>
      /\ UNCHANGED <<nth, seen, local_queue, hold, copy_start>>
      /\ UNCHANGED <<scout_count, edges_to_check, awake_count, old_awake_count>>
  BY DEF Finish, queue, counts, buffer
<1>2. /\ QInv /\ TypeOK /\ RegionInv /\ SlotsInv /\ DistinctInv /\ LevelInv(d) /\ FrontInv(d)
      /\ d \in 0 .. input.n /\ ParentInv /\ ScoutInv
  BY DEF Inv, AtLevel, QInv
<1>3. /\ AllEnded /\ shared_in = shared_out_end
      /\ Visited = Within[d] /\ {shared[s] : s \in Window} = Ring(d) /\ Ring(d) = {}
  BY <1>1, LoopFacts
<1>4. /\ V' = V /\ Window' = Window /\ Within' = Within /\ Ring(d)' = Ring(d)
      /\ Reachable' = Reachable /\ Chunks' = Chunks
      /\ \A u : Row(u)' = Row(u) /\ Dist(u)' = Dist(u)
  BY <1>1, SameGraph DEF Window
<1>5. parent \in [V -> -input.n .. input.n - 1] /\ input.n \in Nat \ {0} /\ input.source \in V
  BY <1>2, Types, WithinDef DEF TypeOK
<1>6. /\ parent' \in [V -> -input.n .. input.n - 1]
      /\ \A v \in V : (parent[v] >= 0 => parent'[v] = parent[v]) /\ (parent[v] < 0 => parent'[v] = -1)
  <2>1. ASSUME NEW v \in V
        PROVE  /\ parent'[v] \in -input.n .. input.n - 1
               /\ parent[v] >= 0 => parent'[v] = parent[v]
               /\ parent[v] < 0 => parent'[v] = -1
    <3>1. parent'[v] = IF parent[v] < -1 THEN -1 ELSE parent[v]
      BY <1>1
    <3>2. parent[v] \in -input.n .. input.n - 1
      BY <1>5
    <3> QED
      BY <3>1, <3>2, <1>5
  <2>2. parent' = [v \in V |-> parent'[v]]
    BY <1>1
  <2> QED
    BY <2>1, <2>2
<1>7. \A v \in V : parent[v] \in Int
  BY <1>5
<1>8. Visited' = Visited
  <2>1. \A v \in V : parent'[v] >= 0 <=> parent[v] >= 0
    BY <1>6, <1>7
  <2> QED
    BY <2>1, <1>4 DEF Visited
<1>9. Filled' = Filled /\ \A t \in Threads : Held(t)' = Held(t) /\ Mine(t)' = Mine(t)
  BY <1>1, <1>4 DEF Filled, Held, Mine
<1>10. TypeOK'
  BY <1>1, <1>2, <1>4, <1>6 DEF TypeOK
<1>11. RegionInv'
  BY <1>1, <1>2, <1>3 DEF RegionInv, QueueEmpty
<1>12. SlotsInv' /\ DistinctInv'
  <2>1. UNCHANGED <<shared, shared_in, shared_out_end, pc, copy_start, local_queue, hold>>
    BY <1>1
  <2>2. SlotsInv'
    BY <2>1, <1>2, <1>4, <1>9 DEF SlotsInv
  <2>3. DistinctInv'
    BY <2>1, <1>2, <1>9 DEF DistinctInv
  <2> QED
    BY <2>2, <2>3
<1>13. ParentInv'
  <2>1. parent'[input.source] = input.source
    <3>1. parent[input.source] = input.source /\ input.source >= 0
      BY <1>2, <1>5 DEF ParentInv, V
    <3> QED
      BY <3>1, <1>5, <1>6
  <2>2. \A v \in V : parent'[v] < 0 => parent'[v] = -1
    BY <1>6, <1>7
  <2>3. \A v \in Visited : parent'[v] = parent[v]
    BY <1>6 DEF Visited
  <2> QED
    BY <2>1, <2>2, <2>3, <1>1, <1>2, <1>4, <1>8 DEF ParentInv
<1>14. ScoutInv'
  BY <1>1, <1>2, <1>8 DEF ScoutInv
<1>15. LevelInv(d)'
  BY <1>1, <1>2, <1>3, <1>4, <1>8, <1>9 DEF LevelInv
<1>16. FrontInv(d)'
  BY <1>1, <1>2, <1>4 DEF FrontInv
<1>17. QueueToBitmapInv(d)' /\ BitmapToQueueInv(d)' /\ TDInv(d)' /\ BUInv(d)'
  BY <1>1 DEF QueueToBitmapInv, BitmapToQueueInv, TDInv, BUInv
<1> QED
  BY <1>1, <1>2, <1>10, <1>11, <1>12, <1>13, <1>14, <1>15, <1>16, <1>17 DEF Inv, QInv, AtLevel

(* The vertices with a slot in the next window are the next ring: the end  *)
(* of TDStep, and the end of BitmapToQueue.                                *)
LEMMA TDEndsStep == ASSUME NEW d, Inv(d), TDEnds PROVE d + 1 \in 0 .. input.n /\ Inv(d + 1)'
<1>1. /\ phase = "td" /\ AllEnded /\ phase' = "loop"
      /\ shared_out_start' = shared_out_end /\ shared_out_end' = shared_in
      /\ UNCHANGED <<input, parent, shared, shared_in, front, curr, work, pc, at>>
      /\ UNCHANGED <<nth, seen, local_queue, hold, copy_start>>
      /\ UNCHANGED <<scout_count, edges_to_check, awake_count, old_awake_count>>
  BY DEF TDEnds, Joined, AllEnded, SlideWindow, counts, buffer
<1>2. /\ QInv /\ TypeOK /\ RegionInv /\ SlotsInv /\ DistinctInv /\ LevelInv(d) /\ FrontInv(d)
      /\ d \in 0 .. input.n /\ ParentInv /\ ScoutInv /\ TDInv(d)
  BY DEF Inv, AtLevel, QInv
<1>3. /\ work = {} /\ \A t \in Threads : local_queue[t] = <<>> /\ hold[t] = <<>> /\ Held(t) = {}
      /\ \A s \in V : s \in Filled <=> s < shared_in
      /\ NewSlots \subseteq Filled /\ \A s \in NewSlots : shared[s] \in V
      /\ \A s \in Filled : s \in NewSlots \/ s < shared_out_end
      /\ Enqueued = {shared[s] : s \in NewSlots}
  BY <1>1, <1>2, EndedFacts
<1>4. /\ input \in Inputs /\ input.n \in Nat \ {0} /\ d < input.n /\ d + 1 \in 0 .. input.n
      /\ Within[d] \subseteq Visited /\ Visited \subseteq Within[d + 1]
      /\ Enqueued = Visited \ Within[d] /\ {shared[s] : s \in Window} = Ring(d)
  BY <1>1, TDFacts
<1>5. /\ V' = V /\ Window' = NewSlots /\ Within' = Within /\ Ring(d + 1)' = Ring(d + 1)
      /\ \A u : Row(u)' = Row(u)
  BY <1>1, SameGraph DEF Window, NewSlots
<1>6. \A u \in Ring(d) : Row(u) \subseteq Visited
  <2> SUFFICES ASSUME NEW s \in Window PROVE Row(shared[s]) \subseteq Visited
    BY <1>4
  <2>1. \A t \in Threads : ~ InHand(t)
    BY <1>1, <1>3 DEF AllEnded, InHand
  <2> QED
    BY <2>1, <1>1, <1>2, <1>3 DEF TDInv
<1>7. Visited = Within[d + 1]
  BY <1>2, <1>4, <1>6, WithinNext
<1>8. Ring(d + 1) = Enqueued /\ Within[d] \subseteq Within[d + 1]
  BY <1>2, <1>4, <1>7, RingFacts
<1>9. Filled' = Filled /\ \A t \in Threads : Held(t)' = Held(t)
  BY <1>1, <1>5 DEF Filled, Held
<1>10. shared_out_end <= shared_in /\ shared_in \in 0 .. input.n /\ shared_out_end \in 0 .. input.n
  BY <1>2, Types
<1>11. TypeOK'
  <2>1. pc \in [Threads -> {"take", "end"}]
    <3>1. DOMAIN pc = Threads /\ pc = [t \in Threads |-> pc[t]]
      BY <1>2 DEF TypeOK
    <3> QED
      BY <3>1, <1>1 DEF AllEnded
  <2> QED
    BY <2>1, <1>1, <1>2, <1>3, <1>5, <1>10 DEF TypeOK
<1>12. RegionInv'
  BY <1>1, <1>2, <1>3 DEF RegionInv, AllEnded
<1>13. SlotsInv' /\ DistinctInv'
  <2>1. UNCHANGED <<shared, shared_in, pc, copy_start, local_queue, hold>>
    BY <1>1
  <2>2. SlotsInv'
    BY <2>1, <1>1, <1>3, <1>5, <1>9 DEF SlotsInv, AllEnded
  <2>3. DistinctInv'
    BY <2>1, <1>2, <1>9 DEF DistinctInv
  <2> QED
    BY <2>2, <2>3
<1>14. Visited' = Visited /\ ParentInv' /\ ScoutInv'
  BY <1>1, <1>2, SameTree
<1>15. LevelInv(d + 1)'
  <2>1. {shared'[s] : s \in Window'} = Ring(d + 1)
    BY <1>1, <1>3, <1>5, <1>8
  <2>2. \A s \in Filled : shared[s] \in Within[d + 1]
    BY <1>2, <1>3, <1>8, <1>4, <1>7 DEF LevelInv
  <2> QED
    BY <2>1, <2>2, <1>1, <1>5, <1>7, <1>9, <1>14 DEF LevelInv
<1>16. FrontInv(d + 1)'
  <2>1. front \subseteq Within[d]
    BY <1>2 DEF FrontInv
  <2>2. \A v \in Within[d] : Row(v) \subseteq Within[d + 1]
    BY <1>2, <1>4, NextLevel
  <2> QED
    BY <2>1, <2>2, <1>1, <1>5, <1>8 DEF FrontInv
<1>17. QueueToBitmapInv(d + 1)' /\ BitmapToQueueInv(d + 1)' /\ TDInv(d + 1)' /\ BUInv(d + 1)'
  BY <1>1 DEF QueueToBitmapInv, BitmapToQueueInv, TDInv, BUInv
<1> QED
  BY <1>1, <1>2, <1>4, <1>11, <1>12, <1>13, <1>14, <1>15, <1>16, <1>17 DEF Inv, QInv, AtLevel

LEMMA QueueFilledStep == ASSUME NEW d, Inv(d), QueueFilled PROVE Inv(d)'
<1>1. /\ phase = "c" /\ AllEnded /\ phase' = "loop" /\ scout_count' = 1
      /\ shared_out_start' = shared_out_end /\ shared_out_end' = shared_in
      /\ UNCHANGED <<input, parent, shared, shared_in, front, curr, work, pc, at>>
      /\ UNCHANGED <<nth, seen, local_queue, hold, copy_start>>
      /\ UNCHANGED <<edges_to_check, awake_count, old_awake_count>>
  BY DEF QueueFilled, Joined, AllEnded, SlideWindow, buffer
<1>2. /\ QInv /\ TypeOK /\ RegionInv /\ SlotsInv /\ DistinctInv /\ LevelInv(d) /\ FrontInv(d)
      /\ d \in 0 .. input.n /\ ParentInv /\ ScoutInv /\ BitmapToQueueInv(d)
  BY DEF Inv, AtLevel, QInv
<1>3. /\ work = {} /\ \A t \in Threads : local_queue[t] = <<>> /\ hold[t] = <<>> /\ Held(t) = {}
      /\ \A s \in V : s \in Filled <=> s < shared_in
      /\ \A s \in Filled : s \in NewSlots \/ s < shared_out_end
      /\ Enqueued = {shared[s] : s \in NewSlots}
  BY <1>1, <1>2, EndedFacts
<1>4. input \in Inputs /\ input.n \in Nat \ {0} /\ input.source \in V /\ Within[0] = {input.source}
      /\ shared_out_end <= shared_in /\ shared_in \in 0 .. input.n /\ shared_out_end \in 0 .. input.n
  BY <1>2, Types, WithinDef
<1>5. /\ V' = V /\ Window' = NewSlots /\ Within' = Within /\ Ring(d)' = Ring(d)
      /\ \A u : Row(u)' = Row(u)
  BY <1>1, SameGraph DEF Window, NewSlots
<1>6. Enqueued = Ring(d) /\ Visited = Within[d] /\ Ring(d) \subseteq Within[d]
  BY <1>1, <1>2, <1>3, <1>4, RingFacts DEF BitmapToQueueInv, FrontInv, LevelInv
<1>7. Filled' = Filled /\ \A t \in Threads : Held(t)' = Held(t)
  BY <1>1, <1>5 DEF Filled, Held
<1>8. IsFiniteSet(V) /\ Cardinality(V) = input.n /\ IsFiniteSet(input.edges)
      /\ Cardinality(input.edges) \in Nat
  BY <1>4, InputFacts, FS_CardinalityType DEF V
<1>9. TypeOK'
  <2>1. pc \in [Threads -> {"take", "end"}]
    <3>1. DOMAIN pc = Threads /\ pc = [t \in Threads |-> pc[t]]
      BY <1>2 DEF TypeOK
    <3> QED
      BY <3>1, <1>1 DEF AllEnded
  <2>2. 1 \in 0 .. Cardinality(input.edges) + input.n
    BY <1>4, <1>8
  <2> QED
    BY <2>1, <2>2, <1>1, <1>2, <1>3, <1>4, <1>5 DEF TypeOK
<1>10. RegionInv'
  BY <1>1, <1>2, <1>3 DEF RegionInv, AllEnded
<1>11. SlotsInv' /\ DistinctInv'
  <2>1. UNCHANGED <<shared, shared_in, pc, copy_start, local_queue, hold>>
    BY <1>1
  <2>2. SlotsInv'
    BY <2>1, <1>1, <1>3, <1>5, <1>7 DEF SlotsInv, AllEnded
  <2>3. DistinctInv'
    BY <2>1, <1>2, <1>7 DEF DistinctInv
  <2> QED
    BY <2>2, <2>3
<1>12. Visited' = Visited /\ ParentInv'
  BY <1>1, <1>2, SameTree
<1>13. ScoutInv'
  <2>1. input.source \in Visited /\ Visited \in SUBSET V
    BY <1>2, <1>4 DEF ParentInv, Visited, V
  <2>2. IsFiniteSet(Visited) /\ Cardinality(Visited) \in Nat /\ Cardinality(Visited) # 0
    BY <2>1, <1>8, FS_Subset, FS_CardinalityType, FS_EmptySet
  <2>3. Cardinality({e \in input.edges : e[1] \in Visited}) \in Nat
    <3>1. {e \in input.edges : e[1] \in Visited} \in SUBSET input.edges
      OBVIOUS
    <3> QED
      BY <3>1, <1>8, FS_Subset, FS_CardinalityType
  <2>4. 1 <= Cardinality({e \in input.edges : e[1] \in Visited}) + Cardinality(Visited)
    BY <2>2, <2>3
  <2> QED
    BY <2>4, <1>1, <1>12 DEF ScoutInv
<1>14. LevelInv(d)'
  <2>1. {shared'[s] : s \in Window'} = Ring(d)
    BY <1>1, <1>3, <1>5, <1>6
  <2>2. \A s \in Filled : shared[s] \in Within[d]
    BY <1>2, <1>3, <1>6 DEF LevelInv
  <2> QED
    BY <2>1, <2>2, <1>1, <1>5, <1>6, <1>7, <1>12 DEF LevelInv
<1>15. FrontInv(d)'
  BY <1>1, <1>2, <1>5 DEF FrontInv
<1>16. QueueToBitmapInv(d)' /\ BitmapToQueueInv(d)' /\ TDInv(d)' /\ BUInv(d)'
  BY <1>1 DEF QueueToBitmapInv, BitmapToQueueInv, TDInv, BUInv
<1> QED
  BY <1>1, <1>2, <1>9, <1>10, <1>11, <1>12, <1>13, <1>14, <1>15, <1>16 DEF Inv, QInv, AtLevel

LEMMA BUStartsStep == ASSUME NEW d, Inv(d), BUStarts PROVE Inv(d)'
<1>1. /\ phase = "e" /\ AllEnded /\ phase' = "bu" /\ work' = Chunks /\ Fork("bu", Chunks)
      /\ old_awake_count' = QueueSize /\ awake_count' = 0 /\ curr' = {}
      /\ shared_out_start' = shared_out_end /\ shared_out_end' = shared_in
      /\ UNCHANGED <<input, parent, shared, shared_in, front, scout_count, edges_to_check>>
  BY DEF BUStarts, Joined, AllEnded, SlideWindow, BeginBU, Fork
<1>2. /\ QInv /\ TypeOK /\ RegionInv /\ LevelInv(d) /\ FrontInv(d)
      /\ d \in 0 .. input.n /\ ParentInv /\ ScoutInv /\ QueueToBitmapInv(d)
  BY DEF Inv, AtLevel, QInv
<1>3. work = {} /\ shared_in = shared_out_end /\ shared_out_start < shared_out_end
  BY <1>1, <1>2, EndedFacts DEF RegionInv
<1>4. /\ input \in Inputs /\ input.n \in Nat \ {0} /\ shared_in \in 0 .. input.n
      /\ shared_out_end \in 0 .. input.n /\ shared_out_start \in 0 .. input.n
  BY <1>2, Types
<1>5. /\ SlotsInv' /\ DistinctInv' /\ Filled' = Filled
      /\ \A t \in Threads : /\ pc'[t] = "take" /\ local_queue'[t] = <<>> /\ hold'[t] = <<>>
                            /\ ~ Scanning(t)'
  BY <1>1, <1>2, ForkQueue
<1>6. /\ V' = V /\ Within' = Within /\ Ring(d)' = Ring(d) /\ Chunks' = Chunks
      /\ \A u : Row(u)' = Row(u) /\ Word(u)' = Word(u)
  BY <1>1, SameGraph
<1>7. Visited = Within[d] /\ d < input.n /\ Ring(d) # {} /\ {shared[s] : s \in Window} = Ring(d)
  BY <1>1, <1>2 DEF LevelInv
<1>8. Ring(d) \subseteq front
  <2> SUFFICES ASSUME NEW s \in Window PROVE shared[s] \in front
    BY <1>7
  <2> QED
    BY <1>1, <1>2, <1>3 DEF QueueToBitmapInv, AllEnded
<1>9. QueueSize \in 0 .. input.n /\ QueueSize >= 1
  BY <1>3, <1>4 DEF QueueSize
<1>10. TypeOK'
  <2>1. /\ shared_out_end <= shared_in /\ front \subseteq V /\ edges_to_check \in Int
        /\ scout_count \in 0 .. Cardinality(input.edges) + input.n /\ 0 \in 0 .. input.n
    BY <1>2, <1>4 DEF TypeOK
  <2> QED
    BY <2>1, <1>1, <1>2, <1>4, <1>9, ForkTypes
<1>11. RegionInv'
  BY <1>1, <1>3, <1>5, <1>9 DEF RegionInv
<1>12. Visited' = Visited /\ ParentInv' /\ ScoutInv'
  BY <1>1, <1>2, SameTree
<1>13. LevelInv(d)'
  <2>1. Within[d] \subseteq Within[d + 1]
    <3>1. d + 1 \in 0 .. input.n /\ d <= d + 1
      BY <1>2, <1>4, <1>7
    <3> QED
      BY <3>1, <1>2, <1>4, WithinGrows
  <2> QED
    BY <2>1, <1>1, <1>2, <1>3, <1>5, <1>6, <1>7, <1>12 DEF LevelInv
<1>14. FrontInv(d)'
  BY <1>1, <1>2, <1>6, <1>8 DEF FrontInv
<1>15. BUInv(d)'
  <2>1. Visited' \ Within[d] = {} /\ Cardinality({}) = 0
    BY <1>7, <1>12, FS_EmptySet
  <2>2. \A v \in V : \E c \in work' : v \in c
    BY <1>1, <1>4, ChunkFacts
  <2>3. \A t \in Threads : pc'[t] # "set_bit"
    BY <1>5
  <2> QED
    BY <2>1, <2>2, <2>3, <1>1, <1>5, <1>6 DEF BUInv
<1>16. QueueToBitmapInv(d)' /\ BitmapToQueueInv(d)' /\ TDInv(d)'
  BY <1>1 DEF QueueToBitmapInv, BitmapToQueueInv, TDInv
<1> QED
  BY <1>1, <1>2, <1>5, <1>10, <1>11, <1>12, <1>13, <1>14, <1>15, <1>16 DEF Inv, QInv, AtLevel

(* What a pass of BUStep has found when its threads have ended.            *)
LEMMA PassEnded ==
    ASSUME NEW d, Inv(d), phase = "bu", AllEnded
    PROVE  /\ d + 1 \in 0 .. input.n /\ Visited = Within[d + 1] /\ curr = Ring(d + 1)
           /\ Ring(d + 1) = Visited \ Within[d] /\ awake_count = Cardinality(curr)
           /\ Within[d] \subseteq Within[d + 1] /\ IsFiniteSet(curr)
           /\ awake_count >= 1 => curr # {} /\ d + 1 < input.n
<1>1. BUInv(d) /\ FrontInv(d) /\ QInv /\ LevelInv(d)
  BY DEF Inv, AtLevel
<1>2. /\ input \in Inputs /\ input.n \in Nat \ {0} /\ d \in 0 .. input.n /\ d < input.n
      /\ Within[d] \subseteq Visited /\ Visited \subseteq Within[d + 1]
      /\ parent \in [V -> -input.n .. input.n - 1] /\ front \subseteq V /\ curr \subseteq V
  BY BUFacts
<1>3. work = {} /\ \A t \in Threads : pc[t] = "end"
  BY <1>1, EndedFacts DEF AllEnded
<1>4. \A v \in V : ~ Found(v)
  BY <1>1, <1>3 DEF BUInv, Scanning
<1>5. ASSUME NEW u \in Ring(d), NEW v \in Row(u) PROVE v \in Visited
  <2>1. u \in front /\ u \in V
    BY <1>1, <1>2 DEF FrontInv
  <2>2. v \in V /\ u \in Pred(v)
    BY <2>1, <1>2, RowFacts DEF Pred
  <2>3. ~ (parent[v] < 0) /\ parent[v] \in Int
    BY <2>1, <2>2, <1>2, <1>4 DEF Found
  <2> QED
    BY <2>2, <2>3 DEF Visited
<1>6. d + 1 \in 0 .. input.n
  BY <1>2
<1>7. Visited = Within[d + 1]
  BY <1>2, <1>5, WithinNext
<1>8. Ring(d + 1) = Visited \ Within[d] /\ Within[d] \subseteq Within[d + 1]
  BY <1>2, <1>7, RingFacts
<1>9. curr = Visited \ Within[d] /\ awake_count = Cardinality(Visited \ Within[d])
  BY <1>1, <1>3 DEF BUInv
<1>10. IsFiniteSet(curr)
  <2>1. IsFiniteSet(V)
    BY <1>2, InputFacts DEF V
  <2> QED
    BY <2>1, <1>2, FS_Subset
<1>11. ASSUME awake_count >= 1 PROVE curr # {} /\ d + 1 < input.n
  <2>1. curr # {}
    BY <1>9, <1>11, FS_EmptySet
  <2> QED
    BY <2>1, <1>2, <1>6, <1>8, <1>9, RingNotLast
<1> QED
  BY <1>6, <1>7, <1>8, <1>9, <1>10, <1>11

LEMMA BUAgainStep == ASSUME NEW d, Inv(d), BUAgain PROVE d + 1 \in 0 .. input.n /\ Inv(d + 1)'
<1>1. /\ phase = "bu" /\ AllEnded /\ phase' = "bu" /\ work' = Chunks /\ Fork("bu", Chunks)
      /\ BUContinues /\ front' = curr
      /\ old_awake_count' = awake_count /\ awake_count' = 0 /\ curr' = {}
      /\ UNCHANGED <<shared_out_start, shared_out_end>>
      /\ UNCHANGED <<input, parent, shared, shared_in, scout_count, edges_to_check>>
  BY DEF BUAgain, Joined, AllEnded, BeginBU, Fork
<1>2. /\ QInv /\ TypeOK /\ RegionInv /\ LevelInv(d) /\ FrontInv(d)
      /\ d \in 0 .. input.n /\ ParentInv /\ ScoutInv
  BY DEF Inv, AtLevel, QInv
<1>3. /\ d + 1 \in 0 .. input.n /\ Visited = Within[d + 1] /\ curr = Ring(d + 1)
      /\ Ring(d + 1) = Visited \ Within[d] /\ Within[d] \subseteq Within[d + 1]
      /\ awake_count >= 1 => curr # {} /\ d + 1 < input.n
  BY <1>1, PassEnded
<1>4. /\ input \in Inputs /\ input.n \in Nat \ {0} /\ shared_in = shared_out_end
      /\ shared_out_start = shared_out_end
      /\ shared_out_end \in 0 .. input.n /\ awake_count \in 0 .. input.n
      /\ old_awake_count \in 0 .. input.n /\ old_awake_count >= 1
  BY <1>1, <1>2, Types DEF RegionInv, TypeOK
<1>5. awake_count >= 1
  <2>1. CASE awake_count >= old_awake_count
    BY <2>1, <1>4
  <2>2. CASE awake_count > input.n \div input.beta
    <3>1. input.beta \in Nat \ {0}
      BY <1>4, InputFacts
    <3>2. input.n \div input.beta \in Nat
      BY <3>1, <1>4
    <3> QED
      BY <2>2, <3>2, <1>4
  <2> QED
    BY <2>1, <2>2, <1>1 DEF BUContinues
<1>6. /\ SlotsInv' /\ DistinctInv' /\ Filled' = Filled
      /\ \A t \in Threads : /\ pc'[t] = "take" /\ local_queue'[t] = <<>> /\ hold'[t] = <<>>
                            /\ ~ Scanning(t)'
  BY <1>1, <1>2, ForkQueue
<1>7. /\ V' = V /\ Within' = Within /\ Ring(d + 1)' = Ring(d + 1) /\ Chunks' = Chunks
      /\ \A u : Row(u)' = Row(u) /\ Word(u)' = Word(u)
  BY <1>1, SameGraph
<1>8. TypeOK'
  <2>1. /\ curr \subseteq V /\ edges_to_check \in Int
        /\ scout_count \in 0 .. Cardinality(input.edges) + input.n /\ 0 \in 0 .. input.n
        /\ shared_out_start <= shared_out_end /\ shared_out_end <= shared_in
        /\ shared_out_start \in 0 .. input.n
    BY <1>2, <1>4 DEF TypeOK
  <2> QED
    BY <2>1, <1>1, <1>2, <1>4, ForkTypes
<1>9. RegionInv'
  BY <1>1, <1>4, <1>5, <1>6 DEF RegionInv
<1>10. Visited' = Visited /\ ParentInv' /\ ScoutInv'
  BY <1>1, <1>2, SameTree
<1>11. LevelInv(d + 1)'
  <2>1. Within[d + 1] \subseteq Within[(d + 1) + 1]
    <3>1. (d + 1) + 1 \in 0 .. input.n /\ d + 1 <= (d + 1) + 1
      BY <1>3, <1>4, <1>5
    <3> QED
      BY <3>1, <1>3, <1>4, WithinGrows
  <2>2. \A s \in Filled : s < shared_out_end => shared[s] \in Within[d + 1]
    BY <1>2, <1>3 DEF LevelInv
  <2> QED
    BY <2>1, <2>2, <1>1, <1>3, <1>5, <1>6, <1>7, <1>10 DEF LevelInv
<1>12. FrontInv(d + 1)'
  BY <1>1, <1>3, <1>7 DEF FrontInv
<1>13. BUInv(d + 1)'
  <2>1. Visited' \ Within[d + 1] = {} /\ Cardinality({}) = 0
    BY <1>3, <1>10, FS_EmptySet
  <2>2. \A v \in V : \E c \in work' : v \in c
    BY <1>1, <1>4, ChunkFacts
  <2>3. \A t \in Threads : pc'[t] # "set_bit"
    BY <1>6
  <2> QED
    BY <2>1, <2>2, <2>3, <1>1, <1>6, <1>7 DEF BUInv
<1>14. QueueToBitmapInv(d + 1)' /\ BitmapToQueueInv(d + 1)' /\ TDInv(d + 1)'
  BY <1>1 DEF QueueToBitmapInv, BitmapToQueueInv, TDInv
<1> QED
  BY <1>1, <1>3, <1>6, <1>8, <1>9, <1>10, <1>11, <1>12, <1>13, <1>14 DEF Inv, QInv, AtLevel

LEMMA BUEndsStep == ASSUME NEW d, Inv(d), BUEnds PROVE d + 1 \in 0 .. input.n /\ Inv(d + 1)'
<1>1. /\ phase = "bu" /\ AllEnded /\ phase' = "c" /\ work' = V /\ Fork("c", V)
      /\ front' = curr /\ curr' = front
      /\ UNCHANGED <<shared_out_start, shared_out_end, scout_count, edges_to_check>>
      /\ UNCHANGED <<input, parent, shared, shared_in, awake_count, old_awake_count>>
  BY DEF BUEnds, Joined, AllEnded, Fork, counts
<1>2. /\ QInv /\ TypeOK /\ RegionInv /\ LevelInv(d) /\ FrontInv(d)
      /\ d \in 0 .. input.n /\ ParentInv /\ ScoutInv
  BY DEF Inv, AtLevel, QInv
<1>3. /\ d + 1 \in 0 .. input.n /\ Visited = Within[d + 1] /\ curr = Ring(d + 1)
      /\ Ring(d + 1) = Visited \ Within[d] /\ Within[d] \subseteq Within[d + 1]
  BY <1>1, PassEnded
<1>4. shared_in = shared_out_end /\ shared_out_start = shared_out_end
  BY <1>1, <1>2 DEF RegionInv
<1>5. /\ SlotsInv' /\ DistinctInv' /\ Filled' = Filled /\ Enqueued' = {}
      /\ \A t \in Threads : /\ pc'[t] = "take" /\ local_queue'[t] = <<>> /\ hold'[t] = <<>>
  BY <1>1, <1>2, <1>4, ForkQueue
<1>6. /\ V' = V /\ Within' = Within /\ Ring(d + 1)' = Ring(d + 1)
      /\ \A u : Row(u)' = Row(u)
  BY <1>1, SameGraph
<1>7. TypeOK'
  <2>1. /\ curr \subseteq V /\ front \subseteq V /\ edges_to_check \in Int
        /\ scout_count \in 0 .. Cardinality(input.edges) + input.n
        /\ shared_out_start <= shared_out_end /\ shared_out_end <= shared_in
        /\ {shared_out_start, shared_out_end} \subseteq 0 .. input.n
        /\ {awake_count, old_awake_count} \subseteq 0 .. input.n
    BY <1>2 DEF TypeOK
  <2> QED
    BY <2>1, <1>1, <1>2, ForkTypes
<1>8. RegionInv'
  BY <1>1, <1>4, <1>5 DEF RegionInv
<1>9. Visited' = Visited /\ ParentInv' /\ ScoutInv'
  BY <1>1, <1>2, SameTree
<1>10. LevelInv(d + 1)'
  <2>1. \A s \in Filled : s < shared_out_end => shared[s] \in Within[d + 1] /\ shared[s] \notin curr
    BY <1>2, <1>3 DEF LevelInv
  <2> QED
    BY <2>1, <1>1, <1>3, <1>5, <1>6, <1>9 DEF LevelInv
<1>11. FrontInv(d + 1)'
  BY <1>1, <1>3, <1>6 DEF FrontInv
<1>12. BitmapToQueueInv(d + 1)'
  <2>1. curr \subseteq V
    BY <1>2 DEF TypeOK
  <2> QED
    BY <2>1, <1>1, <1>5 DEF BitmapToQueueInv
<1>13. QueueToBitmapInv(d + 1)' /\ TDInv(d + 1)' /\ BUInv(d + 1)'
  BY <1>1 DEF QueueToBitmapInv, TDInv, BUInv
<1> QED
  BY <1>1, <1>3, <1>5, <1>7, <1>8, <1>9, <1>10, <1>11, <1>12, <1>13 DEF Inv, QInv, AtLevel

-----------------------------------------------------------------------------
(* The invariant.                                                          *)

LEMMA InitInv == ASSUME Init PROVE Inv(0)
<1>1. /\ input \in Inputs /\ parent = [InitParent EXCEPT ![input.source] = input.source]
      /\ shared = [s \in V |-> IF s = 0 THEN input.source ELSE NoSlot]
      /\ shared_in = 1 /\ shared_out_start = 0 /\ shared_out_end = 1
      /\ front = {} /\ curr = {} /\ scout_count = Cardinality(Succ(input.source))
      /\ edges_to_check = Cardinality(input.edges) /\ awake_count = 0 /\ old_awake_count = 0
      /\ phase = "loop" /\ work = {} /\ pc = Each("end")
      /\ at = Each({}) /\ nth = Each(0) /\ seen = Each({})
      /\ local_queue = Each(<<>>) /\ hold = Each(<<>>) /\ copy_start = Each(0)
  BY DEF Init
<1>2. /\ input.n \in Nat \ {0} /\ input.source \in V /\ Within[0] = {input.source}
      /\ Ring(0) = {input.source} /\ 0 \in 0 .. input.n /\ 0 \in V
      /\ input.source \in Nat /\ input.source \in -input.n .. input.n - 1
  BY <1>1, WithinDef, RingFacts DEF V
<1>3. \A v \in V : InitParent[v] \in -input.n .. -1
  BY <1>1, InitParentFacts
<1>4. \A v \in V : parent[v] = IF v = input.source THEN input.source ELSE InitParent[v]
  BY <1>1, <1>2 DEF InitParent
<1>5. parent \in [V -> -input.n .. input.n - 1]
  <2>1. parent = [v \in V |-> parent[v]]
    BY <1>1 DEF InitParent
  <2>2. \A v \in V : parent[v] \in -input.n .. input.n - 1
    BY <1>2, <1>3, <1>4
  <2> QED
    BY <2>1, <2>2
<1>6. Visited = {input.source}
  BY <1>2, <1>3, <1>4 DEF Visited
<1>7. Filled = {0} /\ shared[0] = input.source
  BY <1>1, <1>2 DEF Filled, NoSlot
<1>8. Window = {0}
  BY <1>1 DEF Window
<1>9. \A t \in Threads : /\ pc[t] = "end" /\ local_queue[t] = <<>> /\ hold[t] = <<>>
                         /\ Held(t) = {}
  BY <1>1 DEF Each, Held, ToSet
<1>10. Degrees(Visited) \in 0 .. Cardinality(input.edges) + input.n
       /\ Degrees(Visited) = Degrees({}) + Cardinality(Succ(input.source)) + 1
       /\ Degrees({}) \in Nat /\ Cardinality(Succ(input.source)) \in Nat
  <2>1. Degrees({input.source}) \in 0 .. Cardinality(input.edges) + input.n
    BY <1>1, <1>2, DegreesBound
  <2>2. Degrees({} \cup {input.source}) = Degrees({}) + Cardinality(Succ(input.source)) + 1
    BY <1>1, <1>2, DegreesGrow
  <2>3. {} \cup {input.source} = {input.source}
    OBVIOUS
  <2>4. Degrees({}) \in 0 .. Cardinality(input.edges) + input.n
    BY <1>1, DegreesBound
  <2>5. Cardinality(Succ(input.source)) \in 0 .. input.n
    BY <1>1, <1>2, InitParentFacts
  <2> QED
    BY <2>1, <2>2, <2>3, <2>4, <2>5, <1>6
<1>11. Cardinality(input.edges) \in Nat
  BY <1>1, InputFacts, FS_CardinalityType
<1>12. TypeOK
  <2>1. shared \in [V -> V \cup {NoSlot}]
    BY <1>1, <1>2
  <2>2. 0 \in 0 .. input.n /\ 1 \in 0 .. input.n
    BY <1>2
  <2>3. scout_count \in 0 .. Cardinality(input.edges) + input.n
    BY <1>1, <1>2, <1>10, <1>11
  <2>4. <<>> \in Seq(V) /\ Len(<<>>) <= local_size
    BY SizesAssumption
  <2>5. /\ at \in [Threads -> SUBSET V] /\ nth \in [Threads -> 0 .. input.n]
        /\ seen \in [Threads -> SUBSET (-input.n .. input.n - 1)]
        /\ local_queue \in [Threads -> Seq(V)]
        /\ hold \in [Threads -> {<<>>} \cup {<<v>> : v \in V}]
        /\ copy_start \in [Threads -> 0 .. input.n] /\ pc \in [Threads -> {"take", "end"}]
        /\ \A t \in Threads : Len(local_queue[t]) <= local_size
    BY <1>1, <2>2, <2>4 DEF Each
  <2> QED
    BY <2>1, <2>2, <2>3, <2>5, <1>1, <1>5, <1>11 DEF TypeOK
<1>13. RegionInv
  BY <1>1, <1>9 DEF RegionInv
<1>14. SlotsInv
  <2>1. \A s \in V : s < 1 <=> s = 0
    BY DEF V
  <2> QED
    BY <2>1, <1>1, <1>2, <1>7, <1>9 DEF SlotsInv
<1>15. DistinctInv
  <2>1. Distinct(<<>>) /\ ToSet(<<>>) = {}
    BY DEF Distinct, ToSet
  <2> QED
    BY <2>1, <1>7, <1>9 DEF DistinctInv
<1>16. ParentInv
  BY <1>1, <1>2, <1>4, <1>6 DEF ParentInv
<1>17. ScoutInv
  <2>1. scout_count <= Degrees(Visited)
    BY <1>1, <1>10
  <2> QED
    BY <2>1 DEF ScoutInv, Degrees
<1>18. LevelInv(0)
  BY <1>1, <1>2, <1>6, <1>7, <1>8 DEF LevelInv
<1>19. FrontInv(0) /\ QueueToBitmapInv(0) /\ BitmapToQueueInv(0) /\ TDInv(0) /\ BUInv(0)
  BY <1>1 DEF FrontInv, QueueToBitmapInv, BitmapToQueueInv, TDInv, BUInv
<1> QED
  BY <1>2, <1>12, <1>13, <1>14, <1>15, <1>16, <1>17, <1>18, <1>19 DEF Inv, QInv, AtLevel

LEMMA ThreadKeeps ==
    ASSUME NEW d, Inv(d), NEW t \in Threads, ThreadStep(t)
    PROVE  Inv(d)'
<1>1. CASE Flushing(t)
  BY <1>1, FlushingStep
<1>2. CASE QueueToBitmap(t)
  BY <1>2, QueueToBitmapStep
<1>3. CASE BUStep(t)
  BY <1>3, TakeChunkStep, AdoptStep, SetBitStep, ChunkEndsStep DEF BUStep
<1>4. CASE BitmapToQueue(t)
  BY <1>4, BitmapToQueueStep
<1>5. CASE TDStep(t)
  BY <1>5, TakeVertexStep, LookStep, ClaimStep, VertexEndsStep DEF TDStep
<1> QED
  BY <1>1, <1>2, <1>3, <1>4, <1>5 DEF ThreadStep

(* A stuttering step.                                                      *)
LEMMA StutterKeeps == ASSUME NEW d, Inv(d), UNCHANGED vars PROVE Inv(d)'
<1>1. /\ UNCHANGED <<input, parent, shared, shared_in, shared_out_start, shared_out_end, front, curr>>
      /\ UNCHANGED <<scout_count, edges_to_check, awake_count, old_awake_count, phase, work, pc, at>>
      /\ UNCHANGED <<nth, seen, local_queue, hold, copy_start>>
  BY DEF vars, queue, counts, buffer
<1>2. /\ V' = V /\ Window' = Window /\ Within' = Within /\ Ring(d)' = Ring(d)
      /\ Reachable' = Reachable /\ Chunks' = Chunks /\ InitParent' = InitParent
      /\ \A u : /\ Row(u)' = Row(u) /\ Dist(u)' = Dist(u) /\ out_neigh(u)' = out_neigh(u)
                /\ Word(u)' = Word(u) /\ Pred(u)' = Pred(u)
  BY <1>1, SameGraph DEF Window
<1>3. /\ Visited' = Visited /\ Filled' = Filled /\ Enqueued' = Enqueued
      /\ \A t : /\ Held(t)' = Held(t) /\ Mine(t)' = Mine(t) /\ InHand(t)' = InHand(t)
                /\ Scanning(t)' = Scanning(t) /\ Neighbours(t)' = Neighbours(t)
                /\ Found(t)' = Found(t)
  BY <1>1, <1>2 DEF Visited, Filled, Enqueued, Held, Mine, InHand, Scanning, Neighbours, Found
<1>4. /\ QInv /\ TypeOK /\ RegionInv /\ SlotsInv /\ DistinctInv /\ ParentInv /\ ScoutInv
      /\ d \in 0 .. input.n /\ LevelInv(d) /\ FrontInv(d) /\ QueueToBitmapInv(d)
      /\ BitmapToQueueInv(d) /\ TDInv(d) /\ BUInv(d)
  BY DEF Inv, AtLevel, QInv
<1>5. TypeOK'
  BY <1>1, <1>2, <1>4 DEF TypeOK
<1>6. RegionInv'
  BY <1>1, <1>4 DEF RegionInv
<1>7. SlotsInv'
  BY <1>1, <1>2, <1>3, <1>4 DEF SlotsInv
<1>8. DistinctInv'
  BY <1>1, <1>3, <1>4 DEF DistinctInv
<1>9. ParentInv' /\ ScoutInv'
  BY <1>1, <1>2, <1>3, <1>4 DEF ParentInv, ScoutInv
<1>10. LevelInv(d)' /\ FrontInv(d)'
  BY <1>1, <1>2, <1>3, <1>4 DEF LevelInv, FrontInv
<1>11. QueueToBitmapInv(d)' /\ BitmapToQueueInv(d)'
  BY <1>1, <1>2, <1>3, <1>4 DEF QueueToBitmapInv, BitmapToQueueInv
<1>12. TDInv(d)'
  BY <1>1, <1>2, <1>3, <1>4 DEF TDInv
<1>13. BUInv(d)'
  BY <1>1, <1>2, <1>3, <1>4 DEF BUInv
<1> QED
  BY <1>1, <1>4, <1>5, <1>6, <1>7, <1>8, <1>9, <1>10, <1>11, <1>12, <1>13 DEF Inv, QInv, AtLevel

LEMMA NextKeeps == ASSUME IInv, [Next]_vars PROVE IInv'
<1>1. PICK d \in 0 .. input.n : Inv(d)
  BY DEF IInv, Inv, QInv
<1>2. input' = input
  BY InputStays
<1>3. Inv(d)' \/ (d + 1 \in 0 .. input.n /\ Inv(d + 1)')
  <2>1. CASE BottomUp \/ TopDown \/ Finish \/ BUStarts \/ QueueFilled
    BY <2>1, <1>1, BottomUpStep, TopDownStep, FinishStep, BUStartsStep, QueueFilledStep
  <2>2. CASE TDEnds \/ BUAgain \/ BUEnds
    BY <2>2, <1>1, TDEndsStep, BUAgainStep, BUEndsStep
  <2>3. CASE \E t \in Threads : ThreadStep(t)
    BY <2>3, <1>1, ThreadKeeps
  <2>4. CASE UNCHANGED vars
    BY <2>4, <1>1, StutterKeeps
  <2> QED
    BY <2>1, <2>2, <2>3, <2>4 DEF Next, MasterStep, Terminated
<1>4. \E e \in 0 .. input.n : Inv(e)'
  BY <1>1, <1>3
<1>5. (\E e \in 0 .. input.n : Inv(e))'
  BY <1>2, <1>4
<1> QED
  BY <1>5 DEF IInv, Inv, QInv

(* The invariant holds of every reachable state.                           *)
THEOREM SearchInvariant == Spec => []IInv
<1>1. ASSUME Init PROVE IInv
  <2>1. Inv(0)
    BY <1>1, InitInv
  <2> QED
    BY <2>1 DEF IInv, Inv, QInv
<1>2. IInv /\ [Next]_vars => IInv'
  BY NextKeeps
<1> QED
  BY <1>1, <1>2, PTL DEF Spec

-----------------------------------------------------------------------------
(* What it says.                                                           *)

(* parent is a tree of shortest paths at every moment, and spans what can  *)
(* be reached when the search returns: what the claims of TDStep and the   *)
(* scans of BUStep promise the verifier, for any number of threads.        *)
THEOREM TreeExactHolds == Spec => []TreeExact
<1>1. ASSUME IInv PROVE TreeExact
  <2>1. ParentInv /\ TypeOK /\ RegionInv
    BY <1>1 DEF IInv
  <2>2. PICK d \in 0 .. input.n : LevelInv(d)
    BY <1>1 DEF IInv, AtLevel
  <2>3. ASSUME phase = "done" PROVE Visited = Reachable /\ \A v \in V \ Visited : parent[v] = -1
    <3>1. input \in Inputs /\ Window = {}
      BY <2>1, <2>3, Types DEF RegionInv, Window
    <3>2. Ring(d) = {}
      BY <2>2, <2>3, <3>1 DEF LevelInv
    <3>3. Visited = Reachable
      BY <2>2, <2>3, <3>1, <3>2, RingEmpty DEF LevelInv
    <3>4. ASSUME NEW v \in V \ Visited PROVE parent[v] = -1
      <4>1. parent[v] \in Int
        BY <2>1, <3>1, WithinDef DEF TypeOK
      <4>2. parent[v] < 0
        BY <4>1 DEF Visited
      <4> QED
        BY <4>2, <2>1, <2>3 DEF ParentInv
    <3> QED
      BY <3>3, <3>4
  <2> QED
    BY <2>1, <2>3 DEF TreeExact, ParentInv
<1> QED
  BY <1>1, SearchInvariant, PTL

(* Whenever the master chooses a direction the window of the queue is the  *)
(* whole frontier, and during a bottom-up pass the bitmap front holds it;  *)
(* the next bitmap is exact when the pass has ended.                       *)
THEOREM FrontierExactHolds == Spec => []FrontierExact
<1>1. ASSUME IInv PROVE FrontierExact
  <2>1. PICK d \in 0 .. input.n : Inv(d)
    BY <1>1 DEF IInv, Inv, QInv
  <2>2. QInv /\ LevelInv(d) /\ FrontInv(d) /\ input \in Inputs
    BY <2>1, Types DEF Inv, QInv, AtLevel
  <2>3. WindowExact
    <3> SUFFICES ASSUME phase = "loop"
                 PROVE  /\ shared_in = shared_out_end
                        /\ IF {shared[s] : s \in Window} = {} THEN Visited = Reachable
                           ELSE \E e \in 0 .. input.n : /\ {shared[s] : s \in Window} = Ring(e)
                                                        /\ Visited = Within[e]
      BY DEF WindowExact
    <3>1. /\ shared_in = shared_out_end /\ Visited = Within[d]
          /\ {shared[s] : s \in Window} = Ring(d)
      BY <2>1, LoopFacts
    <3>2. Ring(d) = {} => Within[d] = Reachable
      BY <2>2, RingEmpty
    <3> QED
      BY <3>1, <3>2
  <2>4. BitmapsExact
    <3> SUFFICES ASSUME phase = "bu" PROVE BitmapsExact
      BY DEF BitmapsExact
    <3>1. /\ Ring(d) # {} /\ d < input.n /\ Ring(d) \subseteq front /\ front \subseteq Within[d]
          /\ \A v \in front \ Ring(d) : Row(v) \subseteq Within[d]
          /\ Within[d] \subseteq Visited /\ Within[d] \subseteq V
      BY <2>2, WithinDef DEF LevelInv, FrontInv
    <3> DEFINE D == {Dist(v) : v \in front}
    <3>2. d \in D /\ \A e \in D : e \in Nat /\ e <= d
      <4>1. PICK v \in Ring(d) : TRUE
        BY <3>1
      <4>2. Dist(v) = d /\ v \in front
        BY <4>1, <3>1 DEF Ring
      <4>3. \A x \in front : Dist(x) \in 0 .. input.n /\ Dist(x) <= d
        BY <2>2, <3>1, DistFacts
      <4>4. input.n \in Nat
        BY <2>2, WithinDef
      <4> QED
        BY <4>2, <4>3, <4>4
    <3>3. Max(D) = d
      <4>1. Max(D) = CHOOSE x \in D : \A y \in D : x >= y
        BY DEF Max
      <4>2. \E x \in D : \A y \in D : x >= y
        BY <3>2
      <4>3. Max(D) \in D /\ \A y \in D : Max(D) >= y
        <5> HIDE DEF D
        <5> QED
          BY <4>1, <4>2
      <4> HIDE DEF D
      <4>4. Max(D) \in Nat /\ Max(D) <= d /\ Max(D) >= d
        BY <3>2, <4>3
      <4> QED
        BY <3>2, <4>4
    <3>4. \A v \in front \ Ring(d) : Succ(v) \subseteq Visited
      <4>1. \A v \in front : v \in V /\ Row(v) = Succ(v)
        BY <2>2, <3>1, RowFacts
      <4> QED
        BY <3>1, <4>1
    <3>5. ASSUME Joined("bu")
          PROVE  curr = Ring(d + 1) /\ Visited = Within[d + 1] /\ awake_count = Cardinality(curr)
      <4>1. AllEnded
        BY <3>5 DEF Joined, AllEnded
      <4> QED
        BY <4>1, <2>1, PassEnded
    <3>6. d # input.n
      <4>1. input.n \in Nat
        BY <2>2, WithinDef
      <4> QED
        BY <3>1, <4>1
    <3> HIDE DEF D
    <3>7. {Dist(v) : v \in front} = D
      BY DEF D
    <3> QED
      BY <3>1, <3>3, <3>4, <3>5, <3>6, <3>7 DEF BitmapsExact
  <2> QED
    BY <2>3, <2>4 DEF FrontierExact
<1> QED
  BY <1>1, SearchInvariant, PTL

LEMMA ShortQueue ==
    ASSUME NEW S, NEW q \in Seq(S), NEW h, h = <<>> \/ \E v \in S : h = <<v>>,
           Distinct(q), ToSet(h) \cap ToSet(q) = {}
    PROVE  IsInjective(q \o h) /\ ToSet(q \o h) = ToSet(q) \cup ToSet(h)
<1>1. CASE h = <<>>
  <2>1. q \o h = q
    BY <1>1
  <2>2. ToSet(h) = {}
    BY <1>1 DEF ToSet
  <2> QED
    BY <2>1, <2>2 DEF Distinct, IsInjective
<1>2. ASSUME NEW v \in S, h = <<v>> PROVE IsInjective(q \o h) /\ ToSet(q \o h) = ToSet(q) \cup ToSet(h)
  <2>1. q \o h = Append(q, v)
    BY <1>2
  <2>2. ToSet(h) = {v}
    BY <1>2, ShortSeq
  <2>3. v \notin ToSet(q)
    BY <2>2
  <2> QED
    BY <2>1, <2>2, <2>3, AppendFacts DEF Distinct, IsInjective
<1> QED
  BY <1>1, <1>2

(* No vertex is in two slots or buffers, although many threads may find it *)
(* at once: the shared array is never overrun, and no two flushes of the   *)
(* sliding queue write one slot.                                           *)
THEOREM EnqueuedOnceHolds == Spec => []EnqueuedOnce
<1>1. ASSUME IInv PROVE EnqueuedOnce
  <2>1. TypeOK /\ SlotsInv /\ DistinctInv
    BY <1>1 DEF IInv
  <2>2. ASSUME NEW t \in Threads
        PROVE  /\ IsInjective(local_queue[t] \o hold[t])
               /\ ToSet(local_queue[t] \o hold[t]) = Held(t)
    <3>1. /\ local_queue[t] \in Seq(V) /\ (hold[t] = <<>> \/ \E v \in V : hold[t] = <<v>>)
      BY <2>1, Types
    <3>2. Distinct(local_queue[t]) /\ ToSet(hold[t]) \cap ToSet(local_queue[t]) = {}
      BY <2>1 DEF DistinctInv
    <3>3. /\ IsInjective(local_queue[t] \o hold[t])
          /\ ToSet(local_queue[t] \o hold[t]) = ToSet(local_queue[t]) \cup ToSet(hold[t])
      <4> DEFINE q == local_queue[t]
                 h == hold[t]
      <4>1. q \in Seq(V) /\ (h = <<>> \/ \E v \in V : h = <<v>>)
        BY <3>1
      <4>2. Distinct(q) /\ ToSet(h) \cap ToSet(q) = {}
        BY <3>2
      <4> HIDE DEF q, h
      <4>3. IsInjective(q \o h) /\ ToSet(q \o h) = ToSet(q) \cup ToSet(h)
        BY <4>1, <4>2, ShortQueue
      <4> QED
        BY <4>3 DEF q, h
    <3> QED
      BY <3>3 DEF Held
  <2>3. \A s, r \in Filled : shared[s] = shared[r] => s = r
    BY <2>1 DEF DistinctInv
  <2>4. \A t \in Threads : \A s \in Filled : shared[s] \notin Held(t)
    BY <2>1 DEF DistinctInv
  <2>5. \A t \in Threads : \A w \in Threads \ {t} : Held(t) \cap Held(w) = {}
    BY <2>1 DEF DistinctInv
  <2>6. \A t \in Threads : pc[t] = "copy" => \A s \in Filled : s \notin Mine(t)
    BY <2>1 DEF SlotsInv, Filled
  <2> QED
    BY <2>1, <2>2, <2>3, <2>4, <2>5, <2>6 DEF EnqueuedOnce, Filled, Mine
<1> QED
  BY <1>1, SearchInvariant, PTL

=============================================================================
