--------------------------- MODULE DeltaSSSPProofs ---------------------------
(***************************************************************************)
(* Proofs about DeltaSSSP, for any number of threads, every graph with     *)
(* positive weights and every length of an own bin: no lowered distance is *)
(* forgotten, the distances are the shortest, and with bins of width 1 the *)
(* frontier is long enough. With wider bins it may not be; the first two   *)
(* then speak of the program until a thread is to copy past its end.       *)
(*                                                                         *)
(* The invariant follows an edge that can still lower a distance. While    *)
(* threads work on bin i its source is at least delta * i away, which is   *)
(* why a vertex nearer than that may be passed over; and it is pending:    *)
(* in a slot, a bin, a copied bin or a thread's hands. When the last       *)
(* thread reaches the first barrier only the bins are left, and i becomes  *)
(* the least that is filled.                                               *)
(***************************************************************************)
EXTENDS DeltaSSSP, NaturalsInduction, FiniteSetTheorems, TLAPS

-----------------------------------------------------------------------------
(* Least elements, induction and iteration over the naturals               *)

(* Every set of naturals has a least element.                              *)
LEMMA NatLeast ==
    ASSUME NEW T \in SUBSET Nat, T # {}
    PROVE  \E x \in T : \A y \in T : x <= y
<1> DEFINE R == {p \in Nat \X Nat : p[1] < p[2]}
<1>1. IsWellFoundedOn(R, Nat)
  BY NatLessThanWellFounded DEF OpToRel
<1>2. \A x, y \in Nat : <<y, x>> \in R <=> y < x
  OBVIOUS
<1> HIDE DEF R
<1>3. \E x \in T : \A y \in T : ~ (<<y, x>> \in R)
  BY <1>1, WFMin
<1>4. PICK x \in T : \A y \in T : ~ (<<y, x>> \in R)
  BY <1>3
<1>5. ASSUME NEW y \in T PROVE x <= y
  <2>1. y \in Nat /\ x \in Nat
    OBVIOUS
  <2>2. ~ (y < x)
    BY <1>2, <1>4, <2>1
  <2> QED
    BY <2>1, <2>2
<1> QED
  BY <1>5

LEMMA MinFacts ==
    ASSUME NEW T \in SUBSET Nat, T # {}
    PROVE  Min(T) \in T /\ \A y \in T : Min(T) <= y
BY NatLeast DEF Min

(* Induction, of a set of naturals.                                        *)
LEMMA NatInd ==
    ASSUME NEW S, 0 \in S, \A n \in Nat : n \in S => n + 1 \in S
    PROVE  Nat \subseteq S
<1> SUFFICES ASSUME Nat \ S # {} PROVE FALSE
  OBVIOUS
<1>1. PICK x \in Nat \ S : \A y \in Nat \ S : x <= y
  BY NatLeast
<1>2. x - 1 \in Nat /\ x - 1 \in S
  BY <1>1
<1> QED
  BY <1>1, <1>2

(* Iterating a function over the naturals.                                 *)
LEMMA Iteration ==
    ASSUME NEW X, NEW b \in X, NEW F \in [X -> X]
    PROVE  \E W \in [Nat -> X] : W[0] = b /\ \A n \in Nat : W[n + 1] = F[W[n]]
<1> DEFINE P(f, n) == /\ f \in [0 .. n -> X] /\ f[0] = b
                      /\ \A k \in 0 .. n : k + 1 <= n => f[k + 1] = F[f[k]]
<1>1. \A n \in Nat : \E f : P(f, n)
  <2> DEFINE S == {n \in Nat : \E f : P(f, n)}
  <2>1. 0 \in S
    <3>1. P([k \in 0 .. 0 |-> b], 0)
      OBVIOUS
    <3> QED
      BY <3>1
  <2>2. ASSUME NEW n \in Nat, n \in S PROVE n + 1 \in S
    <3>1. PICK f : P(f, n)
      BY <2>2
    <3> DEFINE h == [k \in 0 .. n + 1 |-> IF k = n + 1 THEN F[f[n]] ELSE f[k]]
    <3>2. h \in [0 .. n + 1 -> X]
      BY <3>1
    <3>3. h[0] = b
      BY <3>1
    <3>4. ASSUME NEW k \in 0 .. n + 1, k + 1 <= n + 1 PROVE h[k + 1] = F[h[k]]
      <4>1. k \in 0 .. n /\ h[k] = f[k]
        BY <3>4
      <4>2. CASE k = n
        BY <4>1, <4>2
      <4>3. CASE k # n
        <5>1. k + 1 <= n /\ k + 1 \in 0 .. n + 1 /\ k + 1 # n + 1
          BY <4>1, <4>3
        <5>2. h[k + 1] = f[k + 1]
          BY <5>1
        <5> QED
          BY <3>1, <4>1, <5>1, <5>2
      <4> QED
        BY <4>2, <4>3
    <3> HIDE DEF h
    <3>5. P(h, n + 1)
      BY <3>2, <3>3, <3>4
    <3> QED
      BY <3>5
  <2> HIDE DEF S
  <2>3. Nat \subseteq S
    BY <2>1, <2>2, NatInd
  <2> QED
    BY <2>3 DEF S
<1>2. ASSUME NEW n \in Nat, NEW m \in Nat, NEW f, NEW h, P(f, n), P(h, m)
      PROVE  \A k \in Nat : k <= n /\ k <= m => f[k] = h[k]
  <2> DEFINE S == {k \in Nat : k <= n /\ k <= m => f[k] = h[k]}
  <2>1. 0 \in S
    BY <1>2
  <2>2. ASSUME NEW k \in Nat, k \in S PROVE k + 1 \in S
    <3>1. CASE k + 1 <= n /\ k + 1 <= m
      <4>1. f[k] = h[k] /\ k \in 0 .. n /\ k \in 0 .. m
        BY <2>2, <3>1
      <4> QED
        BY <1>2, <3>1, <4>1
    <3> QED
      BY <3>1
  <2> HIDE DEF S
  <2>3. Nat \subseteq S
    BY <2>1, <2>2, NatInd
  <2> QED
    BY <2>3 DEF S
<1> DEFINE G(n) == CHOOSE f : P(f, n)
           W == [n \in Nat |-> G(n)[n]]
<1>3. \A n \in Nat : P(G(n), n)
  BY <1>1
<1> HIDE DEF G
<1>4. W \in [Nat -> X]
  BY <1>3
<1>5. W[0] = b
  BY <1>3
<1>6. ASSUME NEW n \in Nat PROVE W[n + 1] = F[W[n]]
  <2>1. P(G(n), n) /\ P(G(n + 1), n + 1)
    BY <1>3
  <2>2. G(n + 1)[n] = G(n)[n]
    BY <1>2, <2>1
  <2>3. G(n + 1)[n + 1] = F[G(n + 1)[n]]
    BY <2>1
  <2> QED
    BY <2>2, <2>3
<1> QED
  BY <1>4, <1>5, <1>6

-----------------------------------------------------------------------------
Relaxing == {"edge", "new", "cas", "again"}
Exchanging == {"single", "reserve", "copy", "barrier2"}

(* The entry of the two that the iteration's bin and frontier are under.   *)
Now(t) == IF pc[t] \in {"single", "reserve", "copy"} THEN next(t) ELSE curr(t)
Idx(t) == shared_indexes[Now(t)]
Floor(t) == input.delta * Idx(t)

(* All threads are in the same half of the same iteration.                 *)
Together ==
    /\ \A t, x \in Threads : Now(t) = Now(x) /\ (pc[t] \in Exchanging <=> pc[x] \in Exchanging)
    /\ \A t \in Threads : pc[t] \in Exchanging \cup {"barrier1"} => work = {}
    /\ \A t \in Threads : pc[t] \in Relaxing \cup {"take", "barrier1"} => Idx(t) # kMaxBin
    /\ \A t \in Threads : pc[t] = "end" => Idx(t) = kMaxBin

(* Only a thread that relaxes has something in its hands.                  *)
Hands ==
    \A t \in Threads :
        /\ pc[t] \notin Relaxing => todo[t] = <<>> /\ curr_bin_copy[t] = <<>>
        /\ pc[t] \in {"new", "cas", "again"} => todo[t] # <<>>
        /\ pc[t] \in Relaxing => ToSet(todo[t]) \subseteq ToSet(out_neigh(at[t]))

(* What it has read and computed.                                          *)
Bounds ==
    \A t \in Threads :
        /\ pc[t] = "new" => old_dist[t] >= dist[v_(t)]
        /\ pc[t] = "cas" => new_dist[t] < old_dist[t]
        /\ pc[t] \in {"cas", "again"} => new_dist[t] >= dist[at[t]] + w_(t)

(* Slots are reserved apart from each other, below the tail, and are below *)
(* the tail either written or about to be.                                 *)
Mine(t) == copy_start[t] .. copy_start[t] + Len(Part(t)) - 1
Apart ==
    /\ \A t, x \in Threads : t # x /\ pc[t] = "copy" /\ pc[x] = "copy" =>
            Mine(t) \cap Mine(x) = {}
    /\ \A t \in Threads : pc[t] = "copy" =>
            copy_start[t] + Len(Part(t)) <= frontier_tails[Now(t)]
    /\ \A p \in 0 .. 1 : \A s \in 0 .. frontier_tails[p] - 1 : s \in DOMAIN frontier \cup Unfilled

(* The bins before the iteration's are empty, and that bin once it has     *)
(* been copied; what has been proposed is no more than the least filled.   *)
BinsAbove ==
    \A t \in Threads :
        /\ \A b \in Bins : local_bins[t][b] # <<>> => b >= Idx(t)
        /\ pc[t] = "barrier2" => \A b \in Bins : b = Idx(t) => local_bins[t][b] = <<>>
        /\ pc[t] = "barrier1" =>
             \A b \in Bins : local_bins[t][b] # <<>> => b >= shared_indexes[next(t)]

(* What is relaxed is as far as the iteration's bin: it does not put       *)
(* anything into an earlier one.                                           *)
Far ==
    \A t \in Threads :
        /\ pc[t] \in Relaxing => dist[at[t]] >= Floor(t)
        /\ \A v \in ToSet(curr_bin_copy[t]) : dist[v] >= Floor(t)
        /\ pc[t] \notin Exchanging =>
             \A b \in Bins : b = Idx(t) => \A v \in ToSet(local_bins[t][b]) : dist[v] >= Floor(t)

(* An edge that can still lower a distance is pending.                     *)
Slotted(u) == \E s \in Slots \cap DOMAIN frontier : frontier[s] = u
Binned(t, u) == u \in ToSet(local_bins[t][dist[u] \div input.delta])
Copied(t, u) == u \in ToSet(curr_bin_copy[t])
InHands(t, u, e) ==
    /\ at[t] = u /\ e \in ToSet(todo[t])
    /\ pc[t] \in {"cas", "again"} /\ e = Head(todo[t]) => new_dist[t] = dist[u] + e[2]
PendingEdge(u, e) ==
    Slotted(u) \/ \E t \in Threads : Binned(t, u) \/ Copied(t, u) \/ InHands(t, u, e)
Settled ==
    \A u \in V : \A e \in ToSet(out_neigh(u)) :
        dist[u] + e[2] < dist[e[1]] =>
            /\ \A t \in Threads : dist[u] >= Floor(t)
            /\ PendingEdge(u, e)

(* No distance is below that of the shortest walk.                         *)
Lower == \A v \in V : dist[v] >= Shortest(input)[v]

(* The source is at distance 0.                                            *)
SourceZero == dist[input.source] = 0

IInv == /\ TypeOK /\ Together /\ Hands /\ Bounds /\ Apart /\ BinsAbove /\ Far /\ Settled
        /\ Lower /\ SourceZero

-----------------------------------------------------------------------------
(* Numbers.                                                                *)

LEMMA DivFacts ==
    ASSUME NEW d \in Nat, NEW k \in Nat \ {0}
    PROVE  d \div k \in Nat /\ k * (d \div k) <= d /\ d < k * (d \div k) + k
OBVIOUS

LEMMA DivBound ==
    ASSUME NEW d \in Nat, NEW k \in Nat \ {0}, NEW b \in Nat
    PROVE  b <= d \div k <=> k * b <= d
OBVIOUS

LEMMA DivMono ==
    ASSUME NEW d \in Nat, NEW e \in Nat, d <= e, NEW k \in Nat \ {0}
    PROVE  d \div k <= e \div k
OBVIOUS

-----------------------------------------------------------------------------
(* Walks.                                                                  *)

LEMMA SeqElements ==
    ASSUME NEW S, NEW q \in Seq(S)
    PROVE  ToSet(q) \subseteq S
BY DEF ToSet

Nodes(g) == 0 .. g.n - 1
RowEdges(g, u) == ToSet(g.out_neigh[u])
Pairs(g) == SUBSET (Nodes(g) \X Nat)
Longer(g, W) == UNION {{<<e[1], x[2] + e[2]>> : e \in RowEdges(g, x[1])} : x \in W}

LEMMA EdgeFacts ==
    ASSUME NEW g \in Inputs
    PROVE  /\ g.n \in Nat \ {0} /\ g.source \in Nodes(g) /\ g.delta \in Nat \ {0}
           /\ \A u \in Nodes(g) : /\ g.out_neigh[u] \in Seq(Nodes(g) \X (Nat \ {0}))
                                  /\ RowEdges(g, u) \subseteq Nodes(g) \X (Nat \ {0})
<1>1. /\ g.n \in Nat /\ g.source \in Nodes(g) /\ g.delta \in Nat \ {0}
      /\ g.out_neigh \in [Nodes(g) -> Seq(Nodes(g) \X (Nat \ {0}))]
  BY InputsAssumption DEF Nodes
<1>2. g.n # 0
  BY <1>1 DEF Nodes
<1>3. ASSUME NEW u \in Nodes(g)
      PROVE  /\ g.out_neigh[u] \in Seq(Nodes(g) \X (Nat \ {0}))
             /\ RowEdges(g, u) \subseteq Nodes(g) \X (Nat \ {0})
  <2>1. g.out_neigh[u] \in Seq(Nodes(g) \X (Nat \ {0}))
    BY <1>1
  <2> QED
    BY <2>1, SeqElements DEF RowEdges
<1> QED
  BY <1>1, <1>2, <1>3

LEMMA WalksDef ==
    ASSUME NEW g \in Inputs
    PROVE  /\ Walks(g) \in [Nat -> Pairs(g)]
           /\ Walks(g)[0] = {<<g.source, 0>>}
           /\ \A d \in Nat : Walks(g)[d + 1] = Walks(g)[d] \cup Longer(g, Walks(g)[d])
<1> DEFINE X == Pairs(g)
           b == {<<g.source, 0>>}
           F == [W \in X |-> W \cup Longer(g, W)]
           Eq(W) == W = [d \in Nat |-> IF d = 0 THEN b ELSE W[d - 1] \cup Longer(g, W[d - 1])]
<1>1. b \in X
  <2>1. <<g.source, 0>> \in Nodes(g) \X Nat
    BY EdgeFacts
  <2> QED
    BY <2>1 DEF Pairs
<1>2. ASSUME NEW W \in X PROVE W \cup Longer(g, W) \in X
  <2>1. ASSUME NEW x \in W, NEW e \in RowEdges(g, x[1]) PROVE <<e[1], x[2] + e[2]>> \in Nodes(g) \X Nat
    <3>1. x[1] \in Nodes(g) /\ x[2] \in Nat
      BY DEF Pairs
    <3>2. e \in Nodes(g) \X (Nat \ {0})
      BY <3>1, EdgeFacts
    <3> QED
      BY <3>1, <3>2
  <2> QED
    BY <2>1 DEF Longer, Pairs
<1>3. F \in [X -> X] /\ \A W \in X : F[W] = W \cup Longer(g, W)
  BY <1>2
<1> HIDE DEF X, b, F
<1>4. PICK W \in [Nat -> X] : W[0] = b /\ \A n \in Nat : W[n + 1] = F[W[n]]
  BY <1>1, <1>3, Iteration
<1>5. Eq(W)
  <2>1. ASSUME NEW d \in Nat
        PROVE  W[d] = IF d = 0 THEN b ELSE W[d - 1] \cup Longer(g, W[d - 1])
    <3>1. CASE d = 0
      BY <1>4, <3>1
    <3>2. CASE d # 0
      <4>1. d - 1 \in Nat /\ (d - 1) + 1 = d
        BY <3>2
      <4>2. W[d] = F[W[d - 1]] /\ W[d - 1] \in X
        BY <1>4, <4>1
      <4> QED
        BY <3>2, <4>2, <1>3
    <3> QED
      BY <3>1, <3>2
  <2> QED
    BY <1>4, <2>1
<1> DEFINE K == CHOOSE Q : Eq(Q)
<1>6. Walks(g) = K
  BY DEF Walks, Longer, RowEdges, b
<1>7. Eq(K)
  BY <1>5
<1> HIDE DEF K
<1>8. \A d \in Nat : K[d] = IF d = 0 THEN b ELSE K[d - 1] \cup Longer(g, K[d - 1])
  BY <1>7
<1>9. K[0] = b
  BY <1>8
<1>10. ASSUME NEW d \in Nat PROVE K[d + 1] = K[d] \cup Longer(g, K[d])
  <2>1. d + 1 \in Nat /\ d + 1 # 0 /\ (d + 1) - 1 = d
    OBVIOUS
  <2> QED
    BY <1>8, <2>1
<1>11. \A d \in Nat : K[d] \in X
  <2> DEFINE S == {d \in Nat : K[d] \in X}
  <2>1. 0 \in S
    BY <1>9, <1>1
  <2>2. ASSUME NEW d \in Nat, d \in S PROVE d + 1 \in S
    BY <2>2, <1>10, <1>2
  <2> HIDE DEF S
  <2>3. Nat \subseteq S
    BY <2>1, <2>2, NatInd
  <2> QED
    BY <2>3 DEF S
<1>12. K = [d \in Nat |-> K[d]]
  BY <1>7
<1> QED
  BY <1>6, <1>9, <1>10, <1>11, <1>12 DEF X, b

AllWalks(g) == UNION {Walks(g)[d] : d \in Nat}
Least(g, v, l) == <<v, l>> \in AllWalks(g) /\ \A m \in Nat : <<v, m>> \in AllWalks(g) => l <= m

(* The vertices whose shortest walk has at most k edges.                   *)
Near(g, k) == {v \in Nodes(g) : \E l \in Nat : Least(g, v, l) /\ <<v, l>> \in Walks(g)[k]}

LEMMA WalkIn ==
    ASSUME NEW g \in Inputs, NEW x \in AllWalks(g)
    PROVE  x \in Nodes(g) \X Nat /\ \E d \in Nat : x \in Walks(g)[d]
<1>1. PICK d \in Nat : x \in Walks(g)[d]
  BY DEF AllWalks
<1>2. Walks(g)[d] \subseteq Nodes(g) \X Nat
  BY WalksDef DEF Pairs
<1> QED
  BY <1>1, <1>2

(* Every vertex reached has a shortest walk.                               *)
LEMMA LeastExists ==
    ASSUME NEW g \in Inputs, NEW x \in AllWalks(g)
    PROVE  \E l \in Nat : Least(g, x[1], l) /\ l <= x[2]
<1> DEFINE T == {l \in Nat : <<x[1], l>> \in AllWalks(g)}
<1>1. x[2] \in T
  BY WalkIn
<1>2. PICK l \in T : \A m \in T : l <= m
  BY <1>1, NatLeast
<1> QED
  BY <1>1, <1>2 DEF Least

(* A longer walk is a walk.                                                *)
LEMMA WalkOn ==
    ASSUME NEW g \in Inputs, NEW d \in Nat, NEW x \in Walks(g)[d], NEW e \in RowEdges(g, x[1])
    PROVE  <<e[1], x[2] + e[2]>> \in Walks(g)[d + 1]
BY WalksDef DEF Longer

(* A walk to a vertex without a shorter one is empty, or comes by an edge. *)
LEMMA WalkLast ==
    ASSUME NEW g \in Inputs, NEW v, NEW l, <<v, l>> \in AllWalks(g)
    PROVE  \/ v = g.source /\ l = 0
           \/ \E x \in AllWalks(g) : \E e \in RowEdges(g, x[1]) : v = e[1] /\ l = x[2] + e[2]
<1> DEFINE T == {d \in Nat : <<v, l>> \in Walks(g)[d]}
<1>1. T # {}
  BY DEF AllWalks
<1>2. PICK d \in T : \A c \in T : d <= c
  BY <1>1, NatLeast
<1>3. CASE d = 0
  BY <1>2, <1>3, WalksDef
<1>4. CASE d # 0
  <2>1. d - 1 \in Nat /\ d - 1 \notin T /\ (d - 1) + 1 = d
    BY <1>2, <1>4
  <2>2. <<v, l>> \in Longer(g, Walks(g)[d - 1])
    BY <1>2, <2>1, WalksDef
  <2>3. Walks(g)[d - 1] \subseteq AllWalks(g)
    BY <2>1 DEF AllWalks
  <2> QED
    BY <2>2, <2>3 DEF Longer
<1> QED
  BY <1>3, <1>4

LEMMA NearGrows ==
    ASSUME NEW g \in Inputs, NEW k \in Nat,
           NEW v \in Nodes(g) \ Near(g, k), NEW l \in Nat, Least(g, v, l),
           \A u \in Nodes(g) \ Near(g, k) : \A m \in Nat : Least(g, u, m) => l <= m
    PROVE  v \in Near(g, k + 1)
<1>1. CASE v = g.source /\ l = 0
  <2>1. <<v, l>> \in Walks(g)[0]
    BY <1>1, WalksDef
  <2> DEFINE S == {c \in Nat : <<v, l>> \in Walks(g)[c]}
  <2>2. 0 \in S
    BY <2>1
  <2>3. \A c \in Nat : c \in S => c + 1 \in S
    BY WalksDef
  <2> HIDE DEF S
  <2>4. Nat \subseteq S
    BY <2>2, <2>3, NatInd
  <2> QED
    BY <2>4 DEF S, Near
<1>2. CASE \E x \in AllWalks(g) : \E e \in RowEdges(g, x[1]) : v = e[1] /\ l = x[2] + e[2]
  <2>1. PICK x \in AllWalks(g) : \E e \in RowEdges(g, x[1]) : v = e[1] /\ l = x[2] + e[2]
    BY <1>2
  <2>2. PICK e \in RowEdges(g, x[1]) : v = e[1] /\ l = x[2] + e[2]
    BY <2>1
  <2>3. x[1] \in Nodes(g) /\ x[2] \in Nat
    BY WalkIn
  <2>4. e[1] \in Nodes(g) /\ e[2] \in Nat \ {0}
    BY <2>3, EdgeFacts
  <2>5. PICK m \in Nat : Least(g, x[1], m) /\ m <= x[2]
    BY LeastExists
  <2>6. m < l
    BY <2>2, <2>3, <2>4, <2>5
  <2>7. x[1] \in Near(g, k)
    BY <2>3, <2>5, <2>6
  <2>8. PICK q \in Nat : Least(g, x[1], q) /\ <<x[1], q>> \in Walks(g)[k]
    BY <2>7 DEF Near
  <2>9. q <= m
    BY <2>5, <2>8 DEF Least
  <2>10. <<v, q + e[2]>> \in Walks(g)[k + 1]
    <3> DEFINE y == <<x[1], q>>
    <3>1. y \in Walks(g)[k] /\ y[1] = x[1] /\ y[2] = q
      BY <2>8
    <3> HIDE DEF y
    <3> QED
      BY <3>1, <2>2, WalkOn
  <2>11. <<v, q + e[2]>> \in AllWalks(g) /\ q + e[2] \in Nat
    BY <2>10, <2>4 DEF AllWalks
  <2>12. l = q + e[2]
    <3>1. l <= q + e[2]
      BY <2>11 DEF Least
    <3> QED
      BY <3>1, <2>2, <2>3, <2>4, <2>5, <2>9
  <2> QED
    BY <2>10, <2>12 DEF Near
<1> QED
  BY <1>1, <1>2, WalkLast DEF Least

LEMMA NodesCount ==
    ASSUME NEW g \in Inputs
    PROVE  /\ g.n - 1 \in Nat /\ (g.n - 1) + 1 = g.n
           /\ IsFiniteSet(Nodes(g)) /\ Cardinality(Nodes(g)) = g.n
<1>1. g.n \in Nat \ {0}
  BY EdgeFacts
<1>2. g.n - 1 \in Nat /\ (g.n - 1) + 1 = g.n
  BY <1>1
<1>3. IsFiniteSet(Nodes(g)) /\ Cardinality(Nodes(g)) = g.n
  <2>1. 0 \in Int /\ g.n - 1 \in Int /\ ~ (0 > g.n - 1) /\ (g.n - 1) - 0 + 1 = g.n
    BY <1>1
  <2>2. IsFiniteSet(0 .. g.n - 1) /\ Cardinality(0 .. g.n - 1) = (g.n - 1) - 0 + 1
    BY <2>1, FS_Interval
  <2> QED
    BY <2>1, <2>2 DEF Nodes
<1> QED
  BY <1>2, <1>3

LEMMA NearMonotone ==
    ASSUME NEW g \in Inputs, NEW k \in Nat
    PROVE  Near(g, k) \subseteq Near(g, k + 1)
BY WalksDef DEF Near

(* With k edges, every vertex has its shortest walk, or k + 1 of them.     *)
LEMMA NearCount ==
    ASSUME NEW g \in Inputs, NEW k \in Nat
    PROVE  \/ \A x \in AllWalks(g) : x[1] \in Near(g, k)
           \/ Cardinality(Near(g, k)) >= k + 1
<1> DEFINE Full(c) == \A x \in AllWalks(g) : x[1] \in Near(g, c)
           S == {c \in Nat : Full(c) \/ Cardinality(Near(g, c)) >= c + 1}
<1>0. \A c \in Nat : IsFiniteSet(Near(g, c)) /\ Cardinality(Near(g, c)) \in Nat
  <2>1. IsFiniteSet(Nodes(g))
    BY NodesCount
  <2>2. \A c \in Nat : Near(g, c) \subseteq Nodes(g)
    BY DEF Near
  <2> QED
    BY <2>1, <2>2, FS_Subset, FS_CardinalityType
<1>1. 0 \in S
  <2>1. <<g.source, 0>> \in Walks(g)[0] /\ g.source \in Nodes(g)
    BY WalksDef, EdgeFacts
  <2>2. Least(g, g.source, 0)
    BY <2>1 DEF Least, AllWalks
  <2>3. g.source \in Near(g, 0)
    BY <2>1, <2>2 DEF Near
  <2>4. Cardinality(Near(g, 0)) # 0
    BY <2>3, <1>0, FS_EmptySet
  <2> QED
    BY <2>4, <1>0
<1>2. ASSUME NEW c \in Nat, c \in S PROVE c + 1 \in S
  <2>1. CASE Full(c)
    BY <2>1, NearMonotone
  <2>2. CASE ~ Full(c) /\ Cardinality(Near(g, c)) >= c + 1
    <3> DEFINE T == {l \in Nat : \E v \in Nodes(g) \ Near(g, c) : Least(g, v, l)}
    <3>1. T # {}
      <4>1. PICK x \in AllWalks(g) : x[1] \notin Near(g, c)
        BY <2>2
      <4>2. x[1] \in Nodes(g)
        BY WalkIn
      <4> QED
        BY <4>1, <4>2, LeastExists
    <3>2. PICK l \in T : \A m \in T : l <= m
      BY <3>1, NatLeast
    <3>3. PICK v \in Nodes(g) \ Near(g, c) : Least(g, v, l)
      BY <3>2
    <3>4. v \in Near(g, c + 1)
      BY <3>2, <3>3, NearGrows
    <3>5. Near(g, c) \cup {v} \subseteq Near(g, c + 1)
      BY <3>4, NearMonotone
    <3>6. Cardinality(Near(g, c) \cup {v}) = Cardinality(Near(g, c)) + 1
      BY <1>0, <3>3, FS_AddElement
    <3>7. Cardinality(Near(g, c) \cup {v}) <= Cardinality(Near(g, c + 1))
      BY <1>0, <3>5, FS_Subset
    <3> QED
      BY <1>0, <2>2, <3>6, <3>7
  <2> QED
    BY <1>2, <2>1, <2>2
<1> HIDE DEF S
<1>3. Nat \subseteq S
  BY <1>1, <1>2, NatInd
<1> QED
  BY <1>3 DEF S

(* Walks of n - 1 edges are enough.                                        *)
LEMMA WalksEnough ==
    ASSUME NEW g \in Inputs, NEW x \in AllWalks(g)
    PROVE  \E y \in Walks(g)[g.n - 1] : y[1] = x[1] /\ y[2] \in Nat /\ y[2] <= x[2]
<1> DEFINE k == g.n - 1
<1>0. k \in Nat /\ k + 1 = g.n
  BY NodesCount
<1>1. x[1] \in Near(g, k)
  <2>1. CASE Cardinality(Near(g, k)) >= k + 1
    <3>1. IsFiniteSet(Nodes(g)) /\ Cardinality(Nodes(g)) = g.n
      BY NodesCount
    <3>2. Near(g, k) \subseteq Nodes(g)
      BY DEF Near
    <3>3. Near(g, k) = Nodes(g)
      BY <3>1, <3>2, <2>1, <1>0, FS_Subset, EdgeFacts, FS_CardinalityType
    <3> QED
      BY <3>3, WalkIn
  <2> QED
    BY <1>0, <2>1, NearCount
<1>2. PICK l \in Nat : Least(g, x[1], l) /\ <<x[1], l>> \in Walks(g)[k]
  BY <1>1 DEF Near
<1>3. l <= x[2]
  <2>1. x = <<x[1], x[2]>> /\ x[2] \in Nat
    BY WalkIn
  <2> QED
    BY <1>2, <2>1 DEF Least
<1> QED
  BY <1>2, <1>3

LEMMA ShortestFacts ==
    ASSUME NEW g \in Inputs
    PROVE  /\ Shortest(g) \in [Nodes(g) -> 0 .. kDistInf]
           /\ \A x \in AllWalks(g) : Shortest(g)[x[1]] <= x[2]
           /\ \A v \in Nodes(g) : \/ Shortest(g)[v] = kDistInf
                                  \/ <<v, Shortest(g)[v]>> \in AllWalks(g)
<1> DEFINE W == Walks(g)[g.n - 1]
           T(v) == {kDistInf} \cup {x[2] : x \in {y \in W : y[1] = v}}
<1>0. W \subseteq AllWalks(g) /\ W \subseteq Nodes(g) \X Nat
  BY NodesCount, WalksDef DEF AllWalks, Pairs
<1>1. Shortest(g) = [v \in Nodes(g) |-> Min(T(v))]
  BY DEF Shortest, Nodes
<1> HIDE DEF W
<1>2. ASSUME NEW v \in Nodes(g)
      PROVE  Min(T(v)) \in T(v) /\ T(v) \subseteq Nat /\ \A y \in T(v) : Min(T(v)) <= y
  <2>1. T(v) \subseteq Nat /\ T(v) # {}
    BY <1>0, BoundsAssumption
  <2> HIDE DEF T
  <2> QED
    BY <2>1, MinFacts
<1>3. ASSUME NEW v \in Nodes(g)
      PROVE  /\ Shortest(g)[v] \in 0 .. kDistInf
             /\ Shortest(g)[v] = kDistInf \/ <<v, Shortest(g)[v]>> \in AllWalks(g)
  <2>1. Shortest(g)[v] = Min(T(v)) /\ kDistInf \in T(v)
    BY <1>1
  <2>2. Shortest(g)[v] \in T(v) /\ Shortest(g)[v] \in Nat /\ Shortest(g)[v] <= kDistInf
    BY <1>2, <2>1
  <2>3. CASE \E y \in W : y[1] = v /\ Shortest(g)[v] = y[2]
    <3>1. PICK y \in W : y[1] = v /\ Shortest(g)[v] = y[2]
      BY <2>3
    <3>2. y = <<v, Shortest(g)[v]>>
      BY <1>0, <3>1
    <3> QED
      BY <1>0, <3>2, <2>2, BoundsAssumption
  <2>4. CASE Shortest(g)[v] = kDistInf
    BY <2>2, <2>4, BoundsAssumption
  <2> QED
    BY <2>2, <2>3, <2>4
<1>4. ASSUME NEW x \in AllWalks(g)
      PROVE  Shortest(g)[x[1]] <= x[2]
  <2>1. PICK y \in W : y[1] = x[1] /\ y[2] \in Nat /\ y[2] <= x[2]
    BY WalksEnough DEF W
  <2>2. x[1] \in Nodes(g) /\ x[2] \in Nat
    BY WalkIn
  <2>3. y[2] \in T(x[1])
    BY <2>1
  <2>4. Shortest(g)[x[1]] <= y[2] /\ Shortest(g)[x[1]] \in Nat
    BY <1>1, <1>2, <1>3, <2>2, <2>3
  <2> QED
    BY <2>1, <2>2, <2>4
<1> QED
  BY <1>1, <1>3, <1>4

(* No edge shortens a shortest walk.                                       *)
LEMMA ShortestFeasible ==
    ASSUME NEW g \in Inputs
    PROVE  /\ Shortest(g)[g.source] = 0
           /\ \A u \in Nodes(g) : \A e \in RowEdges(g, u) :
                Shortest(g)[e[1]] <= Shortest(g)[u] + e[2]
<1>1. Shortest(g)[g.source] = 0
  <2> DEFINE x == <<g.source, 0>>
  <2>1. x \in AllWalks(g) /\ x[1] = g.source /\ x[2] = 0
    BY WalksDef DEF AllWalks
  <2> HIDE DEF x
  <2>2. Shortest(g)[g.source] <= 0
    BY <2>1, ShortestFacts
  <2>3. Shortest(g)[g.source] \in 0 .. kDistInf
    BY ShortestFacts, EdgeFacts
  <2> QED
    BY <2>2, <2>3
<1>2. ASSUME NEW u \in Nodes(g), NEW e \in RowEdges(g, u)
      PROVE  Shortest(g)[e[1]] <= Shortest(g)[u] + e[2]
  <2>1. e[1] \in Nodes(g) /\ e[2] \in Nat
    BY EdgeFacts
  <2>2. Shortest(g)[u] \in 0 .. kDistInf /\ Shortest(g)[e[1]] \in 0 .. kDistInf
    BY ShortestFacts, <2>1
  <2>3. CASE Shortest(g)[u] = kDistInf
    BY <2>1, <2>2, <2>3, BoundsAssumption
  <2>4. CASE <<u, Shortest(g)[u]>> \in AllWalks(g)
    <3> DEFINE x == <<u, Shortest(g)[u]>>
               y == <<e[1], x[2] + e[2]>>
    <3>1. PICK d \in Nat : x \in Walks(g)[d]
      BY <2>4, WalkIn
    <3>2. x[1] = u /\ x[2] = Shortest(g)[u]
      OBVIOUS
    <3> HIDE DEF x
    <3>3. y \in Walks(g)[d + 1]
      BY <3>1, <3>2, WalkOn
    <3>4. y \in AllWalks(g)
      BY <3>3 DEF AllWalks
    <3>5. y[1] = e[1] /\ y[2] = Shortest(g)[u] + e[2]
      BY <3>2
    <3> HIDE DEF y
    <3>6. Shortest(g)[y[1]] <= y[2]
      BY <3>4, ShortestFacts
    <3> QED
      BY <3>5, <3>6
  <2> QED
    BY <2>3, <2>4, ShortestFacts
<1> QED
  BY <1>1, <1>2

(* Distances that only edges from f on can still lower are exact below f.  *)
LEMMA SettledBelow ==
    ASSUME NEW g \in Inputs, NEW D \in [Nodes(g) -> Nat], NEW f \in Nat,
           D[g.source] = 0,
           \A u \in Nodes(g) : \A e \in RowEdges(g, u) : D[u] + e[2] < D[e[1]] => D[u] >= f
    PROVE  \A x \in AllWalks(g) : D[x[1]] <= x[2] \/ x[2] >= f
<1> DEFINE Fine(x) == D[x[1]] <= x[2] \/ x[2] >= f
           S == {d \in Nat : \A x \in Walks(g)[d] : Fine(x)}
<1>1. 0 \in S
  <2>1. ASSUME NEW x \in Walks(g)[0] PROVE Fine(x)
    <3>1. x = <<g.source, 0>>
      BY WalksDef
    <3> QED
      BY <3>1
  <2> QED
    BY <2>1
<1>2. ASSUME NEW d \in Nat, d \in S PROVE d + 1 \in S
  <2>1. ASSUME NEW x \in Walks(g)[d], NEW e \in RowEdges(g, x[1])
        PROVE  Fine(<<e[1], x[2] + e[2]>>)
    <3>1. x[1] \in Nodes(g) /\ x[2] \in Nat
      BY WalksDef DEF Pairs
    <3>2. e[1] \in Nodes(g) /\ e[2] \in Nat \ {0}
      BY <3>1, EdgeFacts
    <3>3. Fine(x)
      BY <1>2
    <3>4. D[x[1]] \in Nat /\ D[e[1]] \in Nat
      BY <3>1, <3>2
    <3>5. D[x[1]] + e[2] < D[e[1]] => D[x[1]] >= f
      BY <3>1
    <3>6. D[e[1]] <= x[2] + e[2] \/ x[2] + e[2] >= f
      BY <3>1, <3>2, <3>3, <3>4, <3>5
    <3> QED
      BY <3>6
  <2>2. Walks(g)[d + 1] = Walks(g)[d] \cup Longer(g, Walks(g)[d])
    BY WalksDef
  <2>3. \A x \in Longer(g, Walks(g)[d]) : Fine(x)
    BY <2>1 DEF Longer
  <2>4. \A x \in Walks(g)[d] : Fine(x)
    BY <1>2
  <2> HIDE DEF Fine
  <2> QED
    BY <2>2, <2>3, <2>4
<1> HIDE DEF S
<1>3. Nat \subseteq S
  BY <1>1, <1>2, NatInd
<1> QED
  BY <1>3 DEF S, AllWalks

-----------------------------------------------------------------------------
(* What holds in every state, of the invariant's parts.                    *)

LEMMA InputFacts ==
    ASSUME TypeOK
    PROVE  /\ input \in Inputs /\ V = Nodes(input) /\ \A u : out_neigh(u) = input.out_neigh[u]
           /\ input.delta \in Nat \ {0} /\ input.source \in V /\ Bins \subseteq Nat
           /\ kDistInf \in Nat /\ kMaxBin \in Nat /\ kMaxBin > kDistInf
           /\ \A u \in V : /\ out_neigh(u) \in Seq(V \X (Nat \ {0}))
                           /\ ToSet(out_neigh(u)) \subseteq V \X (Nat \ {0})
<1>1. input \in Inputs
  BY DEF TypeOK
<1>2. V = Nodes(input) /\ \A u : out_neigh(u) = input.out_neigh[u]
  BY DEF V, Nodes, out_neigh
<1>3. Bins \subseteq Nat
  BY DEF Bins
<1> QED
  BY <1>1, <1>2, <1>3, EdgeFacts, BoundsAssumption DEF RowEdges

LEMMA BinOf ==
    ASSUME TypeOK, NEW d \in 0 .. kDistInf
    PROVE  d \div input.delta \in Bins
<1>1. d \in Nat /\ d <= kDistInf /\ kDistInf \in Nat /\ input.delta \in Nat \ {0}
  BY BoundsAssumption, InputFacts
<1>2. d \div input.delta <= kDistInf \div input.delta /\ d \div input.delta \in Nat
      /\ kDistInf \div input.delta \in Nat
  BY <1>1, DivMono, DivFacts
<1> QED
  BY <1>2 DEF Bins

LEMMA FloorFacts ==
    ASSUME TypeOK, NEW t \in Threads
    PROVE  /\ Now(t) \in 0 .. 1 /\ curr(t) \in 0 .. 1 /\ next(t) \in 0 .. 1 /\ next(t) # curr(t)
           /\ Idx(t) \in Nat /\ Floor(t) \in Nat /\ Idx(t) \in Bins \cup {kMaxBin}
           /\ Idx(t) = kMaxBin => Floor(t) > kDistInf
<1>1. iter[t] \in 0 .. 1
  BY DEF TypeOK
<1>2. curr(t) \in 0 .. 1 /\ next(t) \in 0 .. 1 /\ next(t) # curr(t)
  BY <1>1 DEF curr, next
<1>3. Now(t) \in 0 .. 1
  BY <1>2 DEF Now
<1>4. Idx(t) \in Bins \cup {kMaxBin}
  BY <1>3 DEF Idx, TypeOK
<1>5. Idx(t) \in Nat /\ input.delta \in Nat \ {0} /\ kMaxBin \in Nat /\ kMaxBin > kDistInf
      /\ kDistInf \in Nat
  BY <1>4, InputFacts
<1>6. \A d \in Nat \ {0}, i \in Nat : d * i \in Nat /\ d * i >= i
  OBVIOUS
<1>7. Floor(t) \in Nat /\ Floor(t) >= Idx(t)
  BY <1>5, <1>6 DEF Floor
<1> QED
  BY <1>2, <1>3, <1>4, <1>5, <1>7

LEMMA HeadTail ==
    ASSUME NEW S, NEW q \in Seq(S), q # <<>>
    PROVE  /\ Head(q) \in S /\ Tail(q) \in Seq(S)
           /\ ToSet(q) = {Head(q)} \cup ToSet(Tail(q))
<1>1. Head(q) \in S /\ Tail(q) \in Seq(S)
  OBVIOUS
<1>2. Head(q) = q[1] /\ 1 \in DOMAIN q
  OBVIOUS
<1>3. \A i \in DOMAIN Tail(q) : i + 1 \in DOMAIN q /\ Tail(q)[i] = q[i + 1]
  OBVIOUS
<1>4. \A i \in DOMAIN q : i = 1 \/ (i - 1 \in DOMAIN Tail(q) /\ Tail(q)[i - 1] = q[i])
  OBVIOUS
<1> DEFINE h == Head(q)
           r == Tail(q)
<1> HIDE DEF h, r
<1>5. \A x : x \in ToSet(q) => x = h \/ x \in ToSet(r)
  <2> SUFFICES ASSUME NEW i \in DOMAIN q PROVE q[i] = h \/ q[i] \in ToSet(r)
    BY DEF ToSet
  <2>1. CASE i = 1
    BY <1>2, <2>1 DEF h
  <2>2. CASE i - 1 \in DOMAIN r /\ r[i - 1] = q[i]
    BY <2>2 DEF ToSet
  <2> QED
    BY <1>4, <2>1, <2>2 DEF r
<1>6. h \in ToSet(q)
  BY <1>2 DEF ToSet, h
<1>7. \A x : x \in ToSet(r) => x \in ToSet(q)
  BY <1>3 DEF ToSet, r
<1>8. ToSet(q) = {h} \cup ToSet(r)
  BY <1>5, <1>6, <1>7
<1> QED
  BY <1>1, <1>8 DEF h, r

LEMMA AppendSet ==
    ASSUME NEW S, NEW q \in Seq(S), NEW x \in S
    PROVE  Append(q, x) \in Seq(S) /\ ToSet(Append(q, x)) = ToSet(q) \cup {x}
<1> DEFINE r == Append(q, x)
<1>1. /\ r \in Seq(S) /\ DOMAIN r = DOMAIN q \cup {Len(q) + 1} /\ r[Len(q) + 1] = x
      /\ \A i \in DOMAIN q : r[i] = q[i]
  OBVIOUS
<1> HIDE DEF r
<1>2. \A y : y \in ToSet(r) => y = x \/ y \in ToSet(q)
  BY <1>1 DEF ToSet
<1>3. \A y : y = x \/ y \in ToSet(q) => y \in ToSet(r)
  BY <1>1 DEF ToSet
<1>4. ToSet(r) = ToSet(q) \cup {x}
  BY <1>2, <1>3
<1> QED
  BY <1>1, <1>4 DEF r

LEMMA EmptySet ==
    ASSUME NEW S, NEW q \in Seq(S)
    PROVE  q = <<>> <=> ToSet(q) = {}
<1>1. q = <<>> <=> DOMAIN q = {}
  OBVIOUS
<1> QED
  BY <1>1 DEF ToSet

(* In a thread's hands while it relaxes an edge.                           *)
LEMMA EdgeInHands ==
    ASSUME TypeOK, NEW t \in Threads, todo[t] # <<>>
    PROVE  /\ v_(t) \in V /\ w_(t) \in Nat \ {0}
           /\ Head(todo[t]) = <<v_(t), w_(t)>>
           /\ ToSet(todo[t]) = {Head(todo[t])} \cup ToSet(Tail(todo[t]))
           /\ Tail(todo[t]) \in Seq(V \X (Nat \ {0}))
<1>1. todo[t] \in Seq(V \X (Nat \ {0}))
  BY DEF TypeOK
<1>2. /\ Head(todo[t]) \in V \X (Nat \ {0}) /\ Tail(todo[t]) \in Seq(V \X (Nat \ {0}))
      /\ ToSet(todo[t]) = {Head(todo[t])} \cup ToSet(Tail(todo[t]))
  BY <1>1, HeadTail
<1> QED
  BY <1>2 DEF v_, w_

-----------------------------------------------------------------------------
(* Types.                                                                  *)

PCs == {"loop", "take", "edge", "new", "cas", "again", "barrier1", "single", "reserve", "copy",
        "barrier2", "end"}

(* The frontier's array is as long as there are edges: one at least.       *)
LEMMA EdgesCount ==
    ASSUME input \in Inputs
    PROVE  IsFiniteSet(Edges) /\ num_edges_directed \in Nat \ {0}
<1>1. V = Nodes(input) /\ \A u : out_neigh(u) = input.out_neigh[u]
  BY DEF V, Nodes, out_neigh
<1>2. IsFiniteSet(V)
  <2>0. input.n \in Nat
    BY EdgeFacts, Zenon
  <2>1. input.n - 1 \in Int /\ 0 \in Int
    BY <2>0
  <2>2. IsFiniteSet(0 .. input.n - 1)
    BY <2>1, FS_Interval
  <2> QED
    BY <2>2 DEF V
<1>3. ASSUME NEW u \in V PROVE IsFiniteSet({u} \X DOMAIN out_neigh(u))
  <2>1. out_neigh(u) \in Seq(Nodes(input) \X (Nat \ {0}))
    BY <1>1, EdgeFacts
  <2>2. DOMAIN out_neigh(u) = 1 .. Len(out_neigh(u)) /\ Len(out_neigh(u)) \in Int /\ 1 \in Int
    BY <2>1
  <2>4. IsFiniteSet(1 .. Len(out_neigh(u)))
    BY <2>2, FS_Interval
  <2>3. IsFiniteSet(DOMAIN out_neigh(u)) /\ IsFiniteSet({u})
    BY <2>2, <2>4, FS_Singleton
  <2> QED
    BY <2>3, FS_Product
<1> DEFINE T == {{u} \X DOMAIN out_neigh(u) : u \in V}
           f == [u \in V |-> {u} \X DOMAIN out_neigh(u)]
<1>4. f \in Surjection(V, T)
  BY DEF Surjection
<1>5. \A S \in T : IsFiniteSet(S)
  BY <1>3
<1> HIDE DEF T, f
<1>6. IsFiniteSet(T)
  BY <1>2, <1>4, FS_Surjection
<1>7. IsFiniteSet(UNION T)
  BY <1>5, <1>6, FS_UNION
<1>8. IsFiniteSet(Edges)
  BY <1>7 DEF Edges, T
<1>9. PICK u \in V : out_neigh(u) # <<>>
  BY <1>1, InputsAssumption DEF Nodes
<1>10. out_neigh(u) \in Seq(Nodes(input) \X (Nat \ {0}))
  BY <1>1, EdgeFacts
<1>11. 1 \in DOMAIN out_neigh(u)
  BY <1>9, <1>10
<1>12. <<u, 1>> \in Edges
  BY <1>11 DEF Edges
<1> QED
  BY <1>8, <1>12, FS_CardinalityType, FS_EmptySet DEF num_edges_directed

LEMMA SameInput ==
    ASSUME input' = input
    PROVE  /\ V' = V /\ Bins' = Bins /\ \A u : out_neigh(u)' = out_neigh(u)
           /\ num_edges_directed' = num_edges_directed
<1>1. V' = V /\ Bins' = Bins /\ \A u : out_neigh(u)' = out_neigh(u)
  BY DEF V, Bins, out_neigh
<1>2. Edges' = Edges
  BY DEF Edges, V, out_neigh
<1> QED
  BY <1>1, <1>2 DEF num_edges_directed

LEMMA TypeInit ==
    Init => TypeOK
<1> SUFFICES ASSUME Init PROVE TypeOK
  OBVIOUS
<1>1. input \in Inputs /\ V = Nodes(input) /\ Bins \subseteq Nat /\ kDistInf \in Nat /\ kMaxBin \in Nat
  BY BoundsAssumption DEF Init, V, Nodes, Bins
<1>2. input.source \in V /\ input.n \in Nat \ {0} /\ 0 \in V
  <2>1. input.source \in V /\ input.n \in Nat \ {0}
    BY <1>1, EdgeFacts
  <2> QED
    BY <2>1 DEF V
<1>0. 0 \in 0 .. num_edges_directed - 1
  BY <1>1, EdgesCount
<1>3. 0 \in Bins
  <2>1. input.delta \in Nat \ {0}
    BY <1>1, EdgeFacts
  <2>2. kDistInf \div input.delta \in Nat
    BY <2>1, <1>1, DivFacts
  <2> QED
    BY <2>2 DEF Bins
<1>4. dist \in [V -> 0 .. kDistInf]
  BY <1>1, <1>2 DEF Init
<1>5. DOMAIN frontier = {0} /\ frontier \in [{0} -> V]
  BY <1>2 DEF Init
<1>6. shared_indexes \in [0 .. 1 -> Bins \cup {kMaxBin}] /\ frontier_tails \in [0 .. 1 -> Nat]
  BY <1>3 DEF Init
<1>7. local_bins \in [Threads -> [Bins -> Seq(V)]] /\ curr_bin_copy \in [Threads -> Seq(V)]
      /\ todo \in [Threads -> Seq(V \X (Nat \ {0}))]
  BY DEF Init, Each
<1>8. /\ iter \in [Threads -> 0 .. 1] /\ pc \in [Threads -> PCs] /\ at \in [Threads -> V]
      /\ old_dist \in [Threads -> Nat] /\ new_dist \in [Threads -> Nat]
      /\ copy_start \in [Threads -> Nat] /\ work = {0}
  BY <1>2 DEF Init, Each, PCs
<1> QED
  BY <1>0, <1>1, <1>4, <1>5, <1>6, <1>7, <1>8 DEF TypeOK, PCs

LEMMA RelaxType ==
    ASSUME TypeOK, input' = input, NEW t \in Threads, NEW u \in V, Relax(t, u)
    PROVE  /\ at' \in [Threads -> V'] /\ todo' \in [Threads -> Seq(V' \X (Nat \ {0}))]
           /\ pc' \in [Threads -> PCs]
BY InputFacts, SameInput DEF TypeOK, Relax, PCs

LEMMA CompareType ==
    ASSUME TypeOK, input' = input, NEW t \in Threads, todo[t] # <<>>,
           NEW new, NEW old, Compare(t, new, old)
    PROVE  todo' \in [Threads -> Seq(V' \X (Nat \ {0}))] /\ pc' \in [Threads -> PCs]
BY EdgeInHands, SameInput DEF TypeOK, Compare, NextEdge, PCs

(* The steps that leave frontier, bins, work and distances alone.          *)
Quiet(t) == LoopTest(t) \/ Relaxed(t) \/ ReadOld(t) \/ ReadNew(t) \/ ReadAgain(t)

LEMMA QuietType ==
    ASSUME TypeOK, Hands, NEW t \in Threads, Quiet(t), UNCHANGED <<input, shared, iter, copy_start>>
    PROVE  TypeOK'
<1> USE DEF shared
<1>1. V' = V /\ Bins' = Bins /\ num_edges_directed' = num_edges_directed /\ UNCHANGED <<dist, work, local_bins>>
  BY SameInput DEF Quiet, LoopTest, Relaxed, ReadOld, ReadNew, ReadAgain
<1>2. /\ pc' \in [Threads -> PCs]
      /\ at' \in [Threads -> V] /\ todo' \in [Threads -> Seq(V \X (Nat \ {0}))]
      /\ curr_bin_copy' \in [Threads -> Seq(V)]
      /\ old_dist' \in [Threads -> Nat] /\ new_dist' \in [Threads -> Nat]
  <2>1. CASE LoopTest(t)
    BY <2>1 DEF LoopTest, TypeOK, relaxing, PCs
  <2>2. CASE Relaxed(t)
    <3>1. curr_bin_copy[t] \in Seq(V)
      BY DEF TypeOK
    <3>2. CASE curr_bin_copy[t] = <<>>
      BY <2>2, <3>2 DEF Relaxed, TypeOK, PCs
    <3>3. CASE curr_bin_copy[t] # <<>>
      <4>1. Head(curr_bin_copy[t]) \in V /\ Tail(curr_bin_copy[t]) \in Seq(V)
        BY <3>1, <3>3
      <4>2. /\ Relax(t, Head(curr_bin_copy[t]))
            /\ curr_bin_copy' = [curr_bin_copy EXCEPT ![t] = Tail(@)]
            /\ UNCHANGED <<old_dist, new_dist>>
        BY <2>2, <3>3 DEF Relaxed
      <4> QED
        BY <4>1, <4>2, <1>1, RelaxType DEF TypeOK
    <3> QED
      BY <3>2, <3>3
  <2>3. CASE ReadOld(t)
    <3>1. todo[t] # <<>> /\ v_(t) \in V
      BY <2>3, EdgeInHands DEF ReadOld
    <3>2. dist[v_(t)] \in Nat
      BY <3>1, BoundsAssumption DEF TypeOK
    <3> QED
      BY <2>3, <3>2 DEF ReadOld, TypeOK, PCs
  <2>4. CASE ReadNew(t)
    <3>1. todo[t] # <<>> /\ w_(t) \in Nat
      BY <2>4, EdgeInHands DEF ReadNew, Hands
    <3>2. dist[at[t]] \in Nat
      BY BoundsAssumption DEF TypeOK
    <3>3. dist[at[t]] + w_(t) \in Nat
      BY <3>1, <3>2
    <3>4. Compare(t, dist[at[t]] + w_(t), old_dist[t])
          /\ new_dist' = [new_dist EXCEPT ![t] = dist[at[t]] + w_(t)]
          /\ UNCHANGED <<at, old_dist, curr_bin_copy>>
      BY <2>4 DEF ReadNew
    <3> QED
      BY <1>1, <3>1, <3>3, <3>4, CompareType DEF TypeOK
  <2>5. CASE ReadAgain(t)
    <3>1. todo[t] # <<>> /\ v_(t) \in V
      BY <2>5, EdgeInHands DEF ReadAgain, Hands
    <3>2. dist[v_(t)] \in Nat
      BY <3>1, BoundsAssumption DEF TypeOK
    <3>3. Compare(t, new_dist[t], dist[v_(t)])
          /\ old_dist' = [old_dist EXCEPT ![t] = dist[v_(t)]]
          /\ UNCHANGED <<at, new_dist, curr_bin_copy>>
      BY <2>5 DEF ReadAgain
    <3> QED
      BY <1>1, <3>1, <3>2, <3>3, CompareType DEF TypeOK
  <2> QED
    BY <2>1, <2>2, <2>3, <2>4, <2>5 DEF Quiet
<1> QED
  BY <1>1, <1>2 DEF TypeOK, PCs

(* A swap that succeeds.                                                   *)
Lowers(t) ==
    /\ dist[v_(t)] = old_dist[t]
    /\ dist' = [dist EXCEPT ![v_(t)] = new_dist[t]]
    /\ local_bins' = [local_bins EXCEPT ![t][new_dist[t] \div input.delta] = Append(@, v_(t))]
    /\ NextEdge(t)

LEMMA LowersFacts ==
    ASSUME TypeOK, Hands, Bounds, NEW t \in Threads, pc[t] = "cas", Lowers(t)
    PROVE  /\ v_(t) \in V /\ new_dist[t] < dist[v_(t)] /\ new_dist[t] \in 0 .. kDistInf
           /\ new_dist[t] \div input.delta \in Bins
           /\ \A v \in V : dist'[v] <= dist[v] /\ (v # v_(t) => dist'[v] = dist[v])
           /\ dist'[v_(t)] = new_dist[t]
           /\ dist' \in [V -> 0 .. kDistInf]
           /\ local_bins' \in [Threads -> [Bins -> Seq(V)]]
           /\ \A x \in Threads : x # t => local_bins'[x] = local_bins[x]
           /\ \A b \in Bins : /\ b # new_dist[t] \div input.delta => local_bins'[t][b] = local_bins[t][b]
                              /\ b = new_dist[t] \div input.delta =>
                                   /\ local_bins'[t][b] # <<>>
                                   /\ ToSet(local_bins'[t][b]) = ToSet(local_bins[t][b]) \cup {v_(t)}
<1>1. todo[t] # <<>> /\ new_dist[t] < old_dist[t]
  BY DEF Hands, Bounds
<1>2. v_(t) \in V
  BY <1>1, EdgeInHands
<1>3. dist[v_(t)] \in 0 .. kDistInf /\ new_dist[t] \in Nat /\ kDistInf \in Nat
  BY <1>2, BoundsAssumption DEF TypeOK
<1>4. new_dist[t] < dist[v_(t)] /\ new_dist[t] \in 0 .. kDistInf
  BY <1>1, <1>3 DEF Lowers
<1> DEFINE b == new_dist[t] \div input.delta
<1>5. b \in Bins
  BY <1>4, BinOf
<1>6. dist \in [V -> 0 .. kDistInf] /\ dist' = [dist EXCEPT ![v_(t)] = new_dist[t]]
  BY DEF TypeOK, Lowers
<1>7. \A v \in V : dist[v] \in Nat
  BY <1>3, <1>6
<1>8. /\ \A v \in V : dist'[v] <= dist[v] /\ (v # v_(t) => dist'[v] = dist[v])
      /\ dist'[v_(t)] = new_dist[t]
      /\ dist' \in [V -> 0 .. kDistInf]
  BY <1>2, <1>4, <1>6, <1>7
<1> HIDE DEF b
<1>9. local_bins \in [Threads -> [Bins -> Seq(V)]]
      /\ local_bins' = [local_bins EXCEPT ![t][b] = Append(@, v_(t))]
  BY DEF TypeOK, Lowers, b
<1>10. local_bins[t][b] \in Seq(V)
  BY <1>5, <1>9
<1>11. Append(local_bins[t][b], v_(t)) \in Seq(V)
       /\ ToSet(Append(local_bins[t][b], v_(t))) = ToSet(local_bins[t][b]) \cup {v_(t)}
       /\ Append(local_bins[t][b], v_(t)) # <<>>
  BY <1>2, <1>10, AppendSet
<1>12. /\ local_bins'[t][b] = Append(local_bins[t][b], v_(t))
       /\ \A c \in Bins : c # b => local_bins'[t][c] = local_bins[t][c]
       /\ \A x \in Threads : x # t => local_bins'[x] = local_bins[x]
       /\ local_bins' \in [Threads -> [Bins -> Seq(V)]]
  BY <1>5, <1>9, <1>11
<1> QED
  BY <1>2, <1>4, <1>5, <1>8, <1>11, <1>12 DEF b

LEMMA SwapCases ==
    ASSUME NEW t \in Threads, Swap(t)
    PROVE  /\ pc[t] = "cas" /\ UNCHANGED <<work, curr_bin_copy, at, old_dist, new_dist>>
           /\ \/ Lowers(t)
              \/ pc' = [pc EXCEPT ![t] = "again"] /\ UNCHANGED <<dist, local_bins, todo>>
BY DEF Swap, Lowers

LEMMA SwapType ==
    ASSUME TypeOK, Hands, Bounds, NEW t \in Threads, Swap(t),
           UNCHANGED <<input, shared, iter, copy_start>>
    PROVE  TypeOK'
<1> USE DEF shared
<1>1. V' = V /\ Bins' = Bins /\ num_edges_directed' = num_edges_directed /\ UNCHANGED <<work, curr_bin_copy, at, old_dist, new_dist>>
  BY SameInput, SwapCases
<1>2. CASE Lowers(t)
  <2>1. pc[t] = "cas" /\ NextEdge(t)
    BY <1>2, SwapCases DEF Lowers
  <2>2. todo[t] # <<>>
    BY <2>1 DEF Hands
  <2>3. Tail(todo[t]) \in Seq(V \X (Nat \ {0}))
    BY <2>2, EdgeInHands
  <2>4. todo' \in [Threads -> Seq(V \X (Nat \ {0}))] /\ pc' \in [Threads -> PCs]
    BY <2>1, <2>3 DEF NextEdge, TypeOK, PCs
  <2>5. dist' \in [V -> 0 .. kDistInf] /\ local_bins' \in [Threads -> [Bins -> Seq(V)]]
    BY <1>2, <2>1, LowersFacts
  <2> QED
    BY <1>1, <2>4, <2>5 DEF TypeOK, PCs
<1>3. CASE pc' = [pc EXCEPT ![t] = "again"] /\ UNCHANGED <<dist, local_bins, todo>>
  BY <1>1, <1>3 DEF TypeOK
<1> QED
  BY <1>2, <1>3, SwapCases

LEMMA TakeType ==
    ASSUME TypeOK, NEW t \in Threads, Take(t), UNCHANGED <<input, shared, iter, copy_start>>
    PROVE  TypeOK'
<1> USE DEF shared
<1>1. V' = V /\ Bins' = Bins /\ num_edges_directed' = num_edges_directed
      /\ UNCHANGED <<dist, local_bins, curr_bin_copy, old_dist, new_dist>>
  BY SameInput DEF Take
<1>2. PICK i \in work :
         /\ work' = work \ {i}
         /\ IF dist[frontier[i]] >= input.delta * shared_indexes[curr(t)]
            THEN Relax(t, frontier[i]) ELSE UNCHANGED <<pc, at, todo>>
  BY DEF Take
<1>3. frontier[i] \in V /\ work' \in SUBSET (DOMAIN frontier)
  BY <1>2 DEF TypeOK
<1>4. CASE Relax(t, frontier[i])
  BY <1>1, <1>3, <1>4, RelaxType DEF TypeOK, PCs
<1>5. CASE UNCHANGED <<pc, at, todo>>
  BY <1>1, <1>3, <1>5 DEF TypeOK
<1> QED
  BY <1>2, <1>4, <1>5

(* The bin that the thread empties by itself is one.                       *)
LEMMA OwnFacts ==
    ASSUME TypeOK, Together, NEW t \in Threads, pc[t] = "take"
    PROVE  /\ Idx(t) = shared_indexes[curr(t)] /\ Idx(t) \in Bins
           /\ Own(t) = local_bins[t][Idx(t)] /\ Own(t) \in Seq(V)
<1>1. Idx(t) = shared_indexes[curr(t)] /\ Idx(t) # kMaxBin
  BY DEF Together, Idx, Now
<1>2. Idx(t) \in Bins
  BY <1>1, FloorFacts
<1> QED
  BY <1>1, <1>2 DEF Own, TypeOK

LEMMA TakeOwnType ==
    ASSUME TypeOK, Together, NEW t \in Threads, TakeOwn(t),
           UNCHANGED <<input, shared, iter, copy_start>>
    PROVE  TypeOK'
<1> USE DEF shared
<1>1. V' = V /\ Bins' = Bins /\ num_edges_directed' = num_edges_directed /\ UNCHANGED <<dist, work, old_dist, new_dist>>
  BY SameInput DEF TakeOwn
<1>2. Own(t) # <<>> /\ Own(t) \in Seq(V) /\ Idx(t) \in Bins /\ Idx(t) = shared_indexes[curr(t)]
  BY OwnFacts DEF TakeOwn
<1>3. Head(Own(t)) \in V /\ Tail(Own(t)) \in Seq(V)
  BY <1>2, HeadTail
<1>4. /\ Relax(t, Head(Own(t)))
      /\ local_bins' = [local_bins EXCEPT ![t][Idx(t)] = <<>>]
      /\ curr_bin_copy' = [curr_bin_copy EXCEPT ![t] = Tail(Own(t))]
  BY <1>2 DEF TakeOwn
<1>5. curr_bin_copy' \in [Threads -> Seq(V)]
  BY <1>3, <1>4 DEF TypeOK
<1>6. local_bins' \in [Threads -> [Bins -> Seq(V)]]
  <2>1. local_bins \in [Threads -> [Bins -> Seq(V)]] /\ <<>> \in Seq(V)
    BY DEF TypeOK
  <2> QED
    BY <1>2, <1>4, <2>1
<1>7. at' \in [Threads -> V] /\ todo' \in [Threads -> Seq(V \X (Nat \ {0}))] /\ pc' \in [Threads -> PCs]
  BY <1>1, <1>3, <1>4, RelaxType
<1> QED
  BY <1>1, <1>5, <1>6, <1>7 DEF TypeOK, PCs

(* What is proposed is a filled bin or what had been, and at most both.    *)
LEMMA ProposeFacts ==
    ASSUME TypeOK, NEW t \in Threads, Propose(t)
    PROVE  LET p == shared_indexes'[next(t)]
           IN  /\ p \in Filled(t) \cup {shared_indexes[next(t)]} /\ p \in Bins \cup {kMaxBin}
               /\ p <= shared_indexes[next(t)]
               /\ \A i \in Filled(t) : p <= i
               /\ shared_indexes' = [shared_indexes EXCEPT ![next(t)] = p]
<1> DEFINE T == Filled(t) \cup {shared_indexes[next(t)]}
<1>1. next(t) \in 0 .. 1 /\ Bins \subseteq Nat /\ kMaxBin \in Nat
  BY FloorFacts, InputFacts
<1>2. shared_indexes[next(t)] \in Bins \cup {kMaxBin} /\ Filled(t) \subseteq Bins
  BY <1>1 DEF TypeOK, Filled
<1>3. T \in SUBSET Nat /\ T # {}
  BY <1>1, <1>2
<1>4. Min(T) \in T /\ \A y \in T : Min(T) <= y
  BY <1>3, MinFacts
<1>5. shared_indexes' = [shared_indexes EXCEPT ![next(t)] = Min(T)]
  BY DEF Propose
<1> HIDE DEF T
<1>6. shared_indexes'[next(t)] = Min(T)
  BY <1>1, <1>5 DEF TypeOK
<1> QED
  BY <1>2, <1>4, <1>5, <1>6 DEF T

LEMMA ProposeType ==
    ASSUME TypeOK, NEW t \in Threads, Propose(t)
    PROVE  TypeOK'
<1>1. V' = V /\ Bins' = Bins /\ num_edges_directed' = num_edges_directed
  BY SameInput DEF Propose
<1>2. next(t) \in 0 .. 1
  BY FloorFacts
<1>3. shared_indexes' \in [0 .. 1 -> Bins \cup {kMaxBin}]
  BY <1>2, ProposeFacts DEF TypeOK
<1>4. pc' \in [Threads -> PCs]
  BY DEF TypeOK, PCs, Propose
<1> QED
  BY <1>1, <1>3, <1>4 DEF TypeOK, PCs, Propose, relaxing

LEMMA Barrier1Type ==
    ASSUME TypeOK, Barrier1
    PROVE  TypeOK'
<1>1. V' = V /\ Bins' = Bins /\ num_edges_directed' = num_edges_directed
  BY SameInput DEF Barrier1
<1>2. pc' \in [Threads -> PCs]
  BY DEF Barrier1, Each, PCs
<1> QED
  BY <1>1, <1>2 DEF TypeOK, PCs, Barrier1, shared, relaxing

LEMMA SingleType ==
    ASSUME TypeOK, NEW t \in Threads, Single(t),
           UNCHANGED <<input, dist, work, curr_bin_copy, relaxing>>
    PROVE  TypeOK'
<1>1. V' = V /\ Bins' = Bins /\ num_edges_directed' = num_edges_directed
  BY SameInput
<1>2. curr(t) \in 0 .. 1
  BY FloorFacts
<1>3. pc' \in [Threads -> PCs] /\ shared_indexes' \in [0 .. 1 -> Bins \cup {kMaxBin}]
      /\ frontier_tails' \in [0 .. 1 -> Nat]
  BY <1>2 DEF Single, PCs, TypeOK
<1> QED
  BY <1>1, <1>3 DEF TypeOK, PCs, Single, relaxing

LEMMA PartFacts ==
    ASSUME TypeOK, NEW t \in Threads
    PROVE  /\ Part(t) \in Seq(V) /\ Len(Part(t)) \in Nat
           /\ shared_indexes[next(t)] \in Bins => Part(t) = local_bins[t][shared_indexes[next(t)]]
           /\ shared_indexes[next(t)] \notin Bins => Part(t) = <<>>
BY DEF Part, TypeOK

LEMMA ReserveType ==
    ASSUME TypeOK, NEW t \in Threads, Reserve(t),
           UNCHANGED <<input, dist, work, curr_bin_copy, relaxing>>
    PROVE  TypeOK'
<1>1. V' = V /\ Bins' = Bins /\ num_edges_directed' = num_edges_directed
  BY SameInput
<1>2. next(t) \in 0 .. 1
  BY FloorFacts
<1>3. frontier_tails[next(t)] \in Nat /\ frontier_tails[next(t)] + Len(Part(t)) \in Nat
  BY <1>2, PartFacts DEF TypeOK
<1>4. pc' \in [Threads -> PCs] /\ copy_start' \in [Threads -> Nat]
      /\ frontier_tails' \in [0 .. 1 -> Nat]
  BY <1>2, <1>3 DEF Reserve, PCs, TypeOK
<1> QED
  BY <1>1, <1>4 DEF TypeOK, PCs, Reserve, relaxing

LEMMA CopyFacts ==
    ASSUME TypeOK, NEW t \in Threads, Copy(t)
    PROVE  /\ DOMAIN frontier' = DOMAIN frontier \cup Mine(t) /\ Mine(t) \subseteq Nat
           /\ \A s \in Mine(t) : /\ frontier'[s] = Part(t)[s - copy_start[t] + 1]
                                 /\ frontier'[s] \in V
           /\ \A s \in DOMAIN frontier \ Mine(t) : frontier'[s] = frontier[s]
           /\ \A u \in ToSet(Part(t)) : \E s \in Mine(t) : frontier'[s] = u
           /\ local_bins' \in [Threads -> [Bins -> Seq(V)]]
           /\ \A x \in Threads : x # t => local_bins'[x] = local_bins[x]
           /\ \A b \in Bins : local_bins'[t][b] = IF b = shared_indexes[next(t)] THEN <<>>
                                                  ELSE local_bins[t][b]
<1>1. /\ Part(t) \in Seq(V) /\ copy_start[t] \in Nat /\ Len(Part(t)) \in Nat
      /\ local_bins \in [Threads -> [Bins -> Seq(V)]]
  BY PartFacts DEF TypeOK
<1>2. frontier' = [s \in DOMAIN frontier \cup Mine(t) |->
                     IF s \in Mine(t) THEN Part(t)[s - copy_start[t] + 1] ELSE frontier[s]]
  BY DEF Copy, Mine
<1>3. \A s \in Mine(t) : s \in Nat /\ s - copy_start[t] + 1 \in 1 .. Len(Part(t))
  BY <1>1 DEF Mine
<1>4. \A i \in 1 .. Len(Part(t)) : copy_start[t] + i - 1 \in Mine(t)
                                   /\ (copy_start[t] + i - 1) - copy_start[t] + 1 = i
  BY <1>1 DEF Mine
<1>5. \A i \in 1 .. Len(Part(t)) : Part(t)[i] \in V
  BY <1>1
<1>6. ASSUME NEW u \in ToSet(Part(t)) PROVE \E s \in Mine(t) : frontier'[s] = u
  <2>1. PICK i \in 1 .. Len(Part(t)) : Part(t)[i] = u
    BY <1>1 DEF ToSet
  <2>2. copy_start[t] + i - 1 \in Mine(t) /\ frontier'[copy_start[t] + i - 1] = Part(t)[i]
    BY <1>2, <1>4
  <2> QED
    BY <2>1, <2>2
<1>7. /\ local_bins' \in [Threads -> [Bins -> Seq(V)]]
      /\ \A x \in Threads : x # t => local_bins'[x] = local_bins[x]
      /\ \A b \in Bins : local_bins'[t][b] = IF b = shared_indexes[next(t)] THEN <<>>
                                             ELSE local_bins[t][b]
  <2>1. CASE Part(t) # <<>>
    <3>1. local_bins' = [local_bins EXCEPT ![t][shared_indexes[next(t)]] = <<>>]
          /\ shared_indexes[next(t)] \in Bins /\ <<>> \in Seq(V)
      BY <2>1, PartFacts DEF Copy
    <3> QED
      BY <1>1, <3>1
  <2>2. CASE Part(t) = <<>>
    <3>1. local_bins' = local_bins
      BY <2>2 DEF Copy
    <3> QED
      BY <1>1, <2>2, <3>1, PartFacts
  <2> QED
    BY <2>1, <2>2
<1> QED
  BY <1>2, <1>3, <1>5, <1>6, <1>7

LEMMA CopyType ==
    ASSUME TypeOK, NEW t \in Threads, Copy(t),
           UNCHANGED <<input, dist, work, curr_bin_copy, relaxing>>
    PROVE  TypeOK'
<1>1. V' = V /\ Bins' = Bins /\ num_edges_directed' = num_edges_directed
  BY SameInput
<1>0. num_edges_directed \in Nat /\ copy_start[t] \in Nat /\ Len(Part(t)) \in Nat
  BY EdgesCount, PartFacts DEF TypeOK
<1>9. copy_start[t] + Len(Part(t)) <= num_edges_directed
  BY <1>0 DEF Copy, PastEnd
<1>8. Mine(t) \subseteq 0 .. num_edges_directed - 1
  BY <1>0, <1>9 DEF Mine
<1>2. /\ DOMAIN frontier' \in SUBSET (0 .. num_edges_directed - 1)
      /\ \A s \in DOMAIN frontier' : frontier'[s] \in V
  BY <1>8, CopyFacts DEF TypeOK
<1>3. frontier' = [s \in DOMAIN frontier' |-> frontier'[s]]
  BY DEF Copy
<1>4. frontier' \in [DOMAIN frontier' -> V]
  BY <1>2, <1>3
<1>5. local_bins' \in [Threads -> [Bins -> Seq(V)]] /\ work' \in SUBSET (DOMAIN frontier')
  BY CopyFacts DEF TypeOK
<1>6. next(t) \in 0 .. 1
  BY FloorFacts
<1>7. pc' \in [Threads -> PCs] /\ iter' \in [Threads -> 0 .. 1]
  BY <1>6 DEF Copy, PCs, TypeOK
<1> QED
  BY <1>1, <1>2, <1>4, <1>5, <1>7 DEF TypeOK, PCs, Copy, relaxing

LEMMA Barrier2Type ==
    ASSUME TypeOK, Apart, Barrier2
    PROVE  TypeOK'
<1>1. V' = V /\ Bins' = Bins /\ num_edges_directed' = num_edges_directed
  BY SameInput DEF Barrier2
<1>2. pc' \in [Threads -> PCs]
  BY DEF Barrier2, Each, PCs
<1>3. Unfilled = {}
  BY DEF Barrier2, Unfilled
<1>4. work' \in SUBSET (DOMAIN frontier)
  <2>1. PICK t \in Threads : work' = 0 .. frontier_tails[curr(t)] - 1
    BY DEF Barrier2
  <2>2. curr(t) \in 0 .. 1
    BY FloorFacts
  <2> QED
    BY <1>3, <2>1, <2>2 DEF Apart
<1> QED
  BY <1>1, <1>2, <1>4 DEF TypeOK, PCs, Barrier2, shared, relaxing

-----------------------------------------------------------------------------
(* The steps of the loop of an iteration.                                  *)

(* Such a step is one thread's: it changes that thread's own, distances    *)
(* and the work.                                                           *)
LEMMA WorkLocal ==
    ASSUME TypeOK, NEW t \in Threads, RelaxEdges(t)
    PROVE  /\ pc[t] \in Relaxing \cup {"loop", "take"} /\ pc'[t] \in Relaxing \cup {"take", "end"}
           /\ pc[t] = "loop" => pc'[t] = IF shared_indexes[curr(t)] # kMaxBin THEN "take" ELSE "end"
           /\ pc[t] # "loop" => pc'[t] # "end"
           /\ work' \subseteq work /\ (pc[t] # "take" => work' = work)
           /\ \A x \in Threads : x # t =>
                /\ pc'[x] = pc[x] /\ local_bins'[x] = local_bins[x]
                /\ curr_bin_copy'[x] = curr_bin_copy[x] /\ at'[x] = at[x] /\ todo'[x] = todo[x]
                /\ old_dist'[x] = old_dist[x] /\ new_dist'[x] = new_dist[x]
           /\ UNCHANGED <<input, frontier, shared_indexes, frontier_tails, iter, copy_start>>
<1> USE DEF Relaxing
<1>0. UNCHANGED <<input, frontier, shared_indexes, frontier_tails, iter, copy_start>>
  BY DEF RelaxEdges, shared
<1>1. CASE LoopTest(t)
  BY <1>0, <1>1 DEF LoopTest, TypeOK, relaxing
<1>2. CASE Take(t)
  BY <1>0, <1>2 DEF Take, TypeOK, Relax
<1>3. CASE TakeOwn(t)
  <2>1. local_bins' = [local_bins EXCEPT ![t] = local_bins'[t]]
    BY <1>3 DEF TakeOwn, TypeOK
  <2> QED
    BY <1>0, <1>3, <2>1 DEF TakeOwn, TypeOK, Relax
<1>4. CASE Relaxed(t)
  BY <1>0, <1>4 DEF Relaxed, TypeOK, Relax
<1>5. CASE ReadOld(t)
  BY <1>0, <1>5 DEF ReadOld, TypeOK
<1>6. CASE ReadNew(t)
  BY <1>0, <1>6 DEF ReadNew, TypeOK, Compare, NextEdge
<1>7. CASE Swap(t)
  <2>1. CASE Lowers(t)
    BY <1>0, <1>7, <2>1, SwapCases DEF Lowers, NextEdge, TypeOK
  <2>2. CASE pc' = [pc EXCEPT ![t] = "again"] /\ UNCHANGED <<dist, local_bins, todo>>
    BY <1>0, <1>7, <2>2, SwapCases DEF TypeOK
  <2> QED
    BY <1>7, <2>1, <2>2, SwapCases
<1>8. CASE ReadAgain(t)
  BY <1>0, <1>8 DEF ReadAgain, TypeOK, Compare, NextEdge
<1> QED
  BY <1>1, <1>2, <1>3, <1>4, <1>5, <1>6, <1>7, <1>8 DEF RelaxEdges

LEMMA WorkFrame ==
    ASSUME TypeOK, Together, NEW t \in Threads, RelaxEdges(t)
    PROVE  /\ \A x \in Threads : /\ Now(x)' = Now(x) /\ Idx(x)' = Idx(x) /\ Floor(x)' = Floor(x)
                                 /\ next(x)' = next(x) /\ Now(x) = curr(x)
                                 /\ pc[x] \notin Exchanging /\ pc'[x] \notin Exchanging
           /\ Slots = work /\ Slots' = work' /\ Unfilled = {} /\ Unfilled' = {}
<1>1. \A x \in Threads : pc[x] \notin Exchanging /\ pc'[x] \notin Exchanging
  <2>1. pc[t] \notin Exchanging /\ pc'[t] \notin Exchanging
    BY WorkLocal DEF Relaxing, Exchanging
  <2>2. \A x \in Threads : pc[x] \notin Exchanging
    BY <2>1 DEF Together
  <2> QED
    BY <2>1, <2>2, WorkLocal
<1>2. ASSUME NEW x \in Threads
      PROVE  /\ Now(x)' = Now(x) /\ Idx(x)' = Idx(x) /\ Floor(x)' = Floor(x)
             /\ next(x)' = next(x) /\ Now(x) = curr(x)
  <2>1. pc[x] \notin Exchanging /\ pc'[x] \notin Exchanging
    BY <1>1
  <2>2. iter' = iter /\ shared_indexes' = shared_indexes /\ input' = input
    BY WorkLocal
  <2>3. Now(x)' = Now(x) /\ next(x)' = next(x) /\ Now(x) = curr(x)
    BY <2>1, <2>2 DEF Now, Exchanging, curr, next
  <2>4. Idx(x)' = Idx(x)
    BY <2>2, <2>3 DEF Idx
  <2> QED
    BY <2>2, <2>3, <2>4 DEF Floor
<1>3. Unfilled = {} /\ Unfilled' = {}
  BY <1>1 DEF Unfilled, Exchanging
<1>4. Slots = work /\ Slots' = work'
  BY <1>1 DEF Slots, Exchanging
<1> QED
  BY <1>1, <1>2, <1>3, <1>4

LEMMA WorkTogether ==
    ASSUME TypeOK, Together, Apart, NEW t \in Threads, RelaxEdges(t)
    PROVE  Together' /\ Apart'
<1>1. \A x \in Threads : Now(x)' = Now(x) /\ Idx(x)' = Idx(x) /\ Now(x) = curr(x)
                         /\ pc[x] \notin Exchanging /\ pc'[x] \notin Exchanging
  BY WorkFrame
<1>2. \A x \in Threads : x # t => pc'[x] = pc[x]
  BY WorkLocal
<1>3. \A y, x \in Threads : Now(y)' = Now(x)' /\ (pc'[y] \in Exchanging <=> pc'[x] \in Exchanging)
  BY <1>1 DEF Together
<1>4. \A x \in Threads : pc'[x] \in Exchanging \cup {"barrier1"} => work' = {}
  <2>1. pc'[t] # "barrier1" /\ work' \subseteq work
    BY WorkLocal DEF Relaxing
  <2> QED
    BY <1>1, <1>2, <2>1 DEF Together
<1>5. Idx(t) = shared_indexes[curr(t)]
  BY <1>1 DEF Idx
<1>6. \A x \in Threads : pc'[x] \in Relaxing \cup {"take", "barrier1"} => Idx(x)' # kMaxBin
  <2>1. CASE pc[t] = "loop"
    BY <1>1, <1>2, <1>5, <2>1, WorkLocal DEF Together, Relaxing
  <2>2. CASE pc[t] # "loop"
    BY <1>1, <1>2, <2>2, WorkLocal DEF Together
  <2> QED
    BY <2>1, <2>2
<1>7. \A x \in Threads : pc'[x] = "end" => Idx(x)' = kMaxBin
  <2>1. CASE pc[t] = "loop"
    BY <1>1, <1>2, <1>5, <2>1, WorkLocal DEF Together
  <2>2. CASE pc[t] # "loop"
    BY <1>1, <1>2, <2>2, WorkLocal DEF Together
  <2> QED
    BY <2>1, <2>2
<1>8. Together'
  BY <1>3, <1>4, <1>6, <1>7 DEF Together
<1>9. Apart'
  <2>1. \A x \in Threads : pc'[x] # "copy"
    BY <1>1 DEF Exchanging
  <2>2. Unfilled' = Unfilled /\ frontier' = frontier /\ frontier_tails' = frontier_tails
    BY WorkFrame, WorkLocal
  <2>3. \A p \in 0 .. 1 : \A s \in 0 .. frontier_tails'[p] - 1 : s \in DOMAIN frontier' \cup Unfilled'
    BY <2>2 DEF Apart
  <2> QED
    BY <2>1, <2>3 DEF Apart
<1> QED
  BY <1>8, <1>9

(* Distances go down only.                                                 *)
LEMMA WorkDown ==
    ASSUME TypeOK, Hands, Bounds, NEW t \in Threads, RelaxEdges(t)
    PROVE  /\ \A v \in V : dist'[v] <= dist[v] /\ dist'[v] \in Nat /\ dist[v] \in Nat
           /\ dist' = dist \/ (Swap(t) /\ Lowers(t))
<1>1. \A v \in V : dist[v] \in Nat
  BY BoundsAssumption DEF TypeOK
<1>2. dist' = dist \/ (Swap(t) /\ Lowers(t))
  <2>1. Swap(t) => Lowers(t) \/ dist' = dist
    BY SwapCases
  <2> QED
    BY <2>1 DEF RelaxEdges, LoopTest, Take, TakeOwn, Relaxed, ReadOld, ReadNew, ReadAgain
<1>3. CASE dist' = dist
  BY <1>1, <1>2, <1>3
<1>4. CASE Swap(t) /\ Lowers(t)
  <2>1. pc[t] = "cas"
    BY <1>4, SwapCases
  <2>2. /\ \A v \in V : dist'[v] <= dist[v]
        /\ dist' \in [V -> 0 .. kDistInf]
    BY <1>4, <2>1, LowersFacts
  <2>3. \A v \in V : dist'[v] \in Nat
    BY <2>2, BoundsAssumption
  <2> QED
    BY <1>1, <1>2, <2>2, <2>3
<1> QED
  BY <1>2, <1>3, <1>4

(* What one thread has in its hands, and has read and computed.            *)
HandsOf(t) ==
    /\ pc[t] \notin Relaxing => todo[t] = <<>> /\ curr_bin_copy[t] = <<>>
    /\ pc[t] \in {"new", "cas", "again"} => todo[t] # <<>>
    /\ pc[t] \in Relaxing => ToSet(todo[t]) \subseteq ToSet(out_neigh(at[t]))
BoundsOf(t) ==
    /\ pc[t] = "new" => old_dist[t] >= dist[v_(t)]
    /\ pc[t] = "cas" => new_dist[t] < old_dist[t]
    /\ pc[t] \in {"cas", "again"} => new_dist[t] >= dist[at[t]] + w_(t)

LEMMA WorkOthers ==
    ASSUME TypeOK, Hands, Bounds, NEW t \in Threads, RelaxEdges(t), NEW x \in Threads, x # t
    PROVE  HandsOf(x)' /\ BoundsOf(x)'
<1>1. /\ pc'[x] = pc[x] /\ curr_bin_copy'[x] = curr_bin_copy[x] /\ at'[x] = at[x]
      /\ todo'[x] = todo[x] /\ old_dist'[x] = old_dist[x] /\ new_dist'[x] = new_dist[x]
  BY WorkLocal
<1>2. \A u : out_neigh(u)' = out_neigh(u)
  BY WorkLocal, SameInput
<1>3. HandsOf(x)'
  BY <1>1, <1>2 DEF Hands, HandsOf
<1>4. v_(x)' = v_(x) /\ w_(x)' = w_(x)
  BY <1>1 DEF v_, w_
<1>5. CASE pc[x] \in {"new", "cas", "again"}
  <2>1. v_(x) \in V /\ w_(x) \in Nat /\ at[x] \in V
    BY <1>5, EdgeInHands DEF Hands, TypeOK
  <2>2. /\ dist'[v_(x)] <= dist[v_(x)] /\ dist'[v_(x)] \in Nat /\ dist[v_(x)] \in Nat
        /\ dist'[at[x]] <= dist[at[x]] /\ dist'[at[x]] \in Nat /\ dist[at[x]] \in Nat
    BY <2>1, WorkDown
  <2>3. old_dist[x] \in Nat /\ new_dist[x] \in Nat
    BY DEF TypeOK
  <2>4. /\ pc[x] = "new" => old_dist[x] >= dist[v_(x)]
        /\ pc[x] = "cas" => new_dist[x] < old_dist[x]
        /\ pc[x] \in {"cas", "again"} => new_dist[x] >= dist[at[x]] + w_(x)
    BY DEF Bounds
  <2>5. /\ pc[x] = "new" => old_dist[x] >= dist'[v_(x)]
        /\ pc[x] = "cas" => new_dist[x] < old_dist[x]
        /\ pc[x] \in {"cas", "again"} => new_dist[x] >= dist'[at[x]] + w_(x)
    BY <2>1, <2>2, <2>3, <2>4
  <2> QED
    BY <1>1, <1>3, <1>4, <2>5 DEF BoundsOf
<1>6. CASE pc[x] \notin {"new", "cas", "again"}
  BY <1>1, <1>3, <1>6 DEF BoundsOf
<1> QED
  BY <1>5, <1>6

LEMMA RelaxHands ==
    ASSUME TypeOK, input' = input, NEW t \in Threads, NEW u \in V, Relax(t, u)
    PROVE  HandsOf(t)' /\ BoundsOf(t)'
<1>1. pc'[t] = "edge" /\ at'[t] = u /\ todo'[t] = out_neigh(u)
  BY DEF Relax, TypeOK
<1>2. out_neigh(u)' = out_neigh(u)
  BY SameInput
<1>3. out_neigh(at[t])' = out_neigh(u)
  BY <1>1 DEF out_neigh
<1> QED
  BY <1>1, <1>2, <1>3 DEF HandsOf, BoundsOf, Relaxing

LEMMA NextEdgeHands ==
    ASSUME TypeOK, Hands, input' = input, NEW t \in Threads, pc[t] \in {"new", "cas", "again"},
           NextEdge(t), at' = at
    PROVE  HandsOf(t)' /\ BoundsOf(t)'
<1>1. pc'[t] = "edge" /\ todo'[t] = Tail(todo[t]) /\ todo[t] # <<>>
  BY DEF NextEdge, TypeOK, Hands
<1>2. ToSet(Tail(todo[t])) \subseteq ToSet(todo[t])
  BY <1>1, EdgeInHands
<1>3. out_neigh(at[t])' = out_neigh(at[t])
  BY DEF out_neigh
<1>4. ToSet(todo[t]) \subseteq ToSet(out_neigh(at[t]))
  BY DEF Hands, Relaxing
<1> QED
  BY <1>1, <1>2, <1>3, <1>4 DEF HandsOf, BoundsOf, Relaxing

LEMMA WorkOwn ==
    ASSUME TypeOK, Together, Hands, Bounds, NEW t \in Threads, RelaxEdges(t)
    PROVE  HandsOf(t)' /\ BoundsOf(t)'
<1>0. UNCHANGED <<input, frontier, shared_indexes, frontier_tails, iter, copy_start>>
      /\ out_neigh(at[t])' = input.out_neigh[at'[t]] /\ out_neigh(at[t]) = input.out_neigh[at[t]]
  BY WorkLocal DEF out_neigh
<1>a. at[t] \in V /\ dist[at[t]] \in Nat
  BY BoundsAssumption DEF TypeOK
<1>b. pc[t] \notin Relaxing => todo[t] = <<>> /\ curr_bin_copy[t] = <<>>
  BY DEF Hands
<1>c. pc[t] \in Relaxing => ToSet(todo[t]) \subseteq ToSet(out_neigh(at[t]))
  BY DEF Hands
<1>d. ASSUME pc[t] \in {"new", "cas", "again"}
      PROVE  todo[t] # <<>> /\ v_(t) \in V /\ w_(t) \in Nat /\ dist[v_(t)] \in Nat
  <2>1. todo[t] # <<>>
    BY <1>d DEF Hands
  <2>2. v_(t) \in V /\ w_(t) \in Nat
    BY <2>1, EdgeInHands
  <2> QED
    BY <2>1, <2>2, BoundsAssumption DEF TypeOK
<1>1. CASE LoopTest(t)
  <2>1. pc[t] = "loop" /\ pc'[t] \in {"take", "end"} /\ todo' = todo /\ curr_bin_copy' = curr_bin_copy
    BY <1>1 DEF LoopTest, TypeOK, relaxing
  <2> QED
    BY <2>1, <1>b DEF HandsOf, BoundsOf, Relaxing
<1>2. CASE Take(t)
  <2>1. PICK i \in work :
           IF dist[frontier[i]] >= input.delta * shared_indexes[curr(t)]
           THEN Relax(t, frontier[i]) ELSE UNCHANGED <<pc, at, todo>>
    BY <1>2 DEF Take
  <2>2. frontier[i] \in V /\ pc[t] = "take" /\ curr_bin_copy' = curr_bin_copy
    BY <1>2 DEF TypeOK, Take
  <2>3. CASE Relax(t, frontier[i])
    BY <1>0, <2>2, <2>3, RelaxHands
  <2>4. CASE UNCHANGED <<pc, at, todo>>
    BY <1>b, <2>2, <2>4 DEF HandsOf, BoundsOf, Relaxing
  <2> QED
    BY <2>1, <2>3, <2>4
<1>3. CASE TakeOwn(t)
  <2>1. Head(Own(t)) \in V /\ Relax(t, Head(Own(t)))
    BY <1>3, OwnFacts, HeadTail DEF TakeOwn
  <2> QED
    BY <1>0, <2>1, RelaxHands
<1>4. CASE Relaxed(t)
  <2>1. CASE curr_bin_copy[t] = <<>>
    <3>1. pc'[t] = "take" /\ todo'[t] = <<>> /\ curr_bin_copy'[t] = <<>>
      BY <1>4, <2>1 DEF Relaxed, TypeOK
    <3> QED
      BY <3>1 DEF HandsOf, BoundsOf, Relaxing
  <2>2. CASE curr_bin_copy[t] # <<>>
    <3>1. curr_bin_copy[t] \in Seq(V)
      BY DEF TypeOK
    <3>2. Head(curr_bin_copy[t]) \in V /\ Relax(t, Head(curr_bin_copy[t]))
      BY <1>4, <2>2, <3>1, HeadTail DEF Relaxed
    <3> QED
      BY <1>0, <3>2, RelaxHands
  <2> QED
    BY <2>1, <2>2
<1>5. CASE ReadOld(t)
  <2>1. /\ pc[t] = "edge" /\ pc'[t] = "new" /\ todo' = todo /\ todo[t] # <<>> /\ at' = at
        /\ old_dist'[t] = dist[v_(t)] /\ dist' = dist
    BY <1>5 DEF ReadOld, TypeOK
  <2>2. v_(t)' = v_(t) /\ v_(t) \in V
    BY <2>1, EdgeInHands DEF v_
  <2>5. dist[v_(t)] \in Nat
    BY <2>2, BoundsAssumption DEF TypeOK
  <2>3. HandsOf(t)'
    BY <1>0, <1>c, <2>1 DEF HandsOf, Relaxing
  <2>4. BoundsOf(t)'
    BY <2>1, <2>2, <2>5 DEF BoundsOf
  <2> QED
    BY <2>3, <2>4
<1>6. CASE ReadNew(t)
  <2>1. /\ pc[t] = "new" /\ at' = at /\ old_dist' = old_dist /\ dist' = dist
        /\ new_dist'[t] = dist[at[t]] + w_(t)
        /\ Compare(t, dist[at[t]] + w_(t), old_dist[t])
    BY <1>6 DEF ReadNew, TypeOK
  <2>2. CASE NextEdge(t)
    BY <1>0, <2>1, <2>2, NextEdgeHands
  <2>3. CASE dist[at[t]] + w_(t) < old_dist[t] /\ pc' = [pc EXCEPT ![t] = "cas"] /\ todo' = todo
    <3>1. pc'[t] = "cas" /\ w_(t)' = w_(t)
      BY <2>3 DEF TypeOK, w_
    <3>2. HandsOf(t)'
      BY <1>0, <1>c, <1>d, <2>1, <2>3, <3>1 DEF HandsOf, Relaxing
    <3>3. BoundsOf(t)'
      BY <1>a, <1>d, <2>1, <2>3, <3>1 DEF BoundsOf
    <3> QED
      BY <3>2, <3>3
  <2> QED
    BY <2>1, <2>2, <2>3 DEF Compare
<1>7. CASE Swap(t)
  <2>1. pc[t] = "cas" /\ at' = at /\ new_dist' = new_dist
    BY <1>7, SwapCases
  <2>2. CASE Lowers(t)
    BY <1>0, <2>1, <2>2, NextEdgeHands DEF Lowers
  <2>3. CASE pc' = [pc EXCEPT ![t] = "again"] /\ UNCHANGED <<dist, local_bins, todo>>
    <3>1. pc'[t] = "again" /\ w_(t)' = w_(t)
      BY <2>3 DEF TypeOK, w_
    <3>2. HandsOf(t)'
      BY <1>0, <1>c, <1>d, <2>1, <2>3, <3>1 DEF HandsOf, Relaxing
    <3>3. BoundsOf(t)'
      BY <2>1, <2>3, <3>1 DEF BoundsOf, Bounds
    <3> QED
      BY <3>2, <3>3
  <2> QED
    BY <1>7, <2>2, <2>3, SwapCases
<1>8. CASE ReadAgain(t)
  <2>1. /\ pc[t] = "again" /\ at' = at /\ new_dist' = new_dist /\ dist' = dist
        /\ old_dist'[t] = dist[v_(t)] /\ Compare(t, new_dist[t], dist[v_(t)])
    BY <1>8 DEF ReadAgain, TypeOK
  <2>2. CASE NextEdge(t)
    BY <1>0, <2>1, <2>2, NextEdgeHands
  <2>3. CASE new_dist[t] < dist[v_(t)] /\ pc' = [pc EXCEPT ![t] = "cas"] /\ todo' = todo
    <3>1. pc'[t] = "cas" /\ w_(t)' = w_(t)
      BY <2>3 DEF TypeOK, w_
    <3>2. HandsOf(t)'
      BY <1>0, <1>c, <1>d, <2>1, <2>3, <3>1 DEF HandsOf, Relaxing
    <3>3. BoundsOf(t)'
      BY <2>1, <2>3, <3>1 DEF BoundsOf, Bounds
    <3> QED
      BY <3>2, <3>3
  <2> QED
    BY <2>1, <2>2, <2>3 DEF Compare
<1> QED
  BY <1>1, <1>2, <1>3, <1>4, <1>5, <1>6, <1>7, <1>8 DEF RelaxEdges

LEMMA HandsAll ==
    /\ Hands <=> \A t \in Threads : HandsOf(t)
    /\ Bounds <=> \A t \in Threads : BoundsOf(t)
BY DEF Hands, HandsOf, Bounds, BoundsOf

LEMMA HandsAllNext ==
    ASSUME \A t \in Threads : HandsOf(t)' /\ BoundsOf(t)'
    PROVE  Hands' /\ Bounds'
BY DEF Hands, HandsOf, Bounds, BoundsOf

LEMMA WorkHands ==
    ASSUME TypeOK, Together, Hands, Bounds, NEW t \in Threads, RelaxEdges(t)
    PROVE  Hands' /\ Bounds'
<1>1. \A x \in Threads : HandsOf(x)' /\ BoundsOf(x)'
  BY WorkOwn, WorkOthers
<1> QED
  BY <1>1, HandsAllNext

LEMMA SameFloor ==
    ASSUME TypeOK, Together, NEW t \in Threads, NEW x \in Threads
    PROVE  Now(x) = Now(t) /\ Idx(x) = Idx(t) /\ Floor(x) = Floor(t)
BY DEF Together, Idx, Floor

(* What is swapped in is as far as the iteration's bin.                    *)
LEMMA LowersFar ==
    ASSUME TypeOK, Together, Hands, Bounds, Far, NEW t \in Threads, Swap(t), Lowers(t)
    PROVE  /\ new_dist[t] >= Floor(t) /\ new_dist[t] \in Nat
           /\ Idx(t) <= new_dist[t] \div input.delta
           /\ new_dist[t] >= dist[at[t]] + w_(t) /\ todo[t] # <<>> /\ pc[t] = "cas"
<1>1. pc[t] = "cas"
  BY SwapCases
<1>2. todo[t] # <<>>
  BY <1>1 DEF Hands
<1>3. w_(t) \in Nat /\ at[t] \in V /\ new_dist[t] \in Nat
  BY <1>2, EdgeInHands DEF TypeOK
<1>4. dist[at[t]] \in Nat
  BY <1>3, BoundsAssumption DEF TypeOK
<1>5. new_dist[t] >= dist[at[t]] + w_(t)
  BY <1>1 DEF Bounds
<1>6. dist[at[t]] >= Floor(t)
  BY <1>1 DEF Far, Relaxing
<1>7. Floor(t) \in Nat /\ Idx(t) \in Nat /\ input.delta \in Nat \ {0}
  BY FloorFacts, InputFacts
<1>8. new_dist[t] >= Floor(t)
  BY <1>3, <1>4, <1>5, <1>6, <1>7
<1>9. input.delta * Idx(t) <= new_dist[t]
  BY <1>8, <1>7, <1>3 DEF Floor
<1>10. Idx(t) <= new_dist[t] \div input.delta
  BY <1>3, <1>7, <1>9, DivBound
<1> QED
  BY <1>1, <1>2, <1>3, <1>5, <1>8, <1>10

LEMMA WorkStaysFar ==
    ASSUME TypeOK, Together, Hands, Bounds, Far, NEW t \in Threads, RelaxEdges(t),
           NEW v \in V, dist[v] >= Floor(t)
    PROVE  dist'[v] >= Floor(t)
<1>1. CASE dist' = dist
  BY <1>1
<1>2. CASE Swap(t) /\ Lowers(t)
  <2>1. pc[t] = "cas" /\ new_dist[t] >= Floor(t)
    BY <1>2, LowersFar
  <2>2. v = v_(t) => dist'[v] = new_dist[t]
    BY <1>2, <2>1, LowersFacts
  <2>3. v # v_(t) => dist'[v] = dist[v]
    BY <1>2, <2>1, LowersFacts
  <2> QED
    BY <2>1, <2>2, <2>3
<1> QED
  BY <1>1, <1>2, WorkDown

LEMMA WorkBins ==
    ASSUME TypeOK, Together, Hands, Bounds, NEW t \in Threads, RelaxEdges(t),
           NEW x \in Threads, NEW b \in Bins
    PROVE  \/ local_bins'[x][b] = local_bins[x][b] \/ local_bins'[x][b] = <<>>
           \/ /\ x = t /\ Swap(t) /\ Lowers(t) /\ b = new_dist[t] \div input.delta
              /\ ToSet(local_bins'[x][b]) = ToSet(local_bins[x][b]) \cup {v_(t)}
<1>1. CASE x # t
  BY <1>1, WorkLocal
<1>2. CASE x = t /\ TakeOwn(t)
  <2>1. local_bins' = [local_bins EXCEPT ![t][Idx(t)] = <<>>] /\ Idx(t) \in Bins
    BY <1>2, OwnFacts DEF TakeOwn
  <2> QED
    BY <1>2, <2>1 DEF TypeOK
<1>3. CASE x = t /\ Swap(t) /\ Lowers(t)
  <2>1. pc[t] = "cas"
    BY <1>3, SwapCases
  <2> QED
    BY <1>3, <2>1, LowersFacts
<1>4. CASE local_bins' = local_bins
  BY <1>4
<1>5. local_bins' = local_bins \/ TakeOwn(t) \/ (Swap(t) /\ Lowers(t))
  <2>1. Swap(t) => Lowers(t) \/ local_bins' = local_bins
    BY SwapCases
  <2> QED
    BY <2>1 DEF RelaxEdges, LoopTest, Take, Relaxed, ReadOld, ReadNew, ReadAgain
<1> QED
  BY <1>1, <1>2, <1>3, <1>4, <1>5

LEMMA WorkBinsAbove ==
    ASSUME TypeOK, Together, Hands, Bounds, Far, BinsAbove, NEW t \in Threads, RelaxEdges(t)
    PROVE  BinsAbove'
<1>0. Bins' = Bins
  BY WorkLocal, SameInput
<1>1. ASSUME NEW x \in Threads, NEW b \in Bins, local_bins'[x][b] # <<>>
      PROVE  b >= Idx(x)'
  <2>1. Idx(x)' = Idx(x) /\ Idx(x) = Idx(t)
    BY WorkFrame, SameFloor
  <2>2. CASE local_bins'[x][b] = local_bins[x][b]
    BY <1>1, <2>1, <2>2 DEF BinsAbove
  <2>3. CASE Swap(t) /\ Lowers(t) /\ b = new_dist[t] \div input.delta
    <3>1. Idx(t) <= b
      BY <2>3, LowersFar
    <3>2. Idx(t) \in Nat /\ b \in Nat
      BY FloorFacts, InputFacts
    <3> QED
      BY <2>1, <3>1, <3>2
  <2> QED
    BY <1>1, <2>2, <2>3, WorkBins
<1>2. \A x \in Threads : pc'[x] # "barrier2"
  BY WorkFrame DEF Exchanging
<1>3. ASSUME NEW x \in Threads, pc'[x] = "barrier1"
      PROVE  \A b \in Bins : local_bins'[x][b] # <<>> => b >= shared_indexes'[next(x)']
  <2>1. x # t
    BY <1>3, WorkLocal DEF Relaxing
  <2>2. pc[x] = "barrier1" /\ local_bins'[x] = local_bins[x] /\ shared_indexes' = shared_indexes
    BY <1>3, <2>1, WorkLocal
  <2>3. next(x)' = next(x)
    BY WorkFrame
  <2> QED
    BY <2>2, <2>3 DEF BinsAbove
<1> QED
  BY <1>0, <1>1, <1>2, <1>3 DEF BinsAbove

LEMMA WorkFar ==
    ASSUME TypeOK, Together, Hands, Bounds, Far, NEW t \in Threads, RelaxEdges(t)
    PROVE  Far'
<1>0. /\ Bins' = Bins /\ \A x \in Threads : Floor(x)' = Floor(t) /\ Idx(x)' = Idx(x) /\ Floor(x) = Floor(t)
      /\ \A v \in V : dist[v] >= Floor(t) => dist'[v] >= Floor(t)
  BY WorkLocal, SameInput, WorkFrame, SameFloor, WorkStaysFar
<1>1. ASSUME NEW x \in Threads, NEW b \in Bins, b = Idx(x)', NEW v \in ToSet(local_bins'[x][b])
      PROVE  dist'[v] >= Floor(t)
  <2>1. b = Idx(x) /\ pc[x] \notin Exchanging
    BY <1>0, <1>1, WorkFrame
  <2>2. \A u \in ToSet(local_bins[x][b]) : u \in V /\ dist[u] >= Floor(t)
    <3>1. local_bins[x][b] \in Seq(V)
      BY DEF TypeOK
    <3> QED
      BY <1>0, <2>1, <3>1, SeqElements DEF Far
  <2>3. CASE local_bins'[x][b] = local_bins[x][b]
    BY <1>0, <1>1, <2>2, <2>3
  <2>4. CASE local_bins'[x][b] = <<>>
    BY <1>1, <2>4 DEF ToSet
  <2>5. CASE /\ Swap(t) /\ Lowers(t)
             /\ ToSet(local_bins'[x][b]) = ToSet(local_bins[x][b]) \cup {v_(t)}
    <3>1. pc[t] = "cas" /\ new_dist[t] >= Floor(t)
      BY <2>5, LowersFar
    <3>2. dist'[v_(t)] = new_dist[t]
      BY <2>5, <3>1, LowersFacts
    <3> QED
      BY <1>0, <1>1, <2>2, <2>5, <3>1, <3>2
  <2> QED
    BY <2>3, <2>4, <2>5, WorkBins
<1>2. ASSUME NEW x \in Threads, NEW v \in ToSet(curr_bin_copy[x])
      PROVE  v \in V /\ dist[v] >= Floor(t)
  <2>1. curr_bin_copy[x] \in Seq(V)
    BY DEF TypeOK
  <2> QED
    BY <1>0, <1>2, <2>1, SeqElements DEF Far
<1>3. ASSUME pc[t] = "take", NEW v \in ToSet(Own(t))
      PROVE  v \in V /\ dist[v] >= Floor(t)
  <2>1. Own(t) = local_bins[t][Idx(t)] /\ Idx(t) \in Bins /\ Own(t) \in Seq(V) /\ pc[t] \notin Exchanging
    BY <1>3, OwnFacts DEF Exchanging
  <2> QED
    BY <1>3, <2>1, SeqElements DEF Far
<1>4. ASSUME pc'[t] \in Relaxing PROVE at'[t] \in V /\ dist[at'[t]] >= Floor(t)
  <2>0. at[t] \in V
    BY DEF TypeOK
  <2>1. CASE Take(t)
    <3>1. PICK i \in work :
             IF dist[frontier[i]] >= input.delta * shared_indexes[curr(t)]
             THEN Relax(t, frontier[i]) ELSE UNCHANGED <<pc, at, todo>>
      BY <2>1 DEF Take
    <3>2. pc[t] = "take" /\ frontier[i] \in V
      BY <2>1 DEF Take, TypeOK
    <3>3. Floor(t) = input.delta * shared_indexes[curr(t)]
      BY <3>2, OwnFacts DEF Floor
    <3> QED
      BY <1>4, <3>1, <3>2, <3>3 DEF Relax, TypeOK, Relaxing
  <2>2. CASE TakeOwn(t)
    <3>1. pc[t] = "take" /\ Own(t) # <<>> /\ Own(t) \in Seq(V) /\ Relax(t, Head(Own(t)))
      BY <2>2, OwnFacts DEF TakeOwn
    <3>2. Head(Own(t)) \in ToSet(Own(t)) /\ at'[t] = Head(Own(t))
      BY <3>1, HeadTail DEF Relax, TypeOK
    <3> QED
      BY <1>3, <3>1, <3>2
  <2>3. CASE Relaxed(t)
    <3>1. curr_bin_copy[t] # <<>> /\ curr_bin_copy[t] \in Seq(V) /\ Relax(t, Head(curr_bin_copy[t]))
      BY <1>4, <2>3 DEF Relaxed, TypeOK, Relaxing
    <3>2. Head(curr_bin_copy[t]) \in ToSet(curr_bin_copy[t]) /\ at'[t] = Head(curr_bin_copy[t])
      BY <3>1, HeadTail DEF Relax, TypeOK
    <3> QED
      BY <1>2, <3>2
  <2>4. CASE at' = at /\ pc[t] \in Relaxing
    BY <1>0, <2>0, <2>4 DEF Far
  <2>5. (at' = at /\ pc[t] \in Relaxing) \/ Take(t) \/ TakeOwn(t) \/ Relaxed(t)
    BY <1>4, SwapCases DEF RelaxEdges, LoopTest, ReadOld, ReadNew, ReadAgain, Relaxing, TypeOK, relaxing
  <2> QED
    BY <2>1, <2>2, <2>3, <2>4, <2>5
<1>5. ASSUME NEW v \in ToSet(curr_bin_copy'[t]) PROVE v \in V /\ dist[v] >= Floor(t)
  <2>1. CASE TakeOwn(t)
    <3>1. pc[t] = "take" /\ Own(t) # <<>> /\ Own(t) \in Seq(V) /\ curr_bin_copy'[t] = Tail(Own(t))
      BY <2>1, OwnFacts DEF TakeOwn, TypeOK
    <3>2. ToSet(Tail(Own(t))) \subseteq ToSet(Own(t))
      BY <3>1, HeadTail
    <3> QED
      BY <1>3, <1>5, <3>1, <3>2
  <2>2. CASE curr_bin_copy' = curr_bin_copy
    BY <1>2, <1>5, <2>2
  <2>3. CASE curr_bin_copy[t] # <<>> /\ curr_bin_copy'[t] = Tail(curr_bin_copy[t])
    <3>1. ToSet(Tail(curr_bin_copy[t])) \subseteq ToSet(curr_bin_copy[t])
      BY <2>3, HeadTail DEF TypeOK
    <3> QED
      BY <1>2, <1>5, <2>3, <3>1
  <2>4. \/ TakeOwn(t) \/ curr_bin_copy' = curr_bin_copy
        \/ curr_bin_copy[t] # <<>> /\ curr_bin_copy'[t] = Tail(curr_bin_copy[t])
    <3>1. Relaxed(t) => \/ curr_bin_copy' = curr_bin_copy
                        \/ curr_bin_copy[t] # <<>> /\ curr_bin_copy'[t] = Tail(curr_bin_copy[t])
      BY DEF Relaxed, TypeOK
    <3> QED
      BY <3>1, SwapCases DEF RelaxEdges, LoopTest, Take, ReadOld, ReadNew, ReadAgain
  <2> QED
    BY <2>1, <2>2, <2>3, <2>4
<1>6. ASSUME NEW x \in Threads, pc'[x] \in Relaxing PROVE dist'[at'[x]] >= Floor(t)
  <2>1. CASE x = t
    BY <1>0, <1>4, <1>6, <2>1
  <2>2. CASE x # t
    <3>1. pc[x] \in Relaxing /\ at'[x] = at[x] /\ at[x] \in V
      BY <1>6, <2>2, WorkLocal DEF TypeOK
    <3> QED
      BY <1>0, <3>1 DEF Far
  <2> QED
    BY <2>1, <2>2
<1>7. ASSUME NEW x \in Threads, NEW v \in ToSet(curr_bin_copy'[x]) PROVE dist'[v] >= Floor(t)
  <2>1. CASE x = t
    BY <1>0, <1>5, <1>7, <2>1
  <2>2. CASE x # t
    BY <1>0, <1>2, <1>7, <2>2, WorkLocal
  <2> QED
    BY <2>1, <2>2
<1> QED
  BY <1>0, <1>1, <1>6, <1>7 DEF Far

(* An edge whose source keeps its distance stays pending while it can      *)
(* still lower one: first when it is in the hands of the thread that steps,*)
LEMMA WorkInHands ==
    ASSUME TypeOK, Hands, Bounds, NEW t \in Threads, RelaxEdges(t),
           NEW u \in V, NEW e \in ToSet(out_neigh(u)), dist'[u] = dist[u],
           dist[u] + e[2] < dist[e[1]], dist'[u] + e[2] < dist'[e[1]], InHands(t, u, e)
    PROVE  InHands(t, u, e)'
<1>0. at[t] = u /\ e \in ToSet(todo[t])
      /\ (pc[t] \in {"cas", "again"} /\ e = Head(todo[t]) => new_dist[t] = dist[u] + e[2])
  BY DEF InHands
<1>1. todo[t] # <<>>
  BY <1>0 DEF ToSet
<1>2. pc[t] \in Relaxing
  BY <1>1 DEF Hands
<1>3. e \in V \X (Nat \ {0}) /\ dist[u] \in Nat /\ dist[e[1]] \in Nat
  <2>1. e \in V \X (Nat \ {0})
    BY InputFacts
  <2> QED
    BY <2>1, BoundsAssumption DEF TypeOK
<1>4. e # Head(todo[t]) => e \in ToSet(Tail(todo[t]))
  BY <1>0, <1>1, EdgeInHands
<1>5. e = Head(todo[t]) => e[1] = v_(t) /\ e[2] = w_(t)
  BY DEF v_, w_
<1>6. ASSUME NextEdge(t), at' = at, e # Head(todo[t]) PROVE InHands(t, u, e)'
  <2>1. pc'[t] = "edge" /\ todo'[t] = Tail(todo[t]) /\ at'[t] = u
    BY <1>0, <1>6 DEF NextEdge, TypeOK
  <2> QED
    BY <1>4, <1>6, <2>1 DEF InHands
<1>7. CASE ReadOld(t)
  <2>1. pc'[t] = "new" /\ todo' = todo /\ at' = at
    BY <1>7 DEF ReadOld, TypeOK
  <2> QED
    BY <1>0, <2>1 DEF InHands
<1>8. CASE ReadNew(t)
  <2>1. /\ pc[t] = "new" /\ at' = at /\ new_dist'[t] = dist[u] + w_(t)
        /\ Compare(t, dist[u] + w_(t), old_dist[t])
    BY <1>0, <1>8 DEF ReadNew, TypeOK
  <2>2. CASE ~ (dist[u] + w_(t) < old_dist[t]) /\ NextEdge(t)
    <3>1. old_dist[t] >= dist[v_(t)] /\ old_dist[t] \in Nat
      BY <2>1 DEF Bounds, TypeOK
    <3>2. e # Head(todo[t])
      BY <1>3, <1>5, <2>2, <3>1
    <3> QED
      BY <1>6, <2>1, <2>2, <3>2
  <2>3. CASE pc' = [pc EXCEPT ![t] = "cas"] /\ todo' = todo
    BY <1>0, <1>5, <2>1, <2>3 DEF InHands
  <2> QED
    BY <2>1, <2>2, <2>3 DEF Compare
<1>9. CASE Swap(t)
  <2>1. pc[t] = "cas" /\ at' = at /\ new_dist' = new_dist
    BY <1>9, SwapCases
  <2>2. CASE Lowers(t)
    <3>1. dist'[v_(t)] = new_dist[t]
      BY <2>1, <2>2, LowersFacts
    <3>2. e # Head(todo[t])
      <4>1. SUFFICES ASSUME e = Head(todo[t]) PROVE FALSE
        OBVIOUS
      <4>2. dist'[e[1]] = dist[u] + e[2]
        BY <1>0, <1>5, <2>1, <3>1, <4>1
      <4>3. dist[u] + e[2] \in Nat
        BY <1>3
      <4> QED
        BY <4>2, <4>3
    <3> QED
      BY <1>6, <2>1, <2>2, <3>2 DEF Lowers
  <2>3. CASE pc' = [pc EXCEPT ![t] = "again"] /\ UNCHANGED <<dist, local_bins, todo>>
    BY <1>0, <2>1, <2>3 DEF InHands
  <2> QED
    BY <1>9, <2>2, <2>3, SwapCases
<1>10. CASE ReadAgain(t)
  <2>1. /\ pc[t] = "again" /\ at' = at /\ new_dist' = new_dist
        /\ Compare(t, new_dist[t], dist[v_(t)])
    BY <1>10 DEF ReadAgain
  <2>2. CASE ~ (new_dist[t] < dist[v_(t)]) /\ NextEdge(t)
    <3>1. e # Head(todo[t])
      BY <1>0, <1>3, <1>5, <2>1, <2>2
    <3> QED
      BY <1>6, <2>1, <2>2, <3>1
  <2>3. CASE pc' = [pc EXCEPT ![t] = "cas"] /\ todo' = todo
    BY <1>0, <2>1, <2>3 DEF InHands
  <2> QED
    BY <2>1, <2>2, <2>3 DEF Compare
<1>11. ~ (LoopTest(t) \/ Take(t) \/ TakeOwn(t) \/ Relaxed(t))
  BY <1>1, <1>2 DEF LoopTest, Take, TakeOwn, Relaxed, Relaxing
<1> QED
  BY <1>7, <1>8, <1>9, <1>10, <1>11 DEF RelaxEdges

(* a thread that turns to a vertex has all its edges in its hands,         *)
LEMMA RelaxInHands ==
    ASSUME TypeOK, input' = input, NEW t \in Threads, NEW u \in V, Relax(t, u),
           NEW e \in ToSet(out_neigh(u))
    PROVE  InHands(t, u, e)'
<1>1. pc'[t] = "edge" /\ at'[t] = u /\ todo'[t] = out_neigh(u)
  BY DEF Relax, TypeOK
<1> QED
  BY <1>1 DEF InHands

(* and then wherever it is.                                                *)
LEMMA WorkPending ==
    ASSUME TypeOK, Together, Hands, Bounds, NEW t \in Threads, RelaxEdges(t),
           NEW u \in V, NEW e \in ToSet(out_neigh(u)), dist'[u] = dist[u],
           dist[u] + e[2] < dist[e[1]], dist'[u] + e[2] < dist'[e[1]],
           dist[u] >= Floor(t), PendingEdge(u, e)
    PROVE  PendingEdge(u, e)'
<1>0. input' = input /\ frontier' = frontier
  BY WorkLocal
<1> DEFINE b == dist[u] \div input.delta
<1>b. b \in Bins
  BY BinOf DEF TypeOK
<1>i. \A x \in Threads : InHands(x, u, e)' => PendingEdge(u, e)'
  BY DEF PendingEdge
<1>c. \A x \in Threads : Copied(x, u)' => PendingEdge(u, e)'
  BY DEF PendingEdge
<1>n. \A x \in Threads : u \in ToSet(local_bins'[x][b]) => PendingEdge(u, e)'
  BY <1>0 DEF PendingEdge, Binned
<1>1. CASE Slotted(u)
  <2>1. PICK s \in Slots \cap DOMAIN frontier : frontier[s] = u
    BY <1>1 DEF Slotted
  <2>2. Slots = work /\ Slots' = work'
    BY WorkFrame
  <2>3. CASE s \in work'
    <3>1. Slotted(u)'
      BY <1>0, <2>1, <2>2, <2>3 DEF Slotted
    <3> QED
      BY <3>1 DEF PendingEdge
  <2>4. CASE s \notin work'
    <3>1. pc[t] = "take" /\ work' # work
      BY <2>1, <2>2, <2>4, WorkLocal
    <3>2. Take(t)
      BY <3>1, SwapCases DEF RelaxEdges, LoopTest, TakeOwn, Relaxed, ReadOld, ReadNew, ReadAgain
    <3>3. PICK i \in work :
             /\ work' = work \ {i}
             /\ IF dist[frontier[i]] >= input.delta * shared_indexes[curr(t)]
                THEN Relax(t, frontier[i]) ELSE UNCHANGED <<pc, at, todo>>
      BY <3>2 DEF Take
    <3>4. i = s
      BY <2>1, <2>2, <2>4, <3>3
    <3>5. Floor(t) = input.delta * shared_indexes[curr(t)]
      BY <3>1, OwnFacts DEF Floor
    <3>6. Relax(t, u)
      BY <2>1, <3>3, <3>4, <3>5
    <3> QED
      BY <1>0, <1>i, <3>6, RelaxInHands
  <2> QED
    BY <2>3, <2>4
<1>2. ASSUME NEW x \in Threads, Binned(x, u) PROVE PendingEdge(u, e)'
  <2>1. u \in ToSet(local_bins[x][b])
    BY <1>2 DEF Binned
  <2>2. CASE local_bins'[x][b] = local_bins[x][b]
    BY <1>n, <2>1, <2>2
  <2>3. CASE ToSet(local_bins'[x][b]) = ToSet(local_bins[x][b]) \cup {v_(t)}
    BY <1>n, <2>1, <2>3
  <2>4. CASE local_bins'[x][b] = <<>> /\ local_bins'[x][b] # local_bins[x][b]
    <3>1. x = t /\ local_bins' # local_bins
      BY <2>4, WorkLocal
    <3>2. TakeOwn(t)
      <4>1. CASE Swap(t)
        <5>1. Lowers(t) /\ pc[t] = "cas"
          BY <3>1, <4>1, SwapCases
        <5> QED
          BY <1>b, <2>4, <3>1, <5>1, LowersFacts
      <4> QED
        BY <3>1, <4>1 DEF RelaxEdges, LoopTest, Take, Relaxed, ReadOld, ReadNew, ReadAgain
    <3>3. /\ pc[t] = "take" /\ Own(t) # <<>> /\ Own(t) \in Seq(V) /\ Own(t) = local_bins[t][Idx(t)]
          /\ Idx(t) \in Bins /\ local_bins' = [local_bins EXCEPT ![t][Idx(t)] = <<>>]
          /\ Relax(t, Head(Own(t))) /\ curr_bin_copy' = [curr_bin_copy EXCEPT ![t] = Tail(Own(t))]
      BY <3>2, OwnFacts DEF TakeOwn
    <3>4. b = Idx(t)
      BY <1>b, <2>4, <3>1, <3>3 DEF TypeOK
    <3>5. u = Head(Own(t)) \/ u \in ToSet(Tail(Own(t)))
      BY <2>1, <3>1, <3>3, <3>4, HeadTail
    <3>6. CASE u = Head(Own(t))
      BY <1>0, <1>i, <3>3, <3>6, RelaxInHands
    <3>7. CASE u \in ToSet(Tail(Own(t)))
      <4>1. Copied(t, u)'
        BY <3>3, <3>7 DEF Copied, TypeOK
      <4> QED
        BY <1>c, <4>1
    <3> QED
      BY <3>5, <3>6, <3>7
  <2> QED
    BY <1>b, <2>2, <2>3, <2>4, WorkBins
<1>3. ASSUME NEW x \in Threads, Copied(x, u) PROVE PendingEdge(u, e)'
  <2>1. u \in ToSet(curr_bin_copy[x])
    BY <1>3 DEF Copied
  <2>2. CASE curr_bin_copy'[x] = curr_bin_copy[x]
    BY <1>c, <2>1, <2>2 DEF Copied
  <2>3. CASE x = t /\ curr_bin_copy' # curr_bin_copy
    <3>1. curr_bin_copy[t] # <<>> /\ curr_bin_copy[t] \in Seq(V)
      BY <2>1, <2>3 DEF ToSet, TypeOK
    <3>2. pc[t] \in Relaxing
      BY <3>1 DEF Hands
    <3>3. Relaxed(t)
      BY <2>3, <3>2, SwapCases DEF RelaxEdges, LoopTest, Take, TakeOwn, ReadOld, ReadNew, ReadAgain, Relaxing
    <3>4. Relax(t, Head(curr_bin_copy[t])) /\ curr_bin_copy'[t] = Tail(curr_bin_copy[t])
      BY <3>1, <3>3 DEF Relaxed, TypeOK
    <3>5. u = Head(curr_bin_copy[t]) \/ u \in ToSet(Tail(curr_bin_copy[t]))
      BY <2>1, <2>3, <3>1, HeadTail
    <3>6. CASE u = Head(curr_bin_copy[t])
      BY <1>0, <1>i, <3>4, <3>6, RelaxInHands
    <3>7. CASE u \in ToSet(Tail(curr_bin_copy[t]))
      BY <1>c, <3>4, <3>7 DEF Copied
    <3> QED
      BY <3>5, <3>6, <3>7
  <2> QED
    BY <2>2, <2>3, WorkLocal
<1>4. ASSUME NEW x \in Threads, InHands(x, u, e) PROVE PendingEdge(u, e)'
  <2>1. CASE x = t
    BY <1>4, <1>i, <2>1, WorkInHands
  <2>2. CASE x # t
    <3>1. /\ pc'[x] = pc[x] /\ at'[x] = at[x] /\ todo'[x] = todo[x] /\ new_dist'[x] = new_dist[x]
      BY <2>2, WorkLocal
    <3>2. InHands(x, u, e)'
      BY <1>4, <3>1 DEF InHands
    <3> QED
      BY <1>i, <3>2
  <2> QED
    BY <2>1, <2>2
<1> QED
  BY <1>1, <1>2, <1>3, <1>4 DEF PendingEdge

LEMMA WorkSettled ==
    ASSUME TypeOK, Together, Hands, Bounds, Far, Settled, NEW t \in Threads, RelaxEdges(t)
    PROVE  Settled'
<1>0. V' = V /\ \A u : out_neigh(u)' = out_neigh(u)
  BY WorkLocal, SameInput
<1>1. ASSUME NEW u \in V, NEW e \in ToSet(out_neigh(u)), dist'[u] + e[2] < dist'[e[1]]
      PROVE  /\ \A x \in Threads : dist'[u] >= Floor(x)'
             /\ PendingEdge(u, e)'
  <2>1. \A x \in Threads : Floor(x)' = Floor(t) /\ Floor(x) = Floor(t)
    BY WorkFrame, SameFloor
  <2>2. e[1] \in V /\ e[2] \in Nat
    BY InputFacts
  <2>3. /\ dist'[u] <= dist[u] /\ dist[u] \in Nat /\ dist'[u] \in Nat
        /\ dist'[e[1]] <= dist[e[1]] /\ dist[e[1]] \in Nat /\ dist'[e[1]] \in Nat
    BY <2>2, WorkDown
  <2>4. CASE dist'[u] = dist[u]
    <3>1. dist[u] + e[2] < dist[e[1]]
      BY <1>1, <2>2, <2>3, <2>4
    <3>2. dist[u] >= Floor(t) /\ PendingEdge(u, e)
      BY <3>1 DEF Settled
    <3> QED
      BY <1>1, <2>1, <2>4, <3>1, <3>2, WorkPending
  <2>5. CASE dist'[u] # dist[u]
    <3>1. Swap(t) /\ Lowers(t)
      BY <2>5, WorkDown
    <3>2. pc[t] = "cas" /\ new_dist[t] >= Floor(t)
      BY <3>1, LowersFar
    <3>3. /\ u = v_(t) /\ dist'[u] = new_dist[t]
          /\ new_dist[t] \div input.delta \in Bins
          /\ u \in ToSet(local_bins'[t][new_dist[t] \div input.delta])
      BY <2>5, <3>1, <3>2, LowersFacts
    <3>4. input' = input
      BY WorkLocal
    <3>5. Binned(t, u)'
      BY <3>3, <3>4 DEF Binned
    <3>6. PendingEdge(u, e)'
      BY <3>5 DEF PendingEdge
    <3> QED
      BY <2>1, <3>2, <3>3, <3>6
  <2> QED
    BY <2>4, <2>5
<1> QED
  BY <1>0, <1>1 DEF Settled

LEMMA WorkLower ==
    ASSUME TypeOK, Together, Hands, Bounds, Far, Lower, SourceZero, NEW t \in Threads, RelaxEdges(t)
    PROVE  Lower' /\ SourceZero'
<1>0. input' = input /\ V' = V /\ Shortest(input)' = Shortest(input)
  BY WorkLocal, SameInput
<1>1. CASE dist' = dist
  BY <1>0, <1>1 DEF Lower, SourceZero
<1>2. CASE Swap(t) /\ Lowers(t)
  <2>1. pc[t] = "cas" /\ todo[t] # <<>> /\ new_dist[t] >= dist[at[t]] + w_(t) /\ new_dist[t] \in Nat
    BY <1>2, LowersFar
  <2>2. Head(todo[t]) = <<v_(t), w_(t)>> /\ v_(t) \in V /\ w_(t) \in Nat /\ at[t] \in V
    BY <2>1, EdgeInHands DEF TypeOK
  <2>3. Head(todo[t]) \in ToSet(out_neigh(at[t]))
    BY <2>1, EdgeInHands DEF Hands, Relaxing
  <2>4. input \in Inputs /\ Head(todo[t]) \in RowEdges(input, at[t]) /\ at[t] \in Nodes(input)
        /\ V = Nodes(input)
    BY <2>2, <2>3, InputFacts DEF RowEdges
  <2> DEFINE S == Shortest(input)
  <2>5. S[v_(t)] <= S[at[t]] + w_(t)
    BY <2>2, <2>4, ShortestFeasible
  <2> HIDE DEF S
  <2>6. \A v \in V : S[v] \in Nat
    BY <2>4, ShortestFacts, BoundsAssumption DEF S
  <2>7. S[at[t]] <= dist[at[t]] /\ dist[at[t]] \in Nat
    BY <2>2, BoundsAssumption DEF Lower, TypeOK, S
  <2>8. new_dist[t] >= S[v_(t)]
    BY <2>1, <2>2, <2>5, <2>6, <2>7
  <2>9. \A v \in V : (v # v_(t) => dist'[v] = dist[v]) /\ dist'[v] <= dist[v] /\ dist'[v] \in Nat
    BY <1>2, <2>1, LowersFacts, WorkDown
  <2>10. dist'[v_(t)] = new_dist[t]
    BY <1>2, <2>1, LowersFacts
  <2>11. Lower'
    BY <1>0, <2>8, <2>9, <2>10 DEF Lower, S
  <2>12. SourceZero'
    <3>1. input.source \in V
      BY InputFacts
    <3> QED
      BY <1>0, <2>9, <3>1 DEF SourceZero
  <2> QED
    BY <2>11, <2>12
<1> QED
  BY <1>1, <1>2, WorkDown

LEMMA WorkType ==
    ASSUME TypeOK, Together, Hands, Bounds, NEW t \in Threads, RelaxEdges(t)
    PROVE  TypeOK'
<1>1. UNCHANGED <<input, shared, iter, copy_start>>
  BY DEF RelaxEdges
<1> QED
  BY <1>1, QuietType, SwapType, TakeType, TakeOwnType DEF RelaxEdges, Quiet

LEMMA WorkStep ==
    ASSUME IInv, NEW t \in Threads, RelaxEdges(t)
    PROVE  IInv'
BY WorkType, WorkTogether, WorkHands, WorkBinsAbove, WorkFar, WorkSettled, WorkLower DEF IInv

-----------------------------------------------------------------------------
(* The steps between iterations. They leave distances and hands alone.     *)

LEMMA SameIter ==
    ASSUME TypeOK, NEW t \in Threads, NEW x \in Threads
    PROVE  curr(x) = curr(t) <=> next(x) = next(t)
<1>1. iter[t] \in 0 .. 1 /\ iter[x] \in 0 .. 1
  BY DEF TypeOK
<1>2. \A i \in 0 .. 1 : (i + 1) % 2 = 1 - i
  OBVIOUS
<1>3. next(t) = 1 - iter[t] /\ next(x) = 1 - iter[x]
  BY <1>1, <1>2 DEF next
<1> QED
  BY <1>1, <1>3 DEF curr

(* Hands that are empty stay so, and what is read and computed is of no    *)
(* consequence outside the relaxation.                                     *)
LEMMA IdleHands ==
    ASSUME TypeOK, Hands, Bounds, UNCHANGED <<input, dist, curr_bin_copy, relaxing>>,
           \A x \in Threads : pc'[x] = pc[x] \/ (pc[x] \notin Relaxing /\ pc'[x] \notin Relaxing)
    PROVE  Hands' /\ Bounds'
<1>1. ASSUME NEW x \in Threads PROVE HandsOf(x)' /\ BoundsOf(x)'
  <2>1. HandsOf(x) /\ BoundsOf(x)
    BY HandsAll
  <2>2. /\ todo' = todo /\ at' = at /\ old_dist' = old_dist /\ new_dist' = new_dist
        /\ curr_bin_copy' = curr_bin_copy /\ dist' = dist
        /\ v_(x)' = v_(x) /\ w_(x)' = w_(x) /\ out_neigh(at[x])' = out_neigh(at[x])
    BY DEF relaxing, v_, w_, out_neigh
  <2>3. CASE pc'[x] = pc[x]
    BY <2>1, <2>2, <2>3 DEF HandsOf, BoundsOf
  <2>4. CASE pc[x] \notin Relaxing /\ pc'[x] \notin Relaxing
    BY <2>1, <2>2, <2>4 DEF HandsOf, BoundsOf, Relaxing
  <2> QED
    BY <2>3, <2>4
<1> QED
  BY <1>1, HandsAllNext

(* With empty hands only slots and bins are left.                          *)
LEMMA IdlePending ==
    ASSUME TypeOK, Hands, NEW u \in V, NEW e \in ToSet(out_neigh(u)), PendingEdge(u, e),
           \A x \in Threads : pc[x] \notin Relaxing
    PROVE  Slotted(u) \/ \E x \in Threads : Binned(x, u)
BY DEF Hands, PendingEdge, Copied, InHands, ToSet

LEMMA SameLower ==
    ASSUME TypeOK, Lower, SourceZero, UNCHANGED <<input, dist>>
    PROVE  Lower' /\ SourceZero'
BY SameInput DEF Lower, SourceZero

LEMMA ProposeStep ==
    ASSUME IInv, NEW t \in Threads, Propose(t)
    PROVE  IInv'
<1> DEFINE p == shared_indexes'[next(t)]
<1>0. /\ TypeOK /\ Together /\ Hands /\ Bounds /\ Apart /\ BinsAbove /\ Far /\ Settled
      /\ Lower /\ SourceZero /\ TypeOK'
  BY ProposeType DEF IInv
<1>1. /\ pc[t] = "take" /\ pc'[t] = "barrier1" /\ \A x \in Threads : x # t => pc'[x] = pc[x]
      /\ work = {} /\ UNCHANGED <<input, dist, frontier, frontier_tails, work, iter, local_bins,
                                  curr_bin_copy, relaxing, copy_start>>
      /\ V' = V /\ Bins' = Bins /\ \A u : out_neigh(u)' = out_neigh(u)
  BY <1>0, SameInput DEF Propose, TypeOK
<1>2. \A x \in Threads : pc[x] \notin Exchanging /\ pc'[x] \notin Exchanging
  BY <1>0, <1>1 DEF Together, Exchanging
<1>3. \A x \in Threads : Now(x) = curr(x) /\ Now(x)' = curr(x) /\ next(x)' = next(x)
                         /\ curr(x) = curr(t) /\ next(x) = next(t) /\ curr(t) # next(t)
                         /\ curr(t) \in 0 .. 1 /\ next(t) \in 0 .. 1
  <2>1. \A x \in Threads : Now(x) = curr(x) /\ Now(x)' = curr(x) /\ next(x)' = next(x)
    BY <1>1, <1>2 DEF Now, Exchanging, curr, next
  <2>2. \A x \in Threads : curr(x) = curr(t)
    BY <1>0, <2>1 DEF Together
  <2> QED
    BY <1>0, <2>1, <2>2, SameIter, FloorFacts
<1>4. p <= shared_indexes[next(t)] /\ (\A i \in Filled(t) : p <= i)
      /\ shared_indexes' = [shared_indexes EXCEPT ![next(t)] = p] /\ p \in Nat
  BY <1>0, ProposeFacts, InputFacts
<1> HIDE DEF p
<1>5. shared_indexes'[curr(t)] = shared_indexes[curr(t)] /\ shared_indexes'[next(t)] = p
  BY <1>0, <1>3, <1>4 DEF TypeOK
<1>6. \A x \in Threads : Idx(x)' = Idx(x) /\ Floor(x)' = Floor(x) /\ Idx(x) = shared_indexes[curr(t)]
  BY <1>1, <1>3, <1>5 DEF Idx, Floor
<1>7. Together'
  BY <1>0, <1>1, <1>2, <1>3, <1>6 DEF Together, Relaxing
<1>8. Hands' /\ Bounds'
  BY <1>0, <1>1, IdleHands DEF Relaxing
<1>9. /\ \A x \in Threads : pc[x] # "copy" /\ pc'[x] # "copy" /\ pc[x] # "barrier2" /\ pc'[x] # "barrier2"
      /\ Unfilled = {} /\ Unfilled' = {} /\ Slots = work /\ Slots' = work
  BY <1>1, <1>2 DEF Unfilled, Slots, Exchanging
<1>10. Apart'
  BY <1>0, <1>1, <1>9 DEF Apart
<1>11. BinsAbove'
  <2>1. ASSUME NEW x \in Threads, pc'[x] = "barrier1", NEW b \in Bins, local_bins[x][b] # <<>>
        PROVE  b >= p
    <3>0. b \in Nat /\ shared_indexes[next(t)] \in Nat
      BY <1>0, <1>3, InputFacts DEF TypeOK
    <3>1. CASE x = t
      <4>1. b >= shared_indexes[curr(t)]
        BY <1>0, <1>6, <2>1, <3>1 DEF BinsAbove
      <4>2. b \in Filled(t)
        BY <2>1, <3>1, <4>1 DEF Filled
      <4> QED
        BY <1>4, <3>0, <4>2
    <3>2. CASE x # t
      <4>1. b >= shared_indexes[next(t)]
        BY <1>0, <1>1, <1>3, <2>1, <3>2 DEF BinsAbove
      <4> QED
        BY <1>4, <3>0, <4>1
    <3> QED
      BY <3>1, <3>2
  <2> QED
    BY <1>0, <1>1, <1>3, <1>5, <1>6, <1>9, <2>1 DEF BinsAbove
<1>12. Far'
  BY <1>0, <1>1, <1>2, <1>6 DEF Far, Relaxing, relaxing
<1>13. Settled'
  <2>1. ASSUME NEW u \in V, NEW e \in ToSet(out_neigh(u)), PendingEdge(u, e) PROVE PendingEdge(u, e)'
    <3>1. Slotted(u) => Slotted(u)'
      BY <1>1, <1>9 DEF Slotted
    <3>2. \A x \in Threads : Binned(x, u) => Binned(x, u)'
      BY <1>1 DEF Binned
    <3>3. \A x \in Threads : Copied(x, u) => Copied(x, u)'
      BY <1>1 DEF Copied
    <3>4. \A x \in Threads : InHands(x, u, e) => InHands(x, u, e)'
      BY <1>1 DEF InHands, relaxing
    <3> QED
      BY <2>1, <3>1, <3>2, <3>3, <3>4 DEF PendingEdge
  <2> QED
    BY <1>0, <1>1, <1>6, <2>1 DEF Settled
<1>14. Lower' /\ SourceZero'
  BY <1>0, <1>1, SameLower
<1> QED
  BY <1>0, <1>7, <1>8, <1>10, <1>11, <1>12, <1>13, <1>14 DEF IInv

LEMMA Barrier1Step ==
    ASSUME IInv, Barrier1
    PROVE  IInv'
<1>0. /\ TypeOK /\ Together /\ Hands /\ Bounds /\ Apart /\ BinsAbove /\ Far /\ Settled
      /\ Lower /\ SourceZero /\ TypeOK'
  BY Barrier1Type DEF IInv
<1>1. /\ \A x \in Threads : pc[x] = "barrier1" /\ pc'[x] \in {"single", "reserve"}
      /\ UNCHANGED <<input, dist, frontier, shared_indexes, frontier_tails, work, iter, local_bins,
                     curr_bin_copy, relaxing, copy_start>>
      /\ V' = V /\ Bins' = Bins /\ \A u : out_neigh(u)' = out_neigh(u)
  BY <1>0, SameInput DEF Barrier1, Each, shared
<1>2. work = {}
  BY <1>0, <1>1, ThreadsAssumption DEF Together
<1>3. \A x \in Threads : Now(x) = curr(x) /\ Now(x)' = next(x)
  BY <1>1 DEF Now, curr, next
<1>4. \A x, y \in Threads : next(x) = next(y)
  BY <1>0, <1>3, SameIter DEF Together
<1>5. \A x \in Threads : Idx(x)' = shared_indexes[next(x)]
                         /\ Floor(x)' = input.delta * shared_indexes[next(x)]
  BY <1>1, <1>3 DEF Idx, Floor
<1>6. Together'
  BY <1>1, <1>2, <1>3, <1>4 DEF Together, Exchanging, Relaxing
<1>7. Hands' /\ Bounds'
  BY <1>0, <1>1, IdleHands DEF Relaxing
<1>8. Unfilled = {} /\ Unfilled' = {} /\ Slots = {}
  BY <1>1, <1>2 DEF Unfilled, Slots
<1>9. Apart'
  BY <1>0, <1>1, <1>8 DEF Apart
<1>10. BinsAbove'
  BY <1>0, <1>1, <1>5 DEF BinsAbove
<1>11. Far'
  <2>1. \A x \in Threads : curr_bin_copy'[x] = <<>>
    BY <1>0, <1>1 DEF Hands, Relaxing
  <2> QED
    BY <1>1, <2>1 DEF Far, Exchanging, Relaxing, ToSet
<1>12. Settled'
  <2>1. ASSUME NEW u \in V, NEW e \in ToSet(out_neigh(u)), dist[u] + e[2] < dist[e[1]]
        PROVE  (\A x \in Threads : dist[u] >= input.delta * shared_indexes[next(x)])
               /\ PendingEdge(u, e)'
    <3>1. PICK y \in Threads : Binned(y, u)
      <4>1. PendingEdge(u, e)
        BY <1>0, <2>1 DEF Settled
      <4>2. Slotted(u) \/ \E x \in Threads : Binned(x, u)
        BY <1>0, <1>1, <4>1, IdlePending DEF Relaxing
      <4> QED
        BY <1>8, <4>2 DEF Slotted
    <3> DEFINE b == dist[u] \div input.delta
    <3>2. b \in Bins /\ b \in Nat /\ dist[u] \in Nat /\ input.delta \in Nat \ {0}
      <4>1. dist[u] \in 0 .. kDistInf
        BY <1>0 DEF TypeOK
      <4> QED
        BY <1>0, <4>1, BinOf, InputFacts
    <3>3. local_bins[y][b] # <<>>
      BY <3>1 DEF Binned, ToSet
    <3>4. b >= shared_indexes[next(y)]
      BY <1>0, <1>1, <3>2, <3>3 DEF BinsAbove
    <3>5. shared_indexes[next(y)] \in Nat
      BY <1>0, FloorFacts, InputFacts DEF TypeOK
    <3>6. input.delta * shared_indexes[next(y)] <= dist[u]
      <4> DEFINE k == shared_indexes[next(y)]
      <4>1. k \in Nat /\ k <= b
        BY <3>2, <3>4, <3>5
      <4> HIDE DEF k
      <4>2. input.delta * k <= dist[u]
        BY <3>2, <4>1, DivBound
      <4> QED
        BY <4>2 DEF k
    <3>7. \A x \in Threads : dist[u] >= input.delta * shared_indexes[next(x)]
      <4>1. \A x \in Threads : input.delta * shared_indexes[next(x)] = input.delta * shared_indexes[next(y)]
        BY <1>4
      <4>2. input.delta * shared_indexes[next(y)] \in Nat
        BY <3>2, <3>5
      <4> QED
        BY <3>2, <3>6, <4>1, <4>2
    <3>8. Binned(y, u)'
      BY <1>1, <3>1 DEF Binned
    <3> QED
      BY <3>7, <3>8 DEF PendingEdge
  <2> QED
    BY <1>1, <1>5, <2>1 DEF Settled
<1>13. Lower' /\ SourceZero'
  BY <1>0, <1>1, SameLower
<1> QED
  BY <1>0, <1>6, <1>7, <1>9, <1>10, <1>11, <1>12, <1>13 DEF IInv

(* In that half of an iteration: the entry that is next is the one copied  *)
(* from, everyone is in it, and only slots and bins are left.              *)
LEMMA ExchangeFrame ==
    ASSUME IInv, NEW t \in Threads, pc[t] \in Exchanging
    PROVE  /\ work = {}
           /\ \A x \in Threads :
                /\ pc[x] \in Exchanging /\ todo[x] = <<>> /\ curr_bin_copy[x] = <<>>
                /\ Now(x) = Now(t) /\ Now(x) \in 0 .. 1
                /\ pc[x] = "barrier2" => Now(x) = curr(x)
                /\ pc[x] # "barrier2" => Now(x) = next(x) /\ curr(x) # Now(t)
<1>1. TypeOK /\ Together /\ Hands
  BY DEF IInv
<1>2. ASSUME NEW x \in Threads
      PROVE  /\ pc[x] \in Exchanging /\ Now(x) = Now(t) /\ Now(x) \in 0 .. 1
             /\ pc[x] = "barrier2" => Now(x) = curr(x)
             /\ pc[x] # "barrier2" => Now(x) = next(x) /\ curr(x) # Now(t)
  <2>1. pc[x] \in Exchanging /\ Now(x) = Now(t)
    BY <1>1 DEF Together
  <2>2. Now(x) \in 0 .. 1 /\ next(x) # curr(x)
    BY <1>1, FloorFacts
  <2> QED
    BY <2>1, <2>2 DEF Now, Exchanging
<1>3. work = {}
  BY <1>1 DEF Together
<1>4. \A x \in Threads : todo[x] = <<>> /\ curr_bin_copy[x] = <<>>
  BY <1>1, <1>2 DEF Hands, Exchanging, Relaxing
<1> QED
  BY <1>2, <1>3, <1>4

(* What a step of that half has to show, when what is now stays.           *)
LEMMA ExchangeStep ==
    ASSUME IInv, TypeOK', UNCHANGED <<input, dist, work, curr_bin_copy, relaxing>>,
           NEW t \in Threads, pc[t] \in Exchanging,
           \A x \in Threads : pc'[x] \in Exchanging,
           \A x \in Threads : Now(x)' = Now(x) /\ Idx(x)' = Idx(x),
           Apart', BinsAbove',
           \A u \in V : Slotted(u) \/ (\E x \in Threads : Binned(x, u)) =>
                          Slotted(u)' \/ \E x \in Threads : Binned(x, u)'
    PROVE  IInv'
<1>0. /\ TypeOK /\ Together /\ Hands /\ Bounds /\ Settled /\ Lower /\ SourceZero
      /\ V' = V /\ Bins' = Bins /\ \A u : out_neigh(u)' = out_neigh(u)
  BY SameInput DEF IInv
<1>1. /\ work = {} /\ \A x \in Threads : pc[x] \in Exchanging /\ curr_bin_copy[x] = <<>>
  BY ExchangeFrame
<1>2. Together'
  BY <1>0, <1>1 DEF Together, Exchanging, Relaxing
<1>3. Hands' /\ Bounds'
  BY <1>0, <1>1, IdleHands DEF Exchanging, Relaxing
<1>4. Far'
  BY <1>1 DEF Far, Exchanging, Relaxing, ToSet
<1>5. Settled'
  <2>1. \A x \in Threads : Floor(x)' = Floor(x)
    BY DEF Floor
  <2>2. ASSUME NEW u \in V, NEW e \in ToSet(out_neigh(u)), dist[u] + e[2] < dist[e[1]]
        PROVE  (\A x \in Threads : dist[u] >= Floor(x)) /\ PendingEdge(u, e)'
    <3>1. (\A x \in Threads : dist[u] >= Floor(x)) /\ PendingEdge(u, e)
      BY <1>0, <2>2 DEF Settled
    <3>2. Slotted(u) \/ \E x \in Threads : Binned(x, u)
      BY <1>0, <1>1, <3>1, IdlePending DEF Relaxing, Exchanging
    <3>3. Slotted(u)' \/ \E x \in Threads : Binned(x, u)'
      BY <3>2
    <3> QED
      BY <3>1, <3>3 DEF PendingEdge
  <2> QED
    BY <1>0, <2>1, <2>2 DEF Settled
<1>6. Lower' /\ SourceZero'
  BY <1>0, SameLower
<1> QED
  BY <1>2, <1>3, <1>4, <1>5, <1>6 DEF IInv

LEMMA SingleStep ==
    ASSUME IInv, NEW t \in Threads, Single(t), UNCHANGED <<input, dist, work, curr_bin_copy, relaxing>>
    PROVE  IInv'
<1>0. TypeOK /\ Apart /\ BinsAbove /\ TypeOK' /\ pc[t] = "single" /\ pc[t] \in Exchanging
  BY SingleType DEF IInv, Single, Exchanging
<1>1. /\ pc'[t] = "reserve" /\ \A x \in Threads : x # t => pc'[x] = pc[x]
      /\ UNCHANGED <<frontier, iter, local_bins, copy_start>>
      /\ curr(t) \in 0 .. 1 /\ curr(t) # Now(t) /\ Now(t) \in 0 .. 1
      /\ shared_indexes'[Now(t)] = shared_indexes[Now(t)]
      /\ frontier_tails'[Now(t)] = frontier_tails[Now(t)] /\ frontier_tails'[curr(t)] = 0
  <2>1. curr(t) \in 0 .. 1 /\ curr(t) # Now(t) /\ Now(t) \in 0 .. 1
    BY <1>0, FloorFacts, ExchangeFrame
  <2> QED
    BY <1>0, <2>1 DEF Single, TypeOK
<1>2. ASSUME NEW x \in Threads
      PROVE  /\ pc[x] \in Exchanging /\ pc'[x] \in Exchanging
             /\ Now(x)' = Now(x) /\ Idx(x)' = Idx(x) /\ Now(x) = Now(t)
             /\ curr(x)' = curr(x) /\ next(x)' = next(x)
             /\ pc[x] = "barrier2" => curr(x) = Now(t)
             /\ pc[x] = "copy" => next(x) = Now(t)
  <2>1. pc[x] \in Exchanging /\ Now(x) = Now(t)
    BY <1>0, ExchangeFrame
  <2>2. pc'[x] \in Exchanging /\ Now(x)' = Now(x) /\ curr(x)' = curr(x) /\ next(x)' = next(x)
    BY <1>0, <1>1, <2>1 DEF Now, Exchanging, curr, next
  <2>3. Idx(x)' = Idx(x)
    BY <1>1, <2>1, <2>2 DEF Idx
  <2> QED
    BY <2>1, <2>2, <2>3, <1>0, ExchangeFrame
<1>3. \A x \in Threads : pc'[x] = "copy" <=> pc[x] = "copy"
  BY <1>0, <1>1
<1>4. \A x \in Threads : pc[x] = "copy" => Part(x)' = Part(x) /\ Mine(x)' = Mine(x)
  BY <1>1, <1>2, SameInput DEF Part, Mine
<1>5. Unfilled' = Unfilled
  BY <1>1, <1>3, <1>4 DEF Unfilled
<1>6. Slots' = Slots
  BY <1>0, <1>1, <1>2, <1>5 DEF Slots
<1>7. Apart'
  <2>1. \A p \in 0 .. 1 : p = Now(t) \/ p = curr(t)
    BY <1>1
  <2>2. \A p \in 0 .. 1 : \A s \in 0 .. frontier_tails'[p] - 1 : s \in DOMAIN frontier \cup Unfilled
    BY <1>0, <1>1, <2>1 DEF Apart
  <2>3. \A x \in Threads : pc[x] = "copy" =>
            copy_start[x] + Len(Part(x)) <= frontier_tails'[Now(t)]
    BY <1>0, <1>1, <1>2 DEF Apart
  <2> QED
    BY <1>0, <1>1, <1>2, <1>3, <1>4, <1>5, <2>2, <2>3 DEF Apart
<1>8. BinsAbove'
  BY <1>0, <1>1, <1>2, SameInput DEF BinsAbove, Exchanging
<1>9. \A u \in V : Slotted(u) \/ (\E x \in Threads : Binned(x, u)) =>
                     Slotted(u)' \/ \E x \in Threads : Binned(x, u)'
  BY <1>1, <1>6 DEF Slotted, Binned
<1> QED
  BY <1>0, <1>2, <1>7, <1>8, <1>9, ExchangeStep

LEMMA UnfilledIs ==
    /\ \A s : s \in Unfilled <=> \E x \in Threads : pc[x] = "copy" /\ s \in Mine(x)
    /\ \A s : s \in Slots <=> \/ s \in work
                              \/ /\ s \notin Unfilled
                                 /\ \E x \in Threads : pc[x] = "barrier2" /\ s \in 0 .. frontier_tails[curr(x)] - 1
<1>1. \A s : s \in Unfilled <=> \E x \in Threads : pc[x] = "copy" /\ s \in Mine(x)
  BY DEF Unfilled, Mine
<1>2. \A s : s \in Slots <=> \/ s \in work
                             \/ /\ s \notin Unfilled
                                /\ \E x \in Threads : pc[x] = "barrier2" /\ s \in 0 .. frontier_tails[curr(x)] - 1
  <2> DEFINE B == UNION {0 .. frontier_tails[curr(t)] - 1 : t \in {x \in Threads : pc[x] = "barrier2"}}
  <2>1. Slots = work \cup (B \ Unfilled)
    BY DEF Slots
  <2>2. \A s : s \in B <=> \E x \in Threads : pc[x] = "barrier2" /\ s \in 0 .. frontier_tails[curr(x)] - 1
    OBVIOUS
  <2> HIDE DEF B
  <2>3. \A s : s \in Slots <=> s \in work \/ (s \notin Unfilled /\ s \in B)
    BY <2>1
  <2> QED
    BY <2>2, <2>3
<1> QED
  BY <1>1, <1>2

LEMMA UnfilledIsNext ==
    /\ \A s : s \in Unfilled' <=> \E x \in Threads : pc'[x] = "copy" /\ s \in Mine(x)'
    /\ \A s : s \in Slots' <=> \/ s \in work'
                               \/ /\ s \notin Unfilled'
                                  /\ \E x \in Threads : pc'[x] = "barrier2" /\ s \in 0 .. frontier_tails'[curr(x)'] - 1
<1>1. \A s : s \in Unfilled' <=> \E x \in Threads : pc'[x] = "copy" /\ s \in Mine(x)'
  BY DEF Unfilled, Mine
<1>2. \A s : s \in Slots' <=> \/ s \in work'
                              \/ /\ s \notin Unfilled'
                                 /\ \E x \in Threads : pc'[x] = "barrier2" /\ s \in 0 .. frontier_tails'[curr(x)'] - 1
  <2> DEFINE B == UNION {0 .. frontier_tails'[curr(t)'] - 1 : t \in {x \in Threads : pc'[x] = "barrier2"}}
  <2>1. Slots' = work' \cup (B \ Unfilled')
    BY DEF Slots
  <2>2. \A s : s \in B <=> \E x \in Threads : pc'[x] = "barrier2" /\ s \in 0 .. frontier_tails'[curr(x)'] - 1
    OBVIOUS
  <2> HIDE DEF B
  <2>3. \A s : s \in Slots' <=> s \in work' \/ (s \notin Unfilled' /\ s \in B)
    BY <2>1
  <2> QED
    BY <2>2, <2>3
<1> QED
  BY <1>1, <1>2

LEMMA ReserveStep ==
    ASSUME IInv, NEW t \in Threads, Reserve(t), UNCHANGED <<input, dist, work, curr_bin_copy, relaxing>>
    PROVE  IInv'
<1> DEFINE n == Now(t)
           len == Len(Part(t))
           tail == frontier_tails[n]
<1>0. TypeOK /\ Apart /\ BinsAbove /\ TypeOK' /\ pc[t] = "reserve" /\ pc[t] \in Exchanging
  BY ReserveType DEF IInv, Reserve, Exchanging
<1>1. /\ pc'[t] = "copy" /\ \A x \in Threads : x # t => pc'[x] = pc[x]
      /\ UNCHANGED <<frontier, shared_indexes, iter, local_bins>>
      /\ n = next(t) /\ n \in 0 .. 1 /\ copy_start'[t] = tail
      /\ \A x \in Threads : x # t => copy_start'[x] = copy_start[x]
      /\ frontier_tails' = [frontier_tails EXCEPT ![n] = tail + len]
  BY <1>0, ExchangeFrame DEF Reserve, TypeOK
<1>2. len \in Nat /\ tail \in Nat /\ frontier_tails'[n] = tail + len
      /\ \A p \in 0 .. 1 : p # n => frontier_tails'[p] = frontier_tails[p]
  BY <1>0, <1>1, PartFacts DEF TypeOK
<1>3. ASSUME NEW x \in Threads
      PROVE  /\ pc[x] \in Exchanging /\ pc'[x] \in Exchanging
             /\ Now(x)' = Now(x) /\ Idx(x)' = Idx(x) /\ Now(x) = n
             /\ curr(x)' = curr(x) /\ next(x)' = next(x) /\ Part(x)' = Part(x)
             /\ pc[x] = "barrier2" => curr(x) = n
  <2>1. pc[x] \in Exchanging /\ Now(x) = n
    BY <1>0, ExchangeFrame
  <2>2. pc'[x] \in Exchanging /\ Now(x)' = Now(x) /\ curr(x)' = curr(x) /\ next(x)' = next(x)
    BY <1>0, <1>1, <2>1 DEF Now, Exchanging, curr, next
  <2>3. Idx(x)' = Idx(x) /\ Part(x)' = Part(x)
    BY <1>1, <2>1, <2>2, SameInput DEF Idx, Part
  <2> QED
    BY <2>1, <2>2, <2>3, <1>0, ExchangeFrame
<1> HIDE DEF n, len, tail
<1>4. ASSUME NEW x \in Threads, pc[x] = "copy"
      PROVE  /\ x # t /\ pc'[x] = "copy" /\ Mine(x)' = Mine(x)
             /\ copy_start[x] + Len(Part(x)) <= tail
             /\ copy_start[x] \in Nat /\ Len(Part(x)) \in Nat /\ \A s \in Mine(x) : s \in Nat /\ s < tail
  <2>1. x # t /\ pc'[x] = "copy" /\ Mine(x)' = Mine(x)
    BY <1>0, <1>1, <1>3, <1>4 DEF Mine
  <2>2. copy_start[x] + Len(Part(x)) <= tail
    BY <1>0, <1>3, <1>4 DEF Apart, tail, n
  <2>3. copy_start[x] \in Nat /\ Len(Part(x)) \in Nat
    BY <1>0, PartFacts DEF TypeOK
  <2>4. \A s \in Mine(x) : s \in Nat /\ s < tail
    BY <1>2, <2>2, <2>3 DEF Mine
  <2> QED
    BY <2>1, <2>2, <2>3, <2>4
<1>5. Mine(t)' = tail .. tail + len - 1
  BY <1>1, <1>3 DEF Mine, len
<1>6. \A s : s \in Unfilled' <=> s \in Unfilled \/ s \in tail .. tail + len - 1
  <2>1. \A s : s \in Unfilled => s \in Unfilled'
    BY <1>4, UnfilledIs, UnfilledIsNext
  <2>2. \A s : s \in tail .. tail + len - 1 => s \in Unfilled'
    BY <1>1, <1>5, UnfilledIsNext
  <2>3. ASSUME NEW s, s \in Unfilled' PROVE s \in Unfilled \/ s \in tail .. tail + len - 1
    <3>1. PICK x \in Threads : pc'[x] = "copy" /\ s \in Mine(x)'
      BY <2>3, UnfilledIsNext
    <3>2. CASE x = t
      BY <1>5, <3>1, <3>2
    <3>3. CASE x # t
      <4>1. pc[x] = "copy"
        BY <1>1, <3>1, <3>3
      <4> QED
        BY <1>4, <3>1, <4>1, UnfilledIs
    <3> QED
      BY <3>2, <3>3
  <2> QED
    BY <2>1, <2>2, <2>3
<1>7. ASSUME NEW s \in Slots PROVE s \in Slots'
  <2>1. CASE s \in work
    BY <2>1, UnfilledIsNext
  <2>2. CASE s \notin work
    <3>1. s \notin Unfilled
      BY <2>2, UnfilledIs
    <3>2. PICK x \in Threads : pc[x] = "barrier2" /\ s \in 0 .. frontier_tails[curr(x)] - 1
      BY <2>2, UnfilledIs
    <3>3. s \in 0 .. tail - 1 /\ curr(x)' = n /\ pc'[x] = "barrier2"
      BY <1>0, <1>1, <1>3, <3>2 DEF tail, n
    <3>4. s \notin Unfilled' /\ s \in 0 .. frontier_tails'[n] - 1
      BY <1>2, <1>6, <3>1, <3>3
    <3> QED
      BY <3>3, <3>4, UnfilledIsNext
  <2> QED
    BY <2>1, <2>2
<1>8. Apart'
  <2>1. ASSUME NEW y \in Threads, NEW x \in Threads, y # x, pc'[y] = "copy", pc'[x] = "copy"
        PROVE  Mine(y)' \cap Mine(x)' = {}
    <3>1. CASE y # t /\ x # t
      <4>1. pc[y] = "copy" /\ pc[x] = "copy"
        BY <1>1, <2>1, <3>1
      <4> QED
        BY <1>0, <1>4, <2>1, <4>1 DEF Apart
    <3>2. CASE y = t
      <4>1. pc[x] = "copy"
        BY <1>1, <2>1, <3>2
      <4> QED
        BY <1>2, <1>4, <1>5, <3>2, <4>1
    <3>3. CASE x = t
      <4>1. pc[y] = "copy"
        BY <1>1, <2>1, <3>3
      <4> QED
        BY <1>2, <1>4, <1>5, <3>3, <4>1
    <3> QED
      BY <3>1, <3>2, <3>3
  <2>2. ASSUME NEW x \in Threads, pc'[x] = "copy"
        PROVE  copy_start'[x] + Len(Part(x)') <= frontier_tails'[Now(x)']
    <3>1. CASE x = t
      BY <1>1, <1>2, <1>3, <3>1 DEF len
    <3>2. CASE x # t
      <4>1. pc[x] = "copy" /\ copy_start'[x] = copy_start[x]
        BY <1>1, <2>2, <3>2
      <4>2. copy_start[x] + Len(Part(x)) <= tail
            /\ copy_start[x] \in Nat /\ Len(Part(x)) \in Nat
        BY <1>4, <4>1
      <4> QED
        BY <1>2, <1>3, <4>1, <4>2
    <3> QED
      BY <3>1, <3>2
  <2>3. ASSUME NEW p \in 0 .. 1, NEW s \in 0 .. frontier_tails'[p] - 1
        PROVE  s \in DOMAIN frontier' \cup Unfilled'
    <3>1. CASE s \in 0 .. frontier_tails[p] - 1
      BY <1>0, <1>1, <1>6, <3>1 DEF Apart
    <3>2. CASE s \notin 0 .. frontier_tails[p] - 1
      <4>1. p = n /\ s \in 0 .. tail + len - 1 /\ s \notin 0 .. tail - 1
        BY <1>2, <3>2 DEF tail
      <4>2. s \in tail .. tail + len - 1
        BY <1>2, <4>1
      <4> QED
        BY <1>6, <4>2
    <3> QED
      BY <3>1, <3>2
  <2> QED
    BY <2>1, <2>2, <2>3 DEF Apart
<1>9. BinsAbove'
  BY <1>0, <1>1, <1>3, SameInput DEF BinsAbove, Exchanging
<1>10. \A u \in V : Slotted(u) \/ (\E x \in Threads : Binned(x, u)) =>
                      Slotted(u)' \/ \E x \in Threads : Binned(x, u)'
  BY <1>1, <1>7 DEF Slotted, Binned
<1>11. \A x \in Threads : pc'[x] \in Exchanging /\ Now(x)' = Now(x) /\ Idx(x)' = Idx(x)
  BY <1>3
<1> QED
  BY <1>0, <1>8, <1>9, <1>10, <1>11, ExchangeStep

LEMMA CopyStep ==
    ASSUME IInv, NEW t \in Threads, Copy(t), UNCHANGED <<input, dist, work, curr_bin_copy, relaxing>>
    PROVE  IInv'
<1> DEFINE n == Now(t)
<1>0. TypeOK /\ Apart /\ BinsAbove /\ TypeOK' /\ pc[t] = "copy" /\ pc[t] \in Exchanging
  BY CopyType DEF IInv, Copy, Exchanging
<1>1. /\ pc'[t] = "barrier2" /\ \A x \in Threads : x # t => pc'[x] = pc[x]
      /\ UNCHANGED <<shared_indexes, frontier_tails, copy_start>>
      /\ n = next(t) /\ n \in 0 .. 1 /\ iter'[t] = n
      /\ \A x \in Threads : x # t => iter'[x] = iter[x]
  BY <1>0, ExchangeFrame DEF Copy, TypeOK
<1>2. ASSUME NEW x \in Threads
      PROVE  /\ pc[x] \in Exchanging /\ pc'[x] \in Exchanging
             /\ Now(x)' = Now(x) /\ Idx(x)' = Idx(x) /\ Now(x) = n
             /\ pc[x] = "barrier2" => curr(x) = n
             /\ pc'[x] = "barrier2" => curr(x)' = n
             /\ x # t => curr(x)' = curr(x) /\ next(x)' = next(x)
  <2>1. pc[x] \in Exchanging /\ Now(x) = n /\ (pc[x] = "barrier2" => curr(x) = n)
    BY <1>0, ExchangeFrame
  <2>2. pc'[x] \in Exchanging
    BY <1>1, <2>1 DEF Exchanging
  <2>3. x # t => curr(x)' = curr(x) /\ next(x)' = next(x)
    BY <1>1 DEF curr, next
  <2>4. curr(t)' = n /\ Now(t)' = n
    BY <1>1 DEF curr, Now
  <2>5. Now(x)' = Now(x)
    BY <1>1, <2>1, <2>3, <2>4 DEF Now
  <2>6. Idx(x)' = Idx(x)
    BY <1>1, <2>5 DEF Idx
  <2> QED
    BY <1>1, <2>1, <2>2, <2>3, <2>4, <2>5, <2>6
<1> HIDE DEF n
<1>b. /\ \A x \in Threads : x # t => local_bins'[x] = local_bins[x]
      /\ \A b \in Bins : b = shared_indexes[next(t)] => local_bins'[t][b] = <<>>
      /\ \A b \in Bins : b # shared_indexes[next(t)] => local_bins'[t][b] = local_bins[t][b]
  BY <1>0, CopyFacts
<1>3. ASSUME NEW x \in Threads, x # t
      PROVE  Part(x)' = Part(x) /\ Mine(x)' = Mine(x)
  <2>1. local_bins'[x] = local_bins[x]
    BY <1>3, <1>0, CopyFacts
  <2> QED
    BY <1>1, <1>2, <1>3, <2>1, SameInput DEF Part, Mine
<1>4. \A s : s \in Unfilled' => s \in Unfilled /\ s \notin Mine(t)
  <2>1. ASSUME NEW s, s \in Unfilled' PROVE s \in Unfilled /\ s \notin Mine(t)
    <3>1. PICK x \in Threads : pc'[x] = "copy" /\ s \in Mine(x)'
      BY <2>1, UnfilledIsNext
    <3>2. x # t /\ pc[x] = "copy" /\ s \in Mine(x)
      BY <1>1, <1>3, <3>1
    <3> QED
      BY <1>0, <3>2, UnfilledIs DEF Apart
  <2> QED
    BY <2>1
<1>5. \A s : s \in Unfilled => s \in Unfilled' \/ s \in Mine(t)
  <2>1. ASSUME NEW s, s \in Unfilled PROVE s \in Unfilled' \/ s \in Mine(t)
    <3>1. PICK x \in Threads : pc[x] = "copy" /\ s \in Mine(x)
      BY <2>1, UnfilledIs
    <3>2. CASE x = t
      BY <3>1, <3>2
    <3>3. CASE x # t
      BY <1>1, <1>3, <3>1, <3>3, UnfilledIsNext
    <3> QED
      BY <3>2, <3>3
  <2> QED
    BY <2>1
<1>6. Mine(t) \subseteq Unfilled
  BY <1>0, UnfilledIs
<1>7. ASSUME NEW s \in Slots \cap DOMAIN frontier
      PROVE  s \in Slots' \cap DOMAIN frontier' /\ frontier'[s] = frontier[s]
  <2>1. s \notin work
    BY <1>0, ExchangeFrame
  <2>2. s \notin Unfilled
    BY <2>1, UnfilledIs
  <2>3. PICK x \in Threads : pc[x] = "barrier2" /\ s \in 0 .. frontier_tails[curr(x)] - 1
    BY <2>1, UnfilledIs
  <2>4. x # t /\ pc'[x] = "barrier2" /\ s \notin Unfilled' /\ s \notin Mine(t)
    BY <1>0, <1>1, <1>4, <1>6, <2>2, <2>3
  <2>5. s \in Slots'
    BY <1>1, <1>2, <2>3, <2>4, UnfilledIsNext
  <2> QED
    BY <1>0, <2>4, <2>5, CopyFacts
<1>8. ASSUME NEW s \in Mine(t) PROVE s \in Slots' \cap DOMAIN frontier'
  <2>1. copy_start[t] + Len(Part(t)) <= frontier_tails[n] /\ frontier_tails[n] \in Nat
        /\ copy_start[t] \in Nat /\ Len(Part(t)) \in Nat
    BY <1>0, <1>1, <1>2, PartFacts DEF Apart, TypeOK
  <2>2. s \in 0 .. frontier_tails'[n] - 1
    BY <1>1, <2>1 DEF Mine
  <2>3. s \notin Unfilled' /\ curr(t)' = n
    BY <1>1, <1>2, <1>4
  <2>4. s \in Slots'
    BY <1>1, <2>2, <2>3, UnfilledIsNext
  <2> QED
    BY <1>0, <2>4, CopyFacts
<1>9. Apart'
  <2>1. ASSUME NEW y \in Threads, NEW x \in Threads, y # x, pc'[y] = "copy", pc'[x] = "copy"
        PROVE  Mine(y)' \cap Mine(x)' = {}
    <3>1. y # t /\ x # t /\ pc[y] = "copy" /\ pc[x] = "copy"
      BY <1>1, <2>1
    <3> QED
      BY <1>0, <1>3, <2>1, <3>1 DEF Apart
  <2>2. ASSUME NEW x \in Threads, pc'[x] = "copy"
        PROVE  copy_start'[x] + Len(Part(x)') <= frontier_tails'[Now(x)']
    <3>1. x # t /\ pc[x] = "copy"
      BY <1>1, <2>2
    <3> QED
      BY <1>0, <1>1, <1>2, <1>3, <3>1 DEF Apart
  <2>3. ASSUME NEW p \in 0 .. 1, NEW s \in 0 .. frontier_tails'[p] - 1
        PROVE  s \in DOMAIN frontier' \cup Unfilled'
    <3>1. s \in DOMAIN frontier \cup Unfilled
      BY <1>0, <1>1 DEF Apart
    <3> QED
      BY <1>0, <1>5, <3>1, CopyFacts
  <2> QED
    BY <2>1, <2>2, <2>3 DEF Apart
<1>10. BinsAbove'
  <2>0. Bins' = Bins
    BY SameInput
  <2>1. Idx(t) = shared_indexes[next(t)]
    BY <1>1, <1>2 DEF Idx
  <2>2. ASSUME NEW x \in Threads, NEW b \in Bins
        PROVE  local_bins'[x][b] = local_bins[x][b]
               \/ (x = t /\ b = Idx(t) /\ local_bins'[x][b] = <<>>)
    BY <1>b, <2>1
  <2>3. \A b \in Bins : b = Idx(t) => local_bins'[t][b] = <<>>
    BY <1>b, <2>1
  <2>4. \A x \in Threads : pc'[x] # "barrier1"
    BY <1>2 DEF Exchanging
  <2>5. ASSUME NEW x \in Threads, NEW b \in Bins, local_bins'[x][b] # <<>> PROVE b >= Idx(x)'
    BY <1>0, <1>2, <2>2, <2>5 DEF BinsAbove
  <2>6. ASSUME NEW x \in Threads, pc'[x] = "barrier2", NEW b \in Bins, b = Idx(x)'
        PROVE  local_bins'[x][b] = <<>>
    <3>1. CASE x = t
      BY <1>2, <2>3, <2>6, <3>1
    <3>2. CASE x # t
      <4>1. pc[x] = "barrier2" /\ b = Idx(x)
        BY <1>1, <1>2, <2>6, <3>2
      <4> QED
        BY <1>0, <2>2, <4>1 DEF BinsAbove
    <3> QED
      BY <3>1, <3>2
  <2> QED
    BY <2>0, <2>4, <2>5, <2>6 DEF BinsAbove
<1>11. ASSUME NEW u \in V, Slotted(u) \/ \E x \in Threads : Binned(x, u)
       PROVE  Slotted(u)' \/ \E x \in Threads : Binned(x, u)'
  <2>1. CASE Slotted(u)
    BY <1>7, <2>1 DEF Slotted
  <2>2. ASSUME NEW x \in Threads, Binned(x, u) PROVE Slotted(u)' \/ Binned(x, u)'
    <3> DEFINE b == dist[u] \div input.delta
    <3>1. b \in Bins /\ u \in ToSet(local_bins[x][b])
      BY <1>0, <2>2, BinOf DEF Binned, TypeOK
    <3>2. CASE local_bins'[x][b] = local_bins[x][b]
      BY <3>1, <3>2 DEF Binned
    <3>3. CASE x = t /\ b = shared_indexes[next(t)]
      <4>1. Part(t) = local_bins[t][b]
        BY <1>0, <3>1, <3>3, PartFacts
      <4>2. PICK s \in Mine(t) : frontier'[s] = u
        BY <1>0, <3>1, <3>3, <4>1, CopyFacts
      <4> QED
        BY <1>8, <4>2 DEF Slotted
    <3> QED
      BY <1>b, <3>1, <3>2, <3>3
  <2> QED
    BY <1>11, <2>1, <2>2
<1>12. \A x \in Threads : pc'[x] \in Exchanging /\ Now(x)' = Now(x) /\ Idx(x)' = Idx(x)
  BY <1>2
<1> QED
  BY <1>0, <1>9, <1>10, <1>11, <1>12, ExchangeStep

LEMMA Barrier2Step ==
    ASSUME IInv, Barrier2
    PROVE  IInv'
<1>0. /\ TypeOK /\ Together /\ Hands /\ Bounds /\ Apart /\ BinsAbove /\ Far /\ Settled
      /\ Lower /\ SourceZero /\ TypeOK'
  BY Barrier2Type DEF IInv
<1>1. /\ \A x \in Threads : pc[x] = "barrier2" /\ pc'[x] = "loop"
      /\ UNCHANGED <<input, dist, frontier, shared_indexes, frontier_tails, iter, local_bins,
                     curr_bin_copy, relaxing, copy_start>>
      /\ V' = V /\ Bins' = Bins /\ \A u : out_neigh(u)' = out_neigh(u)
  BY <1>0, SameInput DEF Barrier2, Each, shared
<1>2. PICK t \in Threads : work' = 0 .. frontier_tails[curr(t)] - 1
  BY DEF Barrier2
<1>3. \A x \in Threads : Now(x) = curr(x) /\ Now(x)' = curr(x) /\ curr(x) = curr(t)
  <2>1. \A x \in Threads : Now(x) = curr(x) /\ Now(x)' = curr(x)
    BY <1>1 DEF Now, curr
  <2> QED
    BY <1>0, <2>1 DEF Together
<1>4. \A x \in Threads : Idx(x)' = Idx(x) /\ Floor(x)' = Floor(x)
  BY <1>1, <1>3 DEF Idx, Floor
<1>5. Together'
  BY <1>1, <1>3 DEF Together, Exchanging, Relaxing
<1>6. Hands' /\ Bounds'
  <2>1. ASSUME NEW x \in Threads PROVE HandsOf(x)' /\ BoundsOf(x)'
    <3>1. HandsOf(x)
      BY <1>0, HandsAll
    <3> QED
      BY <1>1, <3>1 DEF HandsOf, BoundsOf, Relaxing, relaxing
  <2> QED
    BY <2>1, HandsAllNext
<1>7. Unfilled = {} /\ Unfilled' = {}
  BY <1>1 DEF Unfilled
<1>8. Apart'
  BY <1>0, <1>1, <1>7 DEF Apart
<1>9. BinsAbove'
  BY <1>0, <1>1, <1>4 DEF BinsAbove
<1>10. Far'
  <2>1. \A x \in Threads : curr_bin_copy'[x] = <<>>
    BY <1>0, <1>1 DEF Hands, Relaxing
  <2>2. \A x \in Threads : \A b \in Bins : b = Idx(x)' => local_bins'[x][b] = <<>>
    BY <1>0, <1>1, <1>4 DEF BinsAbove
  <2> QED
    BY <1>1, <2>1, <2>2 DEF Far, Relaxing, ToSet
<1>11. \A s \in Slots : s \in Slots'
  <2>1. work = {}
    BY <1>0, <1>1, ThreadsAssumption DEF Together, Exchanging
  <2>2. \A s \in Slots : s \in work'
    BY <1>1, <1>2, <1>3, <2>1, UnfilledIs
  <2> QED
    BY <2>2, UnfilledIsNext
<1>12. Settled'
  <2>1. ASSUME NEW u \in V, NEW e \in ToSet(out_neigh(u)), dist[u] + e[2] < dist[e[1]]
        PROVE  (\A x \in Threads : dist[u] >= Floor(x)) /\ PendingEdge(u, e)'
    <3>1. (\A x \in Threads : dist[u] >= Floor(x)) /\ PendingEdge(u, e)
      BY <1>0, <2>1 DEF Settled
    <3>2. Slotted(u) \/ \E x \in Threads : Binned(x, u)
      BY <1>0, <1>1, <3>1, IdlePending DEF Relaxing
    <3>3. Slotted(u)' \/ \E x \in Threads : Binned(x, u)'
      BY <1>1, <1>11, <3>2 DEF Slotted, Binned
    <3> QED
      BY <3>1, <3>3 DEF PendingEdge
  <2> QED
    BY <1>1, <1>4, <2>1 DEF Settled
<1>13. Lower' /\ SourceZero'
  BY <1>0, <1>1, SameLower
<1> QED
  BY <1>0, <1>5, <1>6, <1>8, <1>9, <1>10, <1>12, <1>13 DEF IInv

-----------------------------------------------------------------------------
(* The theorems.                                                           *)

LEMMA InitInv ==
    Init => IInv
<1> SUFFICES ASSUME Init PROVE IInv
  OBVIOUS
<1>0. TypeOK
  BY TypeInit
<1>1. /\ \A t \in Threads : pc[t] = "loop" /\ iter[t] = 0 /\ todo[t] = <<>> /\ curr_bin_copy[t] = <<>>
                            /\ \A b \in Bins : local_bins[t][b] = <<>>
      /\ work = {0} /\ DOMAIN frontier = {0} /\ frontier[0] = input.source
      /\ shared_indexes[0] = 0 /\ frontier_tails[0] = 1 /\ frontier_tails[1] = 0
      /\ dist = [v \in V |-> IF v = input.source THEN 0 ELSE kDistInf]
  BY DEF Init, Each
<1>2. /\ input \in Inputs /\ V = Nodes(input) /\ input.source \in V /\ input.delta \in Nat
      /\ kDistInf \in Nat
  BY <1>0, InputFacts
<1>3. \A t \in Threads : Now(t) = 0 /\ Idx(t) = 0 /\ Floor(t) = 0
  <2>1. \A t \in Threads : Now(t) = 0
    BY <1>1 DEF Now, curr
  <2> QED
    BY <1>1, <1>2, <2>1 DEF Idx, Floor
<1>4. kMaxBin # 0
  BY BoundsAssumption
<1>5. Together
  BY <1>1, <1>3 DEF Together, Exchanging, Relaxing
<1>6. Hands
  BY <1>1 DEF Hands, Relaxing
<1>7. Bounds
  BY <1>1 DEF Bounds
<1>8. Apart
  <2>1. \A p \in 0 .. 1 : \A s \in 0 .. frontier_tails[p] - 1 : s \in DOMAIN frontier
    <3>1. \A p \in 0 .. 1 : p = 0 \/ p = 1
      OBVIOUS
    <3> QED
      BY <1>1, <3>1
  <2> QED
    BY <1>1, <2>1 DEF Apart
<1>9. BinsAbove
  BY <1>1 DEF BinsAbove
<1>10. Far
  BY <1>1 DEF Far, Relaxing, ToSet
<1>11. SourceZero
  BY <1>1, <1>2 DEF SourceZero
<1>12. Lower
  <2>1. ASSUME NEW v \in V PROVE dist[v] >= Shortest(input)[v]
    <3>1. Shortest(input)[v] \in 0 .. kDistInf /\ Shortest(input)[input.source] = 0
      BY <1>2, ShortestFacts, ShortestFeasible
    <3> QED
      BY <1>1, <1>2, <3>1
  <2> QED
    BY <2>1 DEF Lower
<1>13. Settled
  <2>1. ASSUME NEW u \in V, NEW e \in ToSet(out_neigh(u)), dist[u] + e[2] < dist[e[1]]
        PROVE  (\A t \in Threads : dist[u] >= Floor(t)) /\ PendingEdge(u, e)
    <3>1. e[1] \in V /\ e[2] \in Nat
      BY <1>0, InputFacts
    <3>2. u = input.source
      BY <1>1, <1>2, <2>1, <3>1
    <3>3. 0 \in Slots
      BY <1>1, UnfilledIs
    <3>4. Slotted(u)
      BY <1>1, <3>2, <3>3 DEF Slotted
    <3>5. dist[u] = 0
      BY <1>1, <3>2
    <3> QED
      BY <1>3, <3>4, <3>5 DEF PendingEdge
  <2> QED
    BY <2>1 DEF Settled
<1> QED
  BY <1>0, <1>5, <1>6, <1>7, <1>8, <1>9, <1>10, <1>11, <1>12, <1>13 DEF IInv

LEMMA StutterStep ==
    ASSUME IInv, UNCHANGED vars
    PROVE  IInv'
<1>1. UNCHANGED <<input, dist, frontier, shared_indexes, frontier_tails, work, pc, iter, local_bins,
                  curr_bin_copy, at, todo, old_dist, new_dist, copy_start>>
  BY DEF vars, shared, relaxing
<1>2. TypeOK'
  BY <1>1, SameInput DEF IInv, TypeOK
<1>3. /\ Unfilled' = Unfilled /\ Slots' = Slots /\ Bins' = Bins /\ V' = V
      /\ \A t : /\ Now(t)' = Now(t) /\ Idx(t)' = Idx(t) /\ Floor(t)' = Floor(t)
                /\ next(t)' = next(t) /\ Part(t)' = Part(t) /\ Mine(t)' = Mine(t)
  BY <1>1 DEF Unfilled, Slots, Bins, V, Now, Idx, Floor, next, curr, Part, Mine
<1>4. Together' /\ Apart' /\ BinsAbove' /\ Far'
  BY <1>1, <1>3 DEF IInv, Together, Apart, BinsAbove, Far
<1>5. Hands' /\ Bounds'
  BY <1>1 DEF IInv, Hands, Bounds, out_neigh, v_, w_
<1>6. Settled'
  <2>1. \A u, e : PendingEdge(u, e)' = PendingEdge(u, e)
    BY <1>1, <1>3 DEF PendingEdge, Slotted, Binned, Copied, InHands
  <2>2. \A u : out_neigh(u)' = out_neigh(u)
    BY <1>1 DEF out_neigh
  <2> QED
    BY <1>1, <1>3, <2>1, <2>2 DEF IInv, Settled
<1>7. Lower' /\ SourceZero'
  BY <1>1, <1>3 DEF IInv, Lower, SourceZero
<1> QED
  BY <1>2, <1>4, <1>5, <1>6, <1>7 DEF IInv

LEMMA NextInv ==
    IInv /\ [Next]_vars => IInv'
<1> SUFFICES ASSUME IInv, [Next]_vars PROVE IInv'
  OBVIOUS
<1>1. CASE Barrier1
  BY <1>1, Barrier1Step
<1>2. CASE Barrier2
  BY <1>2, Barrier2Step
<1>3. ASSUME NEW t \in Threads, RelaxEdges(t) PROVE IInv'
  BY <1>3, WorkStep
<1>4. ASSUME NEW t \in Threads, Propose(t) PROVE IInv'
  BY <1>4, ProposeStep
<1>5. ASSUME NEW t \in Threads, Exchange(t) PROVE IInv'
  BY <1>5, SingleStep, ReserveStep, CopyStep DEF Exchange
<1>6. CASE UNCHANGED vars
  BY <1>6, StutterStep
<1> QED
  BY <1>1, <1>2, <1>3, <1>4, <1>5, <1>6 DEF Next, ThreadStep, Terminated

(* The search keeps its invariant: types (the frontier never has a slot    *)
(* past the end of its array), threads in step, an edge that can still     *)
(* lower a distance far enough and pending, and no distance below the      *)
(* shortest. A run that is to copy past the end goes no further here.      *)
THEOREM SearchInvariant == Spec => []IInv
BY InitInv, NextInv, PTL DEF Spec

(* No lowered distance is forgotten (lines 112 to 122 and 171 to 190), as  *)
(* long as what has been pushed fits into the frontier's array; with bins  *)
(* of width 1 that is always, by FrontierFitsHolds.                        *)
THEOREM NothingForgottenHolds == Spec => []NothingForgotten
<1>1. IInv => NothingForgotten
  <2> SUFFICES ASSUME IInv, NEW u \in V, NEW e \in ToSet(out_neigh(u)), dist[u] + e[2] < dist[e[1]]
               PROVE  \/ \E s \in Slots \cap DOMAIN frontier : frontier[s] = u
                      \/ \E t \in Threads :
                           \/ u \in ToSet(local_bins[t][dist[u] \div input.delta])
                           \/ u \in ToSet(curr_bin_copy[t])
                           \/ at[t] = u /\ e \in ToSet(todo[t])
    BY DEF NothingForgotten
  <2>1. PendingEdge(u, e)
    BY DEF IInv, Settled
  <2> QED
    BY <2>1 DEF PendingEdge, Slotted, Binned, Copied, InHands
<1> QED
  BY <1>1, SearchInvariant, PTL

(* Below the bin an iteration works on distances are exact, and all are    *)
(* when every thread has left the loop (the loop test of line 158): a run  *)
(* that overruns the frontier never gets there.                            *)
THEOREM DistancesExactHolds == Spec => []DistancesExact
<1>1. IInv => DistancesExact
  <2> SUFFICES ASSUME IInv PROVE DistancesExact
    OBVIOUS
  <2> DEFINE S == Shortest(input)
  <2>0. /\ TypeOK /\ Together /\ Settled /\ Lower /\ SourceZero
        /\ input \in Inputs /\ V = Nodes(input) /\ S \in [V -> 0 .. kDistInf]
        /\ kDistInf \in Nat /\ kMaxBin > kDistInf
    BY InputFacts, ShortestFacts DEF IInv
  <2>1. dist \in [V -> 0 .. kDistInf] /\ dist \in [Nodes(input) -> Nat]
    <3>1. dist \in [V -> 0 .. kDistInf]
      BY <2>0 DEF TypeOK
    <3>2. \A v \in V : dist[v] \in Nat
      BY <2>0, <3>1
    <3> QED
      BY <2>0, <3>1, <3>2
  <2>2. \A v \in V : dist[v] >= S[v]
    BY <2>0 DEF Lower
  <2>3. ASSUME NEW t \in Threads, NEW v \in V PROVE dist[v] = S[v] \/ S[v] >= Floor(t)
    <3>1. Floor(t) \in Nat
      BY <2>0, FloorFacts
    <3>2. \A u \in Nodes(input) : \A e \in RowEdges(input, u) :
             dist[u] + e[2] < dist[e[1]] => dist[u] >= Floor(t)
      BY <2>0 DEF Settled, RowEdges, out_neigh
    <3>3. \A x \in AllWalks(input) : dist[x[1]] <= x[2] \/ x[2] >= Floor(t)
      BY <2>0, <2>1, <3>1, <3>2, SettledBelow DEF SourceZero
    <3>4. S[v] \in Nat /\ dist[v] \in Nat /\ dist[v] <= kDistInf
      BY <2>0, <2>1
    <3>5. CASE S[v] = kDistInf
      BY <2>0, <2>2, <3>4, <3>5
    <3>6. CASE <<v, S[v]>> \in AllWalks(input)
      <4> DEFINE x == <<v, S[v]>>
      <4>1. x \in AllWalks(input) /\ x[1] = v /\ x[2] = S[v]
        BY <3>6
      <4> HIDE DEF x
      <4>2. dist[v] <= S[v] \/ S[v] >= Floor(t)
        BY <3>3, <4>1
      <4> HIDE DEF S
      <4> QED
        BY <2>2, <3>4, <4>2
    <3> QED
      BY <2>0, <3>5, <3>6, ShortestFacts
  <2>4. ASSUME NEW t \in Threads, pc[t] = "loop", NEW v \in V
        PROVE  dist[v] = S[v] \/ S[v] >= input.delta * shared_indexes[curr(t)]
    <3>1. Floor(t) = input.delta * shared_indexes[curr(t)]
      BY <2>4 DEF Floor, Idx, Now
    <3> QED
      BY <2>3, <3>1
  <2>5. ASSUME \A t \in Threads : pc[t] = "end" PROVE dist = S
    <3>1. PICK t \in Threads : TRUE
      BY ThreadsAssumption
    <3>2. Floor(t) > kDistInf /\ Floor(t) \in Nat
      BY <2>0, <2>5, FloorFacts DEF Together
    <3>3. ASSUME NEW v \in V PROVE dist[v] = S[v]
      <4>1. S[v] \in Nat /\ S[v] <= kDistInf
        BY <2>0
      <4> QED
        BY <2>0, <2>3, <3>2, <4>1
    <3> QED
      BY <2>0, <2>1, <3>3
  <2> QED
    BY <2>0, <2>2, <2>4, <2>5 DEF DistancesExact
<1> QED
  BY <1>1, SearchInvariant, PTL

-----------------------------------------------------------------------------
(* The frontier's length, with bins of width 1. A vertex is pushed into    *)
(* the bin of its new distance, and never comes to that distance again:    *)
(* the threads' parts of a bin together hold a vertex once. So the slots   *)
(* that have been reserved can be given different vertices, each with an   *)
(* edge to it, and there are no more of those than edges.                  *)

(* The vertices that an edge leads to.                                     *)
Heads == {v \in V : \E u \in V : \E e \in ToSet(out_neigh(u)) : e[1] = v}

(* What is in a bin of width 1 was lowered to that distance, over an edge, *)
(* and is no farther since.                                                *)
Pushed ==
    \A t \in Threads : \A b \in Bins : \A i \in DOMAIN local_bins[t][b] :
        dist[local_bins[t][b][i]] <= b /\ local_bins[t][b][i] \in Heads

(* No two places of the threads' parts of a bin hold the same vertex.      *)
OnceEach ==
    \A t, x \in Threads : \A b \in Bins :
        \A i \in DOMAIN local_bins[t][b], j \in DOMAIN local_bins[x][b] :
            local_bins[t][b][i] = local_bins[x][b][j] => t = x /\ i = j

(* The tail not in use is 0, unless the single has still to reset it.      *)
Cleared ==
    \A t \in Threads : \A p \in 0 .. 1 :
        p # Now(t) /\ (\A x \in Threads : pc[x] # "single") => frontier_tails[p] = 0

(* f gives the slots below the tail different vertices, and none that is   *)
(* in a part still without slots.                                          *)
Given(t, f) ==
    /\ f \in [0 .. frontier_tails[Now(t)] - 1 -> Heads]
    /\ \A r, s \in 0 .. frontier_tails[Now(t)] - 1 : f[r] = f[s] => r = s
    /\ \A s \in 0 .. frontier_tails[Now(t)] - 1 : \A x \in Threads :
          pc[x] \in {"single", "reserve"} => f[s] \notin ToSet(Part(x))

SlotsGiven == \A t \in Threads : pc[t] \in Exchanging => \E f : Given(t, f)

FitInv == Cleared /\ (input.delta = 1 => Pushed /\ OnceEach /\ SlotsGiven)

LEMMA HeadsFacts ==
    ASSUME TypeOK
    PROVE  IsFiniteSet(Heads) /\ Cardinality(Heads) \in Nat /\ Cardinality(Heads) <= num_edges_directed
<1> DEFINE H == {e \in Edges : out_neigh(e[1])[e[2]][1] \in Heads}
           f == [e \in H |-> out_neigh(e[1])[e[2]][1]]
<1>1. IsFiniteSet(Edges) /\ num_edges_directed \in Nat
  BY EdgesCount DEF TypeOK
<1>2. IsFiniteSet(H) /\ Cardinality(H) <= Cardinality(Edges)
  BY <1>1, FS_Subset
<1>3. ASSUME NEW v \in Heads PROVE \E e \in H : f[e] = v
  <2>1. PICK u \in V : \E e \in ToSet(out_neigh(u)) : e[1] = v
    BY DEF Heads
  <2>2. PICK i \in DOMAIN out_neigh(u) : out_neigh(u)[i][1] = v
    BY <2>1 DEF ToSet
  <2>3. <<u, i>> \in Edges
    BY <2>2 DEF Edges
  <2>4. <<u, i>> \in H /\ f[<<u, i>>] = v
    BY <2>2, <2>3
  <2> QED
    BY <2>4
<1>4. f \in [H -> Heads]
  OBVIOUS
<1> HIDE DEF H, f
<1>5. f \in Surjection(H, Heads)
  BY <1>3, <1>4 DEF Surjection
<1>6. IsFiniteSet(Heads) /\ Cardinality(Heads) <= Cardinality(H)
  BY <1>2, <1>5, FS_Surjection
<1>7. Cardinality(Heads) \in Nat /\ Cardinality(H) \in Nat /\ Cardinality(Edges) \in Nat
  BY <1>1, <1>2, <1>6, FS_CardinalityType
<1> QED
  BY <1>2, <1>6, <1>7 DEF num_edges_directed

LEMMA SameHeads ==
    ASSUME input' = input
    PROVE  Heads' = Heads
BY DEF Heads, V, out_neigh

(* Where bins only lose what they hold.                                    *)
LEMMA ShrinkOnce ==
    ASSUME TypeOK, Pushed, OnceEach, input' = input,
           \A v \in V : dist'[v] <= dist[v] /\ dist'[v] \in Nat /\ dist[v] \in Nat,
           \A x \in Threads : \A b \in Bins :
              local_bins'[x][b] = local_bins[x][b] \/ local_bins'[x][b] = <<>>
    PROVE  Pushed' /\ OnceEach'
<1>1. Bins' = Bins /\ Heads' = Heads /\ Bins \subseteq Nat
  BY SameInput, SameHeads, InputFacts
<1>2. ASSUME NEW x \in Threads, NEW b \in Bins, NEW i \in DOMAIN local_bins'[x][b]
      PROVE  i \in DOMAIN local_bins[x][b] /\ local_bins'[x][b][i] = local_bins[x][b][i]
  <2>1. DOMAIN <<>> = {}
    OBVIOUS
  <2> QED
    BY <2>1
<1>3. ASSUME NEW x \in Threads, NEW b \in Bins, NEW i \in DOMAIN local_bins'[x][b]
      PROVE  dist'[local_bins'[x][b][i]] <= b /\ local_bins'[x][b][i] \in Heads
  <2> DEFINE v == local_bins[x][b][i]
  <2>1. dist[v] <= b /\ v \in Heads /\ local_bins'[x][b][i] = v
    BY <1>2 DEF Pushed
  <2> HIDE DEF v
  <2>2. v \in V /\ b \in Nat
    BY <1>1, <2>1 DEF Heads
  <2>3. dist'[v] <= dist[v] /\ dist'[v] \in Nat /\ dist[v] \in Nat
    BY <2>2
  <2> QED
    BY <2>1, <2>2, <2>3
<1>4. Pushed'
  BY <1>1, <1>3 DEF Pushed
<1>5. OnceEach'
  BY <1>1, <1>2 DEF OnceEach
<1> QED
  BY <1>4, <1>5

(* A push: the bin of the new distance does not hold the vertex yet.       *)
LEMMA LowersOnce ==
    ASSUME TypeOK, Hands, Bounds, Pushed, OnceEach, input.delta = 1, input' = input,
           NEW t \in Threads, pc[t] = "cas", Lowers(t)
    PROVE  Pushed' /\ OnceEach'
<1> DEFINE v == v_(t)
           b == new_dist[t]
           q == local_bins[t][b]
<1>0. Bins' = Bins /\ Heads' = Heads /\ Bins \subseteq Nat
  BY SameInput, SameHeads, InputFacts
<1>1. b \in Nat /\ b \div 1 = b
  BY DEF TypeOK
<1>2. /\ v \in V /\ b < dist[v] /\ b \in Bins /\ dist'[v] = b
      /\ \A u \in V : dist'[u] <= dist[u]
      /\ dist' \in [V -> 0 .. kDistInf]
  BY <1>1, LowersFacts
<1>3. \A u \in V : dist[u] \in Nat /\ dist'[u] \in Nat
  BY <1>2, BoundsAssumption DEF TypeOK
<1>4. v \in Heads
  <2>1. todo[t] # <<>> /\ ToSet(todo[t]) \subseteq ToSet(out_neigh(at[t])) /\ at[t] \in V
    BY DEF Hands, Relaxing, TypeOK
  <2>2. Head(todo[t]) \in ToSet(out_neigh(at[t]))
    BY <2>1, EdgeInHands
  <2> QED
    BY <1>2, <2>1, <2>2 DEF Heads, v_
<1>5. /\ q \in Seq(V) /\ local_bins \in [Threads -> [Bins -> Seq(V)]]
      /\ local_bins' = [local_bins EXCEPT ![t][b] = Append(q, v)]
  <2>1. local_bins' = [local_bins EXCEPT ![t][b] = Append(@, v_(t))]
    BY <1>1 DEF Lowers
  <2> QED
    BY <1>2, <2>1 DEF TypeOK
<1> HIDE DEF v, b, q
<1>6. /\ Append(q, v) \in Seq(V) /\ DOMAIN Append(q, v) = DOMAIN q \cup {Len(q) + 1}
      /\ Append(q, v)[Len(q) + 1] = v /\ \A i \in DOMAIN q : Append(q, v)[i] = q[i]
  BY <1>2, <1>5
<1>7. /\ local_bins'[t][b] = Append(q, v)
      /\ \A c \in Bins : c # b => local_bins'[t][c] = local_bins[t][c]
      /\ \A x \in Threads : x # t => local_bins'[x] = local_bins[x]
  BY <1>2, <1>5
<1> DEFINE Old(x, c, i) == i \in DOMAIN local_bins[x][c] /\ local_bins'[x][c][i] = local_bins[x][c][i]
           Added(x, c, i) == x = t /\ c = b /\ i = Len(q) + 1 /\ local_bins'[x][c][i] = v
<1>8. ASSUME NEW x \in Threads, NEW c \in Bins, NEW i \in DOMAIN local_bins'[x][c]
      PROVE  Old(x, c, i) \/ Added(x, c, i)
  BY <1>6, <1>7 DEF q
<1>9. \A x \in Threads, c \in Bins : \A i \in DOMAIN local_bins[x][c] :
          dist[local_bins[x][c][i]] <= c /\ local_bins[x][c][i] \in Heads
  BY DEF Pushed
<1>10. \A u \in Heads : u \in V
  BY DEF Heads
<1>11. ASSUME NEW x \in Threads, NEW c \in Bins, NEW i \in DOMAIN local_bins'[x][c]
       PROVE  dist'[local_bins'[x][c][i]] <= c /\ local_bins'[x][c][i] \in Heads
  <2>1. CASE Old(x, c, i)
    <3> DEFINE u == local_bins[x][c][i]
    <3>1. dist[u] <= c /\ u \in Heads /\ local_bins'[x][c][i] = u
      BY <1>9, <2>1
    <3> HIDE DEF u
    <3>2. dist'[u] <= dist[u] /\ dist'[u] \in Nat /\ dist[u] \in Nat /\ c \in Nat
      BY <1>0, <1>2, <1>3, <1>10, <3>1
    <3> QED
      BY <3>1, <3>2
  <2>2. CASE Added(x, c, i)
    BY <1>1, <1>2, <1>4, <2>2
  <2> QED
    BY <1>8, <2>1, <2>2
<1>12. Pushed'
  BY <1>0, <1>11 DEF Pushed
<1>13. ASSUME NEW x \in Threads, NEW i \in DOMAIN local_bins[x][b] PROVE local_bins[x][b][i] # v
  <2>1. dist[local_bins[x][b][i]] <= b
    BY <1>2, <1>9
  <2>2. ~ (dist[v] <= b)
    BY <1>1, <1>2, <1>3
  <2> QED
    BY <2>1, <2>2
<1>14. ASSUME NEW y \in Threads, NEW x \in Threads, NEW c \in Bins,
              NEW i \in DOMAIN local_bins'[y][c], NEW j \in DOMAIN local_bins'[x][c],
              local_bins'[y][c][i] = local_bins'[x][c][j]
       PROVE  y = x /\ i = j
  <2>1. CASE Old(y, c, i) /\ Old(x, c, j)
    <3>1. /\ local_bins[y][c][i] = local_bins[x][c][j]
          /\ i \in DOMAIN local_bins[y][c] /\ j \in DOMAIN local_bins[x][c]
      BY <1>14, <2>1
    <3> QED
      BY <3>1 DEF OnceEach
  <2>2. CASE Added(y, c, i) /\ Added(x, c, j)
    BY <2>2
  <2>3. CASE Old(y, c, i) /\ Added(x, c, j)
    BY <1>13, <1>14, <2>3
  <2>4. CASE Added(y, c, i) /\ Old(x, c, j)
    BY <1>13, <1>14, <2>4
  <2> QED
    BY <1>8, <2>1, <2>2, <2>3, <2>4
<1>15. OnceEach'
  BY <1>0, <1>14 DEF OnceEach
<1> QED
  BY <1>12, <1>15

(* Relaxing.                                                               *)
LEMMA WorkFits ==
    ASSUME IInv, FitInv, NEW t \in Threads, RelaxEdges(t)
    PROVE  FitInv'
<1>0. TypeOK /\ Together /\ Hands /\ Bounds
  BY DEF IInv
<1>1. /\ \A x \in Threads : Now(x)' = Now(x) /\ pc[x] \notin Exchanging /\ pc'[x] \notin Exchanging
      /\ input' = input /\ frontier_tails' = frontier_tails
  BY <1>0, WorkFrame, WorkLocal
<1>2. Cleared'
  BY <1>1 DEF FitInv, Cleared, Exchanging
<1>3. SlotsGiven'
  BY <1>1 DEF SlotsGiven
<1>4. ASSUME input.delta = 1 PROVE Pushed' /\ OnceEach'
  <2>0. Pushed /\ OnceEach
    BY <1>4 DEF FitInv
  <2>1. CASE Swap(t) /\ Lowers(t)
    <3>1. pc[t] = "cas"
      BY <2>1, SwapCases
    <3> QED
      BY <1>0, <1>1, <1>4, <2>0, <2>1, <3>1, LowersOnce
  <2>2. CASE ~ (Swap(t) /\ Lowers(t))
    <3>1. \A x \in Threads : \A b \in Bins :
             local_bins'[x][b] = local_bins[x][b] \/ local_bins'[x][b] = <<>>
      BY <1>0, <2>2, WorkBins
    <3>2. \A v \in V : dist'[v] <= dist[v] /\ dist'[v] \in Nat /\ dist[v] \in Nat
      BY <1>0, WorkDown
    <3> QED
      BY <1>0, <1>1, <2>0, <3>1, <3>2, ShrinkOnce
  <2> QED
    BY <2>1, <2>2
<1> QED
  BY <1>1, <1>2, <1>3, <1>4 DEF FitInv

(* The other steps leave distances, and what bins keep, as they are.       *)
LEMMA IdleOnce ==
    ASSUME TypeOK, FitInv, UNCHANGED <<input, dist>>,
           \A x \in Threads : \A b \in Bins :
              local_bins'[x][b] = local_bins[x][b] \/ local_bins'[x][b] = <<>>
    PROVE  input'.delta = 1 => Pushed' /\ OnceEach'
<1>1. \A v \in V : dist[v] \in Nat
  BY BoundsAssumption DEF TypeOK
<1>2. \A v \in V : dist'[v] <= dist[v] /\ dist'[v] \in Nat /\ dist[v] \in Nat
  BY <1>1
<1> QED
  BY <1>2, ShrinkOnce DEF FitInv

LEMMA ProposeFits ==
    ASSUME IInv, FitInv, NEW t \in Threads, Propose(t)
    PROVE  FitInv'
<1>0. TypeOK /\ Together
  BY DEF IInv
<1>1. /\ pc[t] = "take" /\ pc'[t] = "barrier1" /\ \A x \in Threads : x # t => pc'[x] = pc[x]
      /\ UNCHANGED <<input, dist, frontier_tails, iter, local_bins>>
  BY <1>0 DEF Propose, TypeOK
<1>2. \A x \in Threads : pc[x] \notin Exchanging /\ pc'[x] \notin Exchanging
  BY <1>0, <1>1 DEF Together, Exchanging
<1>3. \A x \in Threads : Now(x)' = Now(x)
  BY <1>1, <1>2 DEF Now, Exchanging, curr, next
<1>4. Cleared'
  BY <1>1, <1>2, <1>3 DEF FitInv, Cleared, Exchanging
<1>5. SlotsGiven'
  BY <1>2 DEF SlotsGiven
<1> QED
  BY <1>0, <1>1, <1>4, <1>5, IdleOnce DEF FitInv

(* The tail that the exchange counts in is 0 when it begins.               *)
LEMMA Barrier1Fits ==
    ASSUME IInv, FitInv, Barrier1
    PROVE  FitInv'
<1>0. TypeOK /\ Together
  BY DEF IInv
<1>1. /\ \A x \in Threads : pc[x] = "barrier1" /\ pc'[x] \in {"single", "reserve"}
      /\ \E s \in Threads : pc'[s] = "single"
      /\ UNCHANGED <<input, dist, frontier_tails, iter, local_bins>>
  BY DEF Barrier1, Each, shared
<1>2. \A x \in Threads : /\ Now(x) = curr(x) /\ Now(x)' = next(x) /\ next(x) # curr(x)
                         /\ next(x) \in 0 .. 1
  BY <1>0, <1>1, FloorFacts DEF Now, curr, next
<1>3. Cleared'
  BY <1>1 DEF Cleared
<1>4. ASSUME NEW t \in Threads PROVE \E f : Given(t, f)'
  <2>1. frontier_tails'[Now(t)'] = 0
    BY <1>1, <1>2 DEF FitInv, Cleared
  <2> DEFINE f == [s \in {} |-> 0]
  <2>2. 0 .. 0 - 1 = {}
    OBVIOUS
  <2>3. f \in [{} -> Heads'] /\ DOMAIN f = {}
    OBVIOUS
  <2> HIDE DEF f
  <2>4. Given(t, f)'
    BY <2>1, <2>2, <2>3 DEF Given
  <2> QED
    BY <2>4
<1>5. SlotsGiven'
  BY <1>4 DEF SlotsGiven
<1> QED
  BY <1>0, <1>1, <1>3, <1>5, IdleOnce DEF FitInv

LEMMA Barrier2Fits ==
    ASSUME IInv, FitInv, Barrier2
    PROVE  FitInv'
<1>1. /\ \A x \in Threads : pc[x] = "barrier2" /\ pc'[x] = "loop"
      /\ UNCHANGED <<input, dist, frontier_tails, iter, local_bins>>
  BY DEF Barrier2, Each, shared
<1>2. \A x \in Threads : Now(x)' = Now(x)
  BY <1>1 DEF Now, curr, next
<1>3. Cleared'
  BY <1>1, <1>2 DEF FitInv, Cleared
<1>4. SlotsGiven'
  BY <1>1 DEF SlotsGiven, Exchanging
<1> QED
  BY <1>1, <1>3, <1>4, IdleOnce DEF FitInv, IInv

(* In the exchange the slots stay given while the tail in use stays, and   *)
(* no part without slots is another than before.                           *)
LEMMA StayGiven ==
    ASSUME SlotsGiven, input' = input, NEW t \in Threads, pc[t] \in Exchanging,
           Now(t)' = Now(t), frontier_tails'[Now(t)] = frontier_tails[Now(t)],
           \A x \in Threads : pc'[x] \in {"single", "reserve"} =>
              pc[x] \in {"single", "reserve"} /\ Part(x)' = Part(x)
    PROVE  \E f : Given(t, f)'
<1>1. PICK f : Given(t, f)
  BY DEF SlotsGiven
<1>2. Heads' = Heads
  BY SameHeads
<1>3. Given(t, f)'
  BY <1>1, <1>2 DEF Given
<1> QED
  BY <1>3

LEMMA SingleFits ==
    ASSUME IInv, FitInv, NEW t \in Threads, Single(t),
           UNCHANGED <<input, dist, work, curr_bin_copy, relaxing>>
    PROVE  FitInv'
<1>0. TypeOK
  BY DEF IInv
<1>1. /\ pc[t] = "single" /\ pc'[t] = "reserve" /\ \A x \in Threads : x # t => pc'[x] = pc[x]
      /\ UNCHANGED <<input, dist, iter, local_bins>>
      /\ frontier_tails' = [frontier_tails EXCEPT ![curr(t)] = 0]
      /\ shared_indexes' = [shared_indexes EXCEPT ![curr(t)] = kMaxBin]
  BY <1>0 DEF Single, TypeOK
<1>2. /\ curr(t) \in 0 .. 1 /\ curr(t) # Now(t)
      /\ \A x \in Threads : /\ Now(x) = Now(t) /\ Now(x) \in 0 .. 1 /\ pc[x] \in Exchanging
                            /\ pc[x] # "barrier2" => Now(x) = next(x)
  BY <1>0, <1>1, ExchangeFrame, FloorFacts DEF Exchanging
<1>3. \A x \in Threads : Now(x)' = Now(x)
  BY <1>1 DEF Now, curr, next
<1>4. /\ frontier_tails'[curr(t)] = 0 /\ frontier_tails'[Now(t)] = frontier_tails[Now(t)]
      /\ shared_indexes'[Now(t)] = shared_indexes[Now(t)]
  BY <1>0, <1>1, <1>2 DEF TypeOK
<1>5. \A p \in 0 .. 1 : p # Now(t) => p = curr(t)
  BY <1>2
<1>6. Cleared'
  BY <1>2, <1>3, <1>4, <1>5 DEF Cleared
<1>7. ASSUME NEW x \in Threads, pc[x] # "barrier2" PROVE Part(x)' = Part(x)
  <2>1. next(x)' = next(x) /\ next(x) = Now(t) /\ Bins' = Bins
    BY <1>1, <1>2, <1>7, SameInput DEF next
  <2> QED
    BY <1>1, <1>4, <2>1 DEF Part
<1>8. \A x \in Threads : pc'[x] \in {"single", "reserve"} =>
         pc[x] \in {"single", "reserve"} /\ Part(x)' = Part(x)
  BY <1>1, <1>7
<1>9. SlotsGiven => SlotsGiven'
  <2> SUFFICES ASSUME SlotsGiven, NEW x \in Threads PROVE \E f : Given(x, f)'
    BY DEF SlotsGiven
  <2>1. /\ pc[x] \in Exchanging /\ Now(x)' = Now(x)
        /\ frontier_tails'[Now(x)] = frontier_tails[Now(x)]
    BY <1>2, <1>3, <1>4
  <2> QED
    BY <1>1, <1>8, <2>1, StayGiven
<1> QED
  BY <1>0, <1>1, <1>6, <1>9, IdleOnce DEF FitInv

(* The new slots are given the thread's part.                              *)
LEMMA ReserveFits ==
    ASSUME IInv, FitInv, NEW t \in Threads, Reserve(t),
           UNCHANGED <<input, dist, work, curr_bin_copy, relaxing>>
    PROVE  FitInv'
<1> DEFINE n == Now(t)
           k == frontier_tails[n]
           q == Part(t)
<1>0. TypeOK
  BY DEF IInv
<1>1. /\ pc[t] = "reserve" /\ pc'[t] = "copy" /\ \A x \in Threads : x # t => pc'[x] = pc[x]
      /\ UNCHANGED <<input, dist, iter, local_bins, shared_indexes>>
  BY <1>0 DEF Reserve, TypeOK
<1>2. /\ n \in 0 .. 1 /\ n = next(t)
      /\ \A x \in Threads : /\ Now(x) = n /\ pc[x] \in Exchanging
                            /\ pc[x] # "barrier2" => next(x) = n
  BY <1>1, ExchangeFrame DEF Exchanging
<1>3. \A x \in Threads : Now(x)' = Now(x) /\ Part(x)' = Part(x)
  <2>1. Bins' = Bins
    BY SameInput
  <2> QED
    BY <1>1, <2>1 DEF Now, curr, next, Part
<1>4. /\ q \in Seq(V) /\ Len(q) \in Nat /\ k \in Nat
      /\ frontier_tails' = [frontier_tails EXCEPT ![n] = k + Len(q)]
  <2>1. frontier_tails' = [frontier_tails EXCEPT ![next(t)] = @ + Len(Part(t))]
    BY DEF Reserve
  <2> QED
    BY <1>0, <1>2, <2>1, PartFacts DEF TypeOK
<1>5. frontier_tails'[n] = k + Len(q) /\ \A p \in 0 .. 1 : p # n => frontier_tails'[p] = frontier_tails[p]
  BY <1>0, <1>2, <1>4 DEF TypeOK
<1>6. \A x \in Threads : pc'[x] = "single" <=> pc[x] = "single"
  BY <1>1
<1>7. Cleared'
  BY <1>2, <1>3, <1>5, <1>6 DEF FitInv, Cleared
<1>8. ASSUME Pushed, OnceEach, SlotsGiven, NEW y \in Threads PROVE \E f : Given(y, f)'
  <2>1. PICK f : Given(y, f)
    BY <1>2, <1>8 DEF SlotsGiven
  <2> HIDE DEF n, k, q
  <2>2. /\ f \in [0 .. k - 1 -> Heads]
        /\ \A r, s \in 0 .. k - 1 : f[r] = f[s] => r = s
        /\ \A s \in 0 .. k - 1 : \A x \in Threads :
              pc[x] \in {"single", "reserve"} => f[s] \notin ToSet(Part(x))
    BY <1>2, <2>1 DEF Given, k
  <2>3. \A x \in Threads : pc[x] # "barrier2" =>
           \/ Part(x) = <<>>
           \/ shared_indexes[n] \in Bins /\ Part(x) = local_bins[x][shared_indexes[n]]
    BY <1>2 DEF Part
  <2>4. /\ \A i \in DOMAIN q : q[i] \in Heads
        /\ \A i, j \in DOMAIN q : q[i] = q[j] => i = j
        /\ \A x \in Threads : x # t /\ pc[x] \in {"single", "reserve"} =>
              \A i \in DOMAIN q : q[i] \notin ToSet(Part(x))
    <3>1. DOMAIN <<>> = {}
      OBVIOUS
    <3>2. q = <<>> \/ (shared_indexes[n] \in Bins /\ q = local_bins[t][shared_indexes[n]])
      BY <1>1, <2>3 DEF q
    <3>3. CASE q = <<>>
      BY <3>1, <3>3
    <3>4. CASE shared_indexes[n] \in Bins /\ q = local_bins[t][shared_indexes[n]]
      <4>1. \A i \in DOMAIN q : q[i] \in Heads
        BY <1>8, <3>4 DEF Pushed
      <4>2. \A i, j \in DOMAIN q : q[i] = q[j] => i = j
        BY <1>8, <3>4 DEF OnceEach
      <4>3. ASSUME NEW x \in Threads, x # t, pc[x] \in {"single", "reserve"}, NEW i \in DOMAIN q,
                   q[i] \in ToSet(Part(x))
            PROVE  FALSE
        <5>1. PICK j \in DOMAIN Part(x) : Part(x)[j] = q[i]
          BY <4>3 DEF ToSet
        <5>2. Part(x) = local_bins[x][shared_indexes[n]]
          BY <2>3, <3>1, <4>3, <5>1
        <5> QED
          BY <1>8, <3>4, <4>3, <5>1, <5>2 DEF OnceEach
      <4> QED
        BY <4>1, <4>2, <4>3
    <3> QED
      BY <3>2, <3>3, <3>4
  <2>5. \A i \in DOMAIN q : q[i] \in ToSet(q)
    BY DEF ToSet
  <2>6. \A s \in 0 .. k - 1 : f[s] \notin ToSet(q)
    BY <1>1, <2>2 DEF q
  <2> DEFINE m == k + Len(q)
             h == [s \in 0 .. m - 1 |-> IF s < k THEN f[s] ELSE q[s - k + 1]]
  <2>7. \A s \in 0 .. m - 1 : /\ s < k => s \in 0 .. k - 1 /\ h[s] = f[s]
                              /\ ~ (s < k) => s - k + 1 \in DOMAIN q /\ h[s] = q[s - k + 1]
    BY <1>4
  <2>8. h \in [0 .. m - 1 -> Heads]
    BY <2>2, <2>4, <2>7
  <2>9. ASSUME NEW r \in 0 .. m - 1, NEW s \in 0 .. m - 1, h[r] = h[s] PROVE r = s
    <3>1. CASE r < k /\ s < k
      BY <2>2, <2>7, <2>9, <3>1
    <3>2. CASE ~ (r < k) /\ ~ (s < k)
      <4>1. r - k + 1 = s - k + 1
        BY <2>4, <2>7, <2>9, <3>2
      <4> QED
        BY <1>4, <4>1
    <3>3. CASE r < k /\ ~ (s < k)
      BY <2>5, <2>6, <2>7, <2>9, <3>3
    <3>4. CASE ~ (r < k) /\ s < k
      BY <2>5, <2>6, <2>7, <2>9, <3>4
    <3> QED
      BY <3>1, <3>2, <3>3, <3>4
  <2>10. ASSUME NEW s \in 0 .. m - 1, NEW x \in Threads, pc'[x] \in {"single", "reserve"}
         PROVE  h[s] \notin ToSet(Part(x)')
    <3>1. x # t /\ pc[x] \in {"single", "reserve"} /\ Part(x)' = Part(x)
      BY <1>1, <1>3, <2>10
    <3> QED
      BY <2>2, <2>4, <2>7, <3>1
  <2>11. frontier_tails'[Now(y)'] = m /\ Heads' = Heads
    BY <1>2, <1>3, <1>5, SameHeads
  <2> HIDE DEF m, h
  <2>12. h \in [0 .. frontier_tails'[Now(y)'] - 1 -> Heads']
    BY <2>8, <2>11
  <2>13. \A r, s \in 0 .. frontier_tails'[Now(y)'] - 1 : h[r] = h[s] => r = s
    BY <2>9, <2>11
  <2>14. \A s \in 0 .. frontier_tails'[Now(y)'] - 1 : \A x \in Threads :
            pc'[x] \in {"single", "reserve"} => h[s] \notin ToSet(Part(x)')
    BY <2>10, <2>11
  <2>15. PICK g : g = h
    OBVIOUS
  <2>16. Given(y, g)'
    BY <2>12, <2>13, <2>14, <2>15 DEF Given
  <2> QED
    BY <2>16
<1>9. input.delta = 1 => Pushed' /\ OnceEach'
  BY <1>0, <1>1, IdleOnce
<1>10. input.delta = 1 => SlotsGiven'
  BY <1>8 DEF SlotsGiven, FitInv
<1> QED
  BY <1>1, <1>7, <1>9, <1>10 DEF FitInv

LEMMA CopyFits ==
    ASSUME IInv, FitInv, NEW t \in Threads, Copy(t),
           UNCHANGED <<input, dist, work, curr_bin_copy, relaxing>>
    PROVE  FitInv'
<1>0. TypeOK
  BY DEF IInv
<1>1. /\ pc[t] = "copy" /\ pc'[t] = "barrier2" /\ \A x \in Threads : x # t => pc'[x] = pc[x]
      /\ iter'[t] = next(t) /\ \A x \in Threads : x # t => iter'[x] = iter[x]
      /\ UNCHANGED <<input, dist, shared_indexes, frontier_tails>>
  BY <1>0 DEF Copy, TypeOK
<1>2. \A x \in Threads : Now(x) = Now(t) /\ pc[x] \in Exchanging
  BY <1>1, ExchangeFrame DEF Exchanging
<1>3. \A x \in Threads : Now(x)' = Now(x)
  BY <1>1 DEF Now, curr, next
<1>4. /\ \A x \in Threads : x # t => local_bins'[x] = local_bins[x]
      /\ \A x \in Threads : \A b \in Bins :
            local_bins'[x][b] = local_bins[x][b] \/ local_bins'[x][b] = <<>>
  BY <1>0, CopyFacts
<1>5. Cleared'
  BY <1>1, <1>3 DEF FitInv, Cleared
<1>6. \A x \in Threads : x # t => Part(x)' = Part(x)
  BY <1>1, <1>4, SameInput DEF Part, next
<1>7. \A x \in Threads : pc'[x] \in {"single", "reserve"} =>
         pc[x] \in {"single", "reserve"} /\ Part(x)' = Part(x)
  BY <1>1, <1>6
<1>8. SlotsGiven => SlotsGiven'
  <2> SUFFICES ASSUME SlotsGiven, NEW x \in Threads PROVE \E f : Given(x, f)'
    BY DEF SlotsGiven
  <2> QED
    BY <1>1, <1>2, <1>3, <1>7, StayGiven
<1> QED
  BY <1>0, <1>1, <1>4, <1>5, <1>8, IdleOnce DEF FitInv

LEMMA InitFits ==
    Init => FitInv
<1> SUFFICES ASSUME Init PROVE FitInv
  OBVIOUS
<1>1. \A t \in Threads : pc[t] = "loop" /\ iter[t] = 0 /\ \A b \in Bins : local_bins[t][b] = <<>>
  BY DEF Init, Each
<1>2. Pushed /\ OnceEach
  BY <1>1 DEF Pushed, OnceEach
<1>3. SlotsGiven
  BY <1>1 DEF SlotsGiven, Exchanging
<1>4. \A t \in Threads : Now(t) = 0
  BY <1>1 DEF Now, curr
<1>5. frontier_tails[1] = 0
  BY DEF Init
<1>6. Cleared
  BY <1>4, <1>5 DEF Cleared
<1> QED
  BY <1>2, <1>3, <1>6 DEF FitInv

LEMMA StutterFits ==
    ASSUME FitInv, UNCHANGED vars
    PROVE  FitInv'
<1>1. UNCHANGED <<input, dist, shared_indexes, frontier_tails, pc, iter, local_bins>>
  BY DEF vars, shared
<1>2. Heads' = Heads /\ Bins' = Bins
  BY <1>1, SameHeads, SameInput
<1>3. \A x : Now(x)' = Now(x) /\ Part(x)' = Part(x)
  BY <1>1, <1>2 DEF Now, curr, next, Part
<1>4. Cleared' = Cleared
  BY <1>1, <1>3 DEF Cleared
<1>5. Pushed' = Pushed /\ OnceEach' = OnceEach
  BY <1>1, <1>2 DEF Pushed, OnceEach
<1>6. \A t, f : Given(t, f)' = Given(t, f)
  BY <1>1, <1>2, <1>3 DEF Given
<1>7. SlotsGiven => SlotsGiven'
  BY <1>1, <1>6 DEF SlotsGiven
<1> QED
  BY <1>1, <1>4, <1>5, <1>7 DEF FitInv

LEMMA NextFits ==
    IInv /\ FitInv /\ [Next]_vars => FitInv'
<1> SUFFICES ASSUME IInv, FitInv, [Next]_vars PROVE FitInv'
  OBVIOUS
<1>1. CASE Barrier1
  BY <1>1, Barrier1Fits
<1>2. CASE Barrier2
  BY <1>2, Barrier2Fits
<1>3. ASSUME NEW t \in Threads, RelaxEdges(t) PROVE FitInv'
  BY <1>3, WorkFits
<1>4. ASSUME NEW t \in Threads, Propose(t) PROVE FitInv'
  BY <1>4, ProposeFits
<1>5. ASSUME NEW t \in Threads, Exchange(t) PROVE FitInv'
  BY <1>5, SingleFits, ReserveFits, CopyFits DEF Exchange
<1>6. CASE UNCHANGED vars
  BY <1>6, StutterFits
<1> QED
  BY <1>1, <1>2, <1>3, <1>4, <1>5, <1>6 DEF Next, ThreadStep, Terminated

(* As many slots as there are edges are enough for bins of width 1: the    *)
(* copy of lines 208 to 209, which checks nothing, stays in the array that *)
(* line 148 allocates, whatever the graph, the threads and their swaps.    *)
THEOREM FrontierFitsHolds == Spec => []FrontierFits
<1>1. IInv /\ FitInv => FrontierFits
  <2> SUFFICES ASSUME IInv, FitInv, input.delta = 1, NEW t \in Threads, PastEnd(t) PROVE FALSE
    BY DEF FrontierFits, Overrun
  <2> DEFINE k == frontier_tails[Now(t)]
  <2>1. TypeOK /\ Apart /\ pc[t] = "copy"
    BY DEF IInv, PastEnd
  <2>2. PICK f : Given(t, f)
    BY <2>1 DEF FitInv, SlotsGiven, Exchanging
  <2>3. k \in Nat /\ k - 1 \in Int /\ 0 \in Int
    BY <2>1, FloorFacts DEF TypeOK
  <2>4. IsFiniteSet(Heads) /\ Cardinality(Heads) \in Nat /\ Cardinality(Heads) <= num_edges_directed
        /\ num_edges_directed \in Nat
    BY <2>1, HeadsFacts, EdgesCount DEF TypeOK
  <2>5. f \in Injection(0 .. k - 1, Heads)
    BY <2>2 DEF Given, Injection, IsInjective
  <2>6. Cardinality(0 .. k - 1) <= Cardinality(Heads)
    BY <2>4, <2>5, FS_Injection
  <2>7. Cardinality(0 .. k - 1) = IF 0 > k - 1 THEN 0 ELSE k - 1 - 0 + 1
    BY <2>3, FS_Interval
  <2>8. copy_start[t] + Len(Part(t)) <= k /\ copy_start[t] + Len(Part(t)) \in Nat
    BY <2>1, PartFacts DEF Apart, TypeOK
  <2>9. copy_start[t] + Len(Part(t)) > num_edges_directed
    BY DEF PastEnd
  <2> HIDE DEF k
  <2> QED
    BY <2>3, <2>4, <2>6, <2>7, <2>8, <2>9
<1>2. Spec => []FitInv
  BY InitFits, NextFits, SearchInvariant, PTL DEF Spec
<1> QED
  BY <1>1, <1>2, SearchInvariant, PTL

=============================================================================
