---------------------- MODULE ConnectedComponentsProofs ----------------------
(***************************************************************************)
(* Theorems about the two labelling kernels, for any number of threads, of *)
(* sampling rounds and any graph: the forest is sound, Afforest's links    *)
(* only ever join the two ends of an edge, every region delivers what the  *)
(* next one needs, and the labels returned are the components.             *)
(*                                                                         *)
(* The proofs are about sets closed under the edges or under comp, so that *)
(* no path has to be followed: a hook removes closed sets, a jump none.    *)
(***************************************************************************)
EXTENDS ConnectedComponents, TLAPS

Linking == {"test", "edge", "v", "high", "cas", "store", "up", "upper", "low"}
Compressing == {"climb", "grand", "jump"}

(* Which threads are where in each region.                                 *)
RegionInv ==
    /\ phase \in {"sample", "compress", "link"} => input.algorithm = "afforest"
    /\ phase = "hook" => input.algorithm = "sv"
    /\ input.algorithm = "afforest" /\ phase \in {"link", "flatten", "done"} =>
         r = neighbor_rounds
    /\ phase = "sample" => r < neighbor_rounds
    /\ phase = "start" => r = 0 /\ \A x \in V : comp[x] = x
    /\ \A t \in Threads :
         /\ pc[t] \in Linking => phase \in {"sample", "link", "hook"}
         /\ pc[t] = "test" => phase = "link"
         /\ pc[t] \in {"cas", "up", "upper", "low"} => input.algorithm = "afforest"
         /\ pc[t] = "store" => input.algorithm = "sv"
         /\ pc[t] \in Compressing => phase \in {"compress", "flatten"}
         /\ phase \in {"start", "done"} => pc[t] = "end"
         /\ pc[t] = "end" => work = {}

Sound == \A x \in V : comp[x] <= x /\ comp[x] \in Component(x)

(* What a thread holds of its vertex and of the two trees it has climbed.  *)
HandSound(t) ==
    /\ pc[t] \in Linking => ToSet(todo[t]) \subseteq ToSet(Links(at[t]))
    /\ pc[t] \in Linking \ {"test", "edge"} =>
         todo[t] # <<>> /\ p1[t] \in Component(at[t])
    /\ pc[t] \in {"high", "cas", "store", "up"} =>
         p2[t] \in Component(at[t]) /\ p1[t] # p2[t]
    /\ pc[t] \in {"upper", "low"} => got[t] \in Component(at[t])
    /\ pc[t] = "jump" => got[t] \in Component(at[t]) /\ got[t] < at[t]
    /\ pc[t] \in {"grand", "jump"} => comp[at[t]] # at[t]

HandInv == \A t \in Threads : HandSound(t)

(* x and y are in the two trees that the ends of an edge are in.           *)
TwoTrees(u, v, x, y) == \/ SameTree(u, x) /\ SameTree(v, y)
                        \/ SameTree(u, y) /\ SameTree(v, x)

(* Of Link, whose trees are never split.                                   *)
LinkInv ==
    input.algorithm = "afforest" =>
        \A t \in Threads :
            /\ pc[t] = "v" => SameTree(at[t], p1[t])
            /\ pc[t] \in {"high", "cas", "up"} =>
                 TwoTrees(at[t], Head(todo[t]), p1[t], p2[t])
            /\ pc[t] \in {"upper", "low"} =>
                 TwoTrees(at[t], Head(todo[t]), p1[t], got[t])

InHand(u, v) == \E t \in Threads : at[t] = u /\ pc[t] \in Linking /\ v \in ToSet(todo[t])

(* A neighbour is linked, still in some thread's hands, or passed over.    *)
LinkedSoFar ==
    phase \in {"sample", "link"} =>
        \A u \in V \ work : \A v \in ToSet(Links(u)) :
            SameTree(u, v) \/ InHand(u, v) \/ (phase = "link" /\ SameTree(u, c))

SampledSoFar ==
    input.algorithm = "afforest" =>
        \A u \in V : \A k \in 1 .. r :
            k <= Len(input.out[u]) => SameTree(u, input.out[u][k])

AllLinked ==
    phase = "done" \/ (phase = "flatten" /\ (input.algorithm = "sv" => ~change)) =>
        \A e \in input.edges : SameTree(e[1], e[2])

Flat(x) == comp[comp[x]] = comp[x]

(* A set closed under comp below x cannot tell a parent of x from the      *)
(* grandparent that is about to replace it.                                *)
Below(x) == {S \in SUBSET V : \A y \in V : y < x => (y \in S <=> comp[y] \in S)}

JumpSound ==
    \A t \in Threads : pc[t] = "jump" =>
        \A S \in Below(at[t]) : comp[at[t]] \in S <=> got[t] \in S

FlatSoFar ==
    /\ phase \in {"compress", "flatten"} =>
         \A x \in V \ work :
             Flat(x) \/ \E t \in Threads : at[t] = x /\ pc[t] \in Compressing
    /\ phase = "done" => \A x \in V : Flat(x)

(* A round of Shiloach-Vishkin in which nobody has found a root to hook.   *)
QuietRound ==
    phase = "hook" /\ ~change =>
        /\ \A x \in V : Flat(x)
        /\ \A t \in Threads :
             /\ pc[t] # "store"
             /\ pc[t] \in {"v", "high"} => p1[t] = comp[at[t]]
             /\ pc[t] = "high" => p2[t] = comp[Head(todo[t])]
        /\ \A u \in V \ work : \A v \in ToSet(Links(u)) :
             comp[u] = comp[v] \/ InHand(u, v)

CompInv ==
    /\ TypeOK /\ RegionInv /\ Sound /\ HandInv /\ LinkInv
    /\ LinkedSoFar /\ SampledSoFar /\ AllLinked
    /\ JumpSound /\ FlatSoFar /\ QuietRound

-----------------------------------------------------------------------------
(* The graph, and what a vertex is linked with.                            *)

LEMMA GraphFacts ==
    ASSUME input \in Inputs
    PROVE  /\ V \subseteq Nat /\ 0 \in V /\ V # {}
           /\ input.algorithm \in {"afforest", "sv"}
           /\ input.edges \subseteq V \X V
           /\ input.out \in [V -> Seq(V)] /\ input.in \in [V -> Seq(V)]
           /\ \A x \in V : ToSet(input.out[x]) = {y \in V : <<x, y>> \in input.edges}
           /\ \A x \in V : ToSet(input.in[x]) = {y \in V : <<y, x>> \in input.edges}
           /\ ~input.directed => \A e \in input.edges : <<e[2], e[1]>> \in input.edges
BY InputsAssumption DEF V

Adjacent(u, v) == <<u, v>> \in input.edges \/ <<v, u>> \in input.edges

LEMMA InRow ==
    ASSUME NEW S, NEW s \in Seq(S)
    PROVE  /\ \A x \in ToSet(s) : x \in S /\ \E k \in 1 .. Len(s) : s[k] = x
           /\ \A k \in 1 .. Len(s) : s[k] \in ToSet(s)
           /\ s # <<>> => /\ Head(s) \in S /\ Tail(s) \in Seq(S)
                          /\ ToSet(s) = {Head(s)} \cup ToSet(Tail(s))
<1>1. /\ \A x \in ToSet(s) : x \in S /\ \E k \in 1 .. Len(s) : s[k] = x
      /\ \A k \in 1 .. Len(s) : s[k] \in ToSet(s)
  BY DEF ToSet
<1>2. ASSUME s # <<>>
      PROVE  /\ Head(s) \in S /\ Tail(s) \in Seq(S)
             /\ ToSet(s) = {Head(s)} \cup ToSet(Tail(s))
  <2>1. /\ Head(s) = s[1] /\ Head(s) \in S /\ Tail(s) \in Seq(S) /\ Len(s) \in Nat \ {0}
        /\ Len(Tail(s)) = Len(s) - 1 /\ \A k \in 1 .. Len(s) - 1 : Tail(s)[k] = s[k + 1]
    BY <1>2
  <2>2. DOMAIN Tail(s) = 1 .. Len(Tail(s))
    BY <2>1
  <2>3. \A k \in 1 .. Len(Tail(s)) : Tail(s)[k] \in ToSet(Tail(s))
    BY <2>2 DEF ToSet
  <2>4. ASSUME NEW x \in ToSet(s)
        PROVE  x \in {Head(s)} \cup ToSet(Tail(s))
    <3>1. PICK k \in 1 .. Len(s) : s[k] = x
      BY <1>1
    <3>2. CASE k = 1
      BY <2>1, <3>1, <3>2
    <3>3. CASE k # 1
      <4>1. k - 1 \in 1 .. Len(Tail(s)) /\ Tail(s)[k - 1] = x
        BY <2>1, <3>1, <3>3
      <4> QED
        BY <2>3, <4>1
    <3> QED
      BY <3>2, <3>3
  <2>5. ASSUME NEW x \in ToSet(Tail(s))
        PROVE  x \in ToSet(s)
    <3>1. PICK k \in 1 .. Len(s) - 1 : Tail(s)[k] = x
      BY <2>1 DEF ToSet
    <3>2. k + 1 \in 1 .. Len(s) /\ s[k + 1] = x
      BY <2>1, <3>1
    <3> QED
      BY <1>1, <3>2
  <2>6. Head(s) \in ToSet(s)
    BY <1>1, <2>1
  <2> QED
    BY <2>1, <2>4, <2>5, <2>6
<1> QED
  BY <1>1, <1>2

(* The row of u from an offset on.                                         *)
LEMMA FromOffset ==
    ASSUME input \in Inputs, NEW u \in V, NEW d \in Nat
    PROVE  /\ out_neigh(u, d) \in Seq(V)
           /\ ToSet(out_neigh(u, d)) =
                {input.out[u][k] : k \in {k \in 1 .. Len(input.out[u]) : k > d}}
           /\ FirstOf(out_neigh(u, d)) \in Seq(V)
           /\ ToSet(FirstOf(out_neigh(u, d))) =
                {input.out[u][k] : k \in {k \in 1 .. Len(input.out[u]) : k = d + 1}}
<1> DEFINE row == input.out[u]
           q == out_neigh(u, d)
<1>1. row \in Seq(V) /\ Len(row) \in Nat
  BY GraphFacts
<1>2. /\ q \in Seq(V)
      /\ Len(q) = IF d + 1 <= Len(row) THEN Len(row) - d ELSE 0
      /\ \A k \in 1 .. Len(row) - d : q[k] = row[k + d]
  BY <1>1 DEF out_neigh
<1>3. \A k \in 1 .. Len(q) : k + d \in 1 .. Len(row) /\ q[k] = row[k + d]
  BY <1>1, <1>2
<1>4. \A k \in 1 .. Len(row) : k > d => k - d \in 1 .. Len(q) /\ q[k - d] = row[k]
  BY <1>1, <1>2
<1>5. ToSet(q) = {row[k] : k \in {k \in 1 .. Len(row) : k > d}}
  <2>1. ASSUME NEW x \in ToSet(q)
        PROVE  \E k \in 1 .. Len(row) : k > d /\ row[k] = x
    <3>1. PICK k \in 1 .. Len(q) : q[k] = x
      BY <1>2, InRow
    <3>2. k + d \in 1 .. Len(row) /\ k + d > d /\ row[k + d] = x
      BY <1>3, <3>1
    <3> QED
      BY <3>2
  <2>2. ASSUME NEW k \in 1 .. Len(row), k > d
        PROVE  row[k] \in ToSet(q)
    BY <1>2, <1>4, <2>2, InRow
  <2> QED
    BY <2>1, <2>2
<1>6. CASE q = <<>>
  <2>1. FirstOf(q) = <<>> /\ ToSet(<<>>) = {}
    BY <1>6 DEF FirstOf, ToSet
  <2>2. \A k \in 1 .. Len(row) : k # d + 1
    BY <1>1, <1>2, <1>6
  <2> QED
    BY <1>2, <1>5, <2>1, <2>2
<1>7. CASE q # <<>>
  <2>1. /\ FirstOf(q) = <<Head(q)>> /\ Head(q) = q[1] /\ q[1] \in V
        /\ 1 \in 1 .. Len(q)
    BY <1>2, <1>7 DEF FirstOf
  <2>2. d + 1 \in 1 .. Len(row) /\ q[1] = row[d + 1]
    BY <1>3, <2>1
  <2>3. FirstOf(q) \in Seq(V) /\ ToSet(FirstOf(q)) = {row[d + 1]}
    BY <2>1, <2>2 DEF ToSet
  <2> QED
    BY <1>2, <1>5, <2>2, <2>3
<1> QED
  BY <1>6, <1>7

LEMMA LinksFacts ==
    ASSUME input \in Inputs, r \in Nat, NEW u \in V
    PROVE  /\ Links(u) \in Seq(V)
           /\ \A v \in ToSet(Links(u)) : v \in V /\ Adjacent(u, v)
           /\ phase = "link" =>
                /\ \A k \in 1 .. Len(input.out[u]) :
                     k > neighbor_rounds => input.out[u][k] \in ToSet(Links(u))
                /\ input.directed => ToSet(input.in[u]) \subseteq ToSet(Links(u))
           /\ phase = "sample" =>
                \A k \in 1 .. Len(input.out[u]) :
                    k = r + 1 => input.out[u][k] \in ToSet(Links(u))
           /\ phase = "hook" => ToSet(Links(u)) = ToSet(input.out[u])
<1>1. /\ input.out[u] \in Seq(V) /\ input.in[u] \in Seq(V)
      /\ ToSet(input.out[u]) = {y \in V : <<u, y>> \in input.edges}
      /\ ToSet(input.in[u]) = {y \in V : <<y, u>> \in input.edges}
  BY GraphFacts
<1>2. \A k \in 1 .. Len(input.out[u]) :
         input.out[u][k] \in V /\ Adjacent(u, input.out[u][k])
  BY <1>1, InRow DEF Adjacent
<1>3. <<>> \in Seq(V) /\ ToSet(<<>>) = {}
  BY DEF ToSet
<1>4. CASE phase = "sample"
  <2>1. Links(u) = FirstOf(out_neigh(u, r))
    BY <1>4 DEF Links
  <2>2. /\ Links(u) \in Seq(V)
        /\ ToSet(Links(u)) = {input.out[u][k] : k \in {k \in 1 .. Len(input.out[u]) : k = r + 1}}
    BY <2>1, FromOffset
  <2>3. \A v \in ToSet(Links(u)) : v \in V /\ Adjacent(u, v)
    BY <1>2, <2>2
  <2> QED
    BY <1>4, <2>2, <2>3
<1>5. CASE phase = "hook"
  <2>1. Links(u) = out_neigh(u, 0) /\ 0 \in Nat
    BY <1>5 DEF Links
  <2>2. ToSet(Links(u)) = {input.out[u][k] : k \in 1 .. Len(input.out[u])}
    <3>1. {k \in 1 .. Len(input.out[u]) : k > 0} = 1 .. Len(input.out[u])
      BY <1>1
    <3> QED
      BY <2>1, <3>1, FromOffset
  <2>3. ToSet(Links(u)) = ToSet(input.out[u])
    BY <1>1, <2>2, InRow
  <2> QED
    BY <1>2, <1>5, <2>1, <2>2, <2>3, FromOffset
<1>6. CASE phase = "link"
  <2> DEFINE a == out_neigh(u, neighbor_rounds)
             b == IF input.directed THEN in_neigh(u) ELSE <<>>
  <2>1. Links(u) = a \o b
    BY <1>6 DEF Links
  <2>2. a \in Seq(V) /\ b \in Seq(V)
    BY <1>1, <1>3, RoundsAssumption, FromOffset DEF in_neigh
  <2>3. a \o b \in Seq(V) /\ ToSet(a \o b) = ToSet(a) \cup ToSet(b)
    <3>1. /\ a \o b \in Seq(V) /\ Len(a \o b) = Len(a) + Len(b)
          /\ Len(a) \in Nat /\ Len(b) \in Nat
          /\ \A k \in 1 .. Len(a) + Len(b) :
                (a \o b)[k] = IF k <= Len(a) THEN a[k] ELSE b[k - Len(a)]
      BY <2>2
    <3> HIDE DEF a, b
    <3>2. ASSUME NEW x \in ToSet(a \o b)
          PROVE  x \in ToSet(a) \cup ToSet(b)
      <4>1. PICK k \in 1 .. Len(a \o b) : (a \o b)[k] = x
        BY <3>1, InRow
      <4>2. CASE k <= Len(a)
        BY <2>2, <3>1, <4>1, <4>2, InRow
      <4>3. CASE k > Len(a)
        <5>1. k - Len(a) \in 1 .. Len(b) /\ b[k - Len(a)] = x
          BY <3>1, <4>1, <4>3
        <5> QED
          BY <2>2, <5>1, InRow
      <4> QED
        BY <3>1, <4>2, <4>3
    <3>3. ASSUME NEW x \in ToSet(a)
          PROVE  x \in ToSet(a \o b)
      <4>1. PICK k \in 1 .. Len(a) : a[k] = x
        BY <2>2, InRow
      <4>2. k \in 1 .. Len(a \o b) /\ (a \o b)[k] = x
        BY <3>1, <4>1
      <4> QED
        BY <3>1, <4>2, InRow
    <3>4. ASSUME NEW x \in ToSet(b)
          PROVE  x \in ToSet(a \o b)
      <4>1. PICK k \in 1 .. Len(b) : b[k] = x
        BY <2>2, InRow
      <4>2. k + Len(a) \in 1 .. Len(a \o b) /\ (a \o b)[k + Len(a)] = x
        BY <3>1, <4>1
      <4> QED
        BY <3>1, <4>2, InRow
    <3> QED
      BY <3>1, <3>2, <3>3, <3>4
  <2>4. ToSet(b) \subseteq ToSet(input.in[u]) /\ (input.directed => b = input.in[u])
    BY <1>1, <1>3 DEF in_neigh
  <2>5. \A v \in ToSet(b) : v \in V /\ Adjacent(u, v)
    BY <1>1, <2>4 DEF Adjacent
  <2>6. ToSet(a) = {input.out[u][k] :
                      k \in {k \in 1 .. Len(input.out[u]) : k > neighbor_rounds}}
    BY RoundsAssumption, FromOffset
  <2> HIDE DEF a, b
  <2> QED
    BY <1>2, <1>6, <2>1, <2>3, <2>4, <2>5, <2>6
<1>7. CASE phase \notin {"sample", "link", "hook"}
  <2>1. Links(u) = <<>>
    BY <1>7 DEF Links
  <2> QED
    BY <1>3, <1>7, <2>1
<1> QED
  BY <1>4, <1>5, <1>6, <1>7

-----------------------------------------------------------------------------
(* The two vertices Link has reached, in order.                            *)
LEMMA HighLow ==
    ASSUME TypeOK, NEW t \in Threads
    PROVE  /\ high(t) \in V /\ low(t) \in V /\ low(t) <= high(t)
           /\ \/ high(t) = p1[t] /\ low(t) = p2[t]
              \/ high(t) = p2[t] /\ low(t) = p1[t]
<1>1. p1[t] \in V /\ p2[t] \in V
  BY DEF TypeOK
<1>2. p1[t] \in Int /\ p2[t] \in Int
  BY <1>1 DEF V
<1>3. CASE p1[t] > p2[t]
  <2>1. high(t) = p1[t]
    BY <1>3 DEF high
  <2>2. low(t) = p2[t]
    BY <1>2, <2>1 DEF low
  <2> QED
    BY <1>1, <1>2, <1>3, <2>1, <2>2
<1>4. CASE ~(p1[t] > p2[t])
  <2>1. high(t) = p2[t]
    BY <1>4 DEF high
  <2>2. low(t) = p1[t]
    BY <1>2, <2>1 DEF low
  <2> QED
    BY <1>1, <1>2, <1>4, <2>1, <2>2
<1> QED
  BY <1>3, <1>4

(* The graph stays, and with it what is defined from it alone.             *)
LEMMA GraphStays ==
    ASSUME [Next]_vars
    PROVE  /\ input' = input /\ V' = V
           /\ \A x \in V : Component(x)' = Component(x)
<1>1. input' = input
  BY DEF Next, MasterStep, ThreadStep, Terminated, vars, Fork, Sample, CompressSample,
         LinkRest, CompressLast, HookAll, CompressHooked, Return
<1>2. V' = V
  BY <1>1 DEF V
<1>3. Unions' = Unions
  BY <1>1, <1>2 DEF Unions
<1> QED
  BY <1>1, <1>2, <1>3 DEF Component

(* What every region starts from.                                          *)
ForkedAs(p) ==
    /\ phase' = p /\ work' = V
    /\ pc' = [t \in Threads |-> "take"]
    /\ at' = [t \in Threads |-> 0] /\ todo' = [t \in Threads |-> <<>>]
    /\ p1' = [t \in Threads |-> 0] /\ p2' = [t \in Threads |-> 0]
    /\ got' = [t \in Threads |-> 0]
    /\ UNCHANGED <<input, comp>>

LEMMA ForkEffect == \A p : Fork(p) => ForkedAs(p)
BY DEF Fork, ForkedAs, Each

(* The master opens a region or returns.                                   *)
LEMMA MasterEffect ==
    ASSUME TypeOK, MasterStep
    PROVE  \/ /\ ForkedAs("sample") /\ Sample
              /\ UNCHANGED <<r, c, change>>
           \/ /\ ForkedAs("compress") /\ CompressSample
              /\ r' = r + 1 /\ UNCHANGED <<c, change>>
           \/ /\ ForkedAs("link") /\ LinkRest
              /\ c' \in V /\ UNCHANGED <<r, change>>
           \/ /\ ForkedAs("flatten") /\ CompressLast
              /\ UNCHANGED <<r, c, change>>
           \/ /\ ForkedAs("hook") /\ HookAll
              /\ change' = FALSE /\ UNCHANGED <<r, c>>
           \/ /\ ForkedAs("flatten") /\ CompressHooked
              /\ UNCHANGED <<r, c, change>>
           \/ /\ phase' = "done" /\ Return
              /\ UNCHANGED <<input, comp, r, c, change, work, pc, local>>
<1>1. CASE LinkRest
  BY <1>1, ForkEffect DEF LinkRest, SampleFrequentElement, TypeOK
<1>2. CASE Sample \/ CompressSample \/ CompressLast \/ HookAll \/ CompressHooked
  BY <1>2, ForkEffect DEF Sample, CompressSample, CompressLast, HookAll, CompressHooked
<1>3. CASE Return
  BY <1>3 DEF Return
<1> QED
  BY <1>1, <1>2, <1>3 DEF MasterStep

LEMMA TypeInit == Init => TypeOK
<1> SUFFICES ASSUME Init PROVE TypeOK
  OBVIOUS
<1>1. input \in Inputs /\ 0 \in V /\ <<>> \in Seq(V)
  BY GraphFacts DEF Init
<1> QED
  BY <1>1, RoundsAssumption DEF Init, TypeOK, Each

LEMMA TypeStep ==
    ASSUME TypeOK, RegionInv, HandInv, [Next]_vars
    PROVE  TypeOK'
<1>1. /\ input \in Inputs /\ input' = input /\ V' = V
      /\ 0 \in V /\ V \subseteq Nat /\ <<>> \in Seq(V) /\ r \in Nat
  BY GraphFacts, GraphStays, RoundsAssumption DEF TypeOK
<1>2. CASE UNCHANGED vars
  BY <1>1, <1>2 DEF TypeOK, vars, local
<1>3. CASE MasterStep
  <2>1. CASE phase' = "done" /\ UNCHANGED <<input, comp, r, c, change, work, pc, local>>
    BY <1>1, <2>1 DEF TypeOK, local
  <2>2. ASSUME NEW p \in {"sample", "compress", "link", "flatten", "hook"}, ForkedAs(p),
               r' \in 0 .. neighbor_rounds, c' \in V, change' \in BOOLEAN
        PROVE  TypeOK'
    BY <1>1, <2>2 DEF TypeOK, ForkedAs
  <2>3. CompressSample => r + 1 \in 0 .. neighbor_rounds
    BY RoundsAssumption DEF CompressSample, TypeOK, Joined, RegionInv
  <2> QED
    BY <1>1, <1>3, <2>1, <2>2, <2>3, MasterEffect DEF TypeOK
<1>4. ASSUME NEW t \in Threads, ThreadStep(t)
      PROVE  TypeOK'
  <2> USE DEF TypeOK, local, NextEdge
  <2>1. UNCHANGED <<input, phase, r, c>>
    BY <1>4 DEF ThreadStep
  <2>2. at[t] \in V /\ p1[t] \in V /\ p2[t] \in V /\ got[t] \in V /\ todo[t] \in Seq(V)
    OBVIOUS
  <2>3. high(t) \in V /\ low(t) \in V
    BY HighLow
  <2>4. \A x \in V : comp[x] \in V
    OBVIOUS
  <2>5. todo[t] # <<>> => Head(todo[t]) \in V /\ Tail(todo[t]) \in Seq(V)
    BY <2>2, InRow
  <2>6. CASE Take(t)
    <3>1. PICK u \in work : /\ work' = work \ {u} /\ at' = [at EXCEPT ![t] = u]
                            /\ todo' = [todo EXCEPT ![t] = Links(u)]
      BY <2>6 DEF Take
    <3>2. u \in V /\ Links(u) \in Seq(V)
      BY <1>1, <3>1, LinksFacts
    <3> QED
      BY <1>1, <2>1, <2>6, <3>1, <3>2 DEF Take
  <2>7. CASE RunsOut(t) \/ Test(t) \/ ReadU(t)
    BY <1>1, <2>1, <2>2, <2>4, <2>7 DEF RunsOut, Test, ReadU
  <2>8. CASE ReadV(t) \/ ReadLow(t)
    <3>1. todo[t] # <<>>
      BY <2>8 DEF HandInv, HandSound, Linking, ReadV, ReadLow
    <3>2. PICK x \in V : ReadP2(t, x)
      BY <2>2, <2>5, <2>8, <3>1 DEF ReadV, ReadLow
    <3> QED
      BY <1>1, <2>1, <2>2, <2>4, <2>5, <3>1, <3>2 DEF ReadP2
  <2>9. CASE ReadHigh(t)
    <3>1. todo[t] # <<>>
      BY <2>9 DEF HandInv, HandSound, Linking, ReadHigh
    <3> QED
      BY <1>1, <2>1, <2>2, <2>4, <2>5, <2>9, <3>1 DEF ReadHigh
  <2>10. CASE Cas(t) \/ Store(t)
    <3>1. todo[t] # <<>>
      BY <2>10 DEF HandInv, HandSound, Linking, Cas, Store
    <3>2. comp' \in [V -> V]
      BY <2>3, <2>10 DEF Cas, Store
    <3>3. /\ pc' \in [Threads -> {"take", "end", "test", "edge", "v", "high", "cas", "store",
                                  "up", "upper", "low", "climb", "grand", "jump"}]
          /\ todo' \in [Threads -> Seq(V)]
      <4>1. \/ NextEdge(t)
            \/ pc' = [pc EXCEPT ![t] = "up"] /\ UNCHANGED todo
        BY <2>10 DEF Cas, Store
      <4> QED
        BY <2>5, <3>1, <4>1
    <3>4. UNCHANGED <<change, work, at, p1, p2, got>>
      BY <2>10 DEF Cas, Store
    <3> QED
      BY <1>1, <2>1, <3>2, <3>3, <3>4
  <2>11. CASE Up(t) \/ Upper(t)
    BY <1>1, <2>1, <2>2, <2>3, <2>4, <2>11 DEF Up, Upper
  <2>12. CASE Climb(t) \/ Grand(t) \/ Jump(t)
    BY <1>1, <2>1, <2>2, <2>4, <2>12 DEF Climb, Grand, Jump
  <2> QED
    BY <1>4, <2>6, <2>7, <2>8, <2>9, <2>10, <2>11, <2>12 DEF ThreadStep
<1> QED
  BY <1>2, <1>3, <1>4 DEF Next, Terminated

-----------------------------------------------------------------------------
(* Component is an equivalence that contains the edges.                    *)
LEMMA ComponentRefl == \A x \in V : x \in Component(x)
BY DEF Component

LEMMA ComponentTrans ==
    \A x, y, z \in V : y \in Component(x) /\ z \in Component(y) => z \in Component(x)
BY DEF Component

LEMMA ComponentSym ==
    ASSUME input \in Inputs, NEW x \in V, NEW y \in Component(x)
    PROVE  x \in Component(y)
<1>1. SUFFICES ASSUME NEW S \in Unions, y \in S PROVE x \in S
  BY DEF Component
<1>2. V \ S \in Unions
  <2>1. \A e \in input.edges : e[1] \in V /\ e[2] \in V
    BY GraphFacts
  <2> QED
    BY <2>1 DEF Unions
<1>3. x \in V \ S => y \in V \ S
  BY <1>2 DEF Component
<1> QED
  BY <1>1, <1>3

LEMMA ComponentEdge ==
    ASSUME input \in Inputs, NEW u \in V, NEW v \in V, Adjacent(u, v)
    PROVE  v \in Component(u)
<1>1. ASSUME NEW S \in Unions, u \in S
      PROVE  v \in S
  <2>1. CASE <<u, v>> \in input.edges
    BY <1>1, <2>1 DEF Unions
  <2>2. CASE <<v, u>> \in input.edges
    BY <1>1, <2>2 DEF Unions
  <2> QED
    BY <2>1, <2>2 DEF Adjacent
<1> QED
  BY <1>1 DEF Component

-----------------------------------------------------------------------------
(* A thread touches nothing of the others but comp.                        *)
LEMMA OthersKeep ==
    ASSUME TypeOK, NEW t \in Threads, ThreadStep(t)
    PROVE  /\ UNCHANGED <<input, phase, r, c>>
           /\ \A s \in Threads \ {t} :
                /\ pc'[s] = pc[s] /\ at'[s] = at[s] /\ todo'[s] = todo[s]
                /\ p1'[s] = p1[s] /\ p2'[s] = p2[s] /\ got'[s] = got[s]
BY DEF ThreadStep, TypeOK, local, NextEdge, Take, RunsOut, Test, ReadU, ReadV, ReadP2,
       ReadHigh, Cas, Store, Up, Upper, ReadLow, Climb, Grand, Jump

LEMMA LinksStay ==
    ASSUME UNCHANGED <<input, phase, r>>
    PROVE  \A u : Links(u)' = Links(u)
BY DEF Links, out_neigh, in_neigh

LEMMA RegionInit == Init => RegionInv
BY DEF Init, RegionInv, Each, Linking, Compressing

LEMMA RegionStep ==
    ASSUME TypeOK, RegionInv, [Next]_vars
    PROVE  RegionInv'
<1>1. /\ input' = input /\ V' = V
      /\ input.algorithm \in {"afforest", "sv"}
  BY GraphFacts, GraphStays DEF TypeOK
<1>2. CASE UNCHANGED vars
  BY <1>1, <1>2 DEF RegionInv, vars, local
<1>3. CASE MasterStep
  <2>1. CASE ForkedAs("sample") /\ Sample /\ UNCHANGED <<r, c, change>>
    BY <1>1, <2>1 DEF RegionInv, ForkedAs, Sample, Linking, Compressing
  <2>2. CASE ForkedAs("compress") /\ CompressSample
    BY <1>1, <2>2 DEF RegionInv, ForkedAs, CompressSample, Joined, Linking, Compressing
  <2>3. CASE ForkedAs("link") /\ LinkRest /\ UNCHANGED <<r, change>>
    BY <1>1, <2>3 DEF RegionInv, ForkedAs, LinkRest, Linking, Compressing
  <2>4. CASE ForkedAs("flatten") /\ (CompressLast \/ CompressHooked) /\ UNCHANGED <<r, c, change>>
    BY <1>1, <2>4 DEF RegionInv, ForkedAs, CompressLast, CompressHooked, Joined,
                      Linking, Compressing
  <2>5. CASE ForkedAs("hook") /\ HookAll
    BY <1>1, <2>5 DEF RegionInv, ForkedAs, HookAll, Linking, Compressing
  <2>6. CASE phase' = "done" /\ Return
    BY <1>1, <2>6 DEF RegionInv, Return, Joined, Linking, Compressing, local
  <2> QED
    BY <1>3, <2>1, <2>2, <2>3, <2>4, <2>5, <2>6, MasterEffect
<1>4. ASSUME NEW t \in Threads, ThreadStep(t)
      PROVE  RegionInv'
  <2>1. pc[t] # "end" /\ pc \in [Threads -> {"take", "end", "test", "edge", "v", "high",
                           "cas", "store", "up", "upper", "low", "climb", "grand", "jump"}]
    BY <1>4 DEF ThreadStep, Take, RunsOut, Test, ReadU, ReadV, ReadHigh, Cas, Store, Up,
       Upper, ReadLow, Climb, Grand, Jump, TypeOK
  <2>2. phase \notin {"start", "done"}
    BY <2>1 DEF RegionInv
  <2>3. /\ pc'[t] \in Linking => phase \in {"sample", "link", "hook"}
        /\ pc'[t] = "test" => phase = "link"
        /\ pc'[t] = "end" => work' = {}
        /\ pc'[t] \in {"cas", "up", "upper", "low"} => input.algorithm = "afforest"
        /\ pc'[t] = "store" => input.algorithm = "sv"
        /\ pc'[t] \in Compressing => phase \in {"compress", "flatten"}
    <3> USE <2>1, <2>2 DEF RegionInv, Linking, Compressing, NextEdge
    <3>1. CASE Take(t)
      <4>1. phase \in {"sample", "compress", "link", "hook", "flatten"}
        BY DEF TypeOK
      <4> QED
        BY <3>1, <4>1 DEF Take
    <3>2. CASE RunsOut(t) \/ Test(t) \/ ReadU(t)
      BY <3>2 DEF RunsOut, Test, ReadU
    <3>3. CASE ReadV(t) \/ ReadLow(t)
      BY <3>3 DEF ReadV, ReadLow, ReadP2
    <3>4. CASE ReadHigh(t)
      BY <3>4 DEF ReadHigh
    <3>5. CASE Cas(t) \/ Store(t)
      BY <3>5 DEF Cas, Store
    <3>6. CASE Up(t) \/ Upper(t)
      BY <3>6 DEF Up, Upper
    <3>7. CASE Climb(t) \/ Grand(t) \/ Jump(t)
      BY <3>7 DEF Climb, Grand, Jump
    <3> QED
      BY <1>4, <3>1, <3>2, <3>3, <3>4, <3>5, <3>6, <3>7 DEF ThreadStep
  <2>4. /\ UNCHANGED <<input, phase, r, c>>
        /\ \A s \in Threads \ {t} : pc'[s] = pc[s]
    BY <1>4, OthersKeep
  <2>5. work' \subseteq work
    BY <1>4 DEF ThreadStep, local, Take, RunsOut, Test, ReadU, ReadV, ReadP2, ReadHigh,
                Cas, Store, Up, Upper, ReadLow, Climb, Grand, Jump
  <2> QED
    BY <2>2, <2>3, <2>4, <2>5 DEF RegionInv
<1> QED
  BY <1>2, <1>3, <1>4 DEF Next, Terminated

-----------------------------------------------------------------------------
(* Where a hook is made, between which vertices.                           *)
LEMMA HookSound ==
    ASSUME TypeOK, HandInv, NEW t \in Threads, pc[t] \in {"cas", "store"}
    PROVE  /\ high(t) \in V /\ low(t) \in V /\ low(t) < high(t)
           /\ low(t) \in Component(high(t))
<1>1. /\ high(t) \in V /\ low(t) \in V /\ low(t) <= high(t)
      /\ \/ high(t) = p1[t] /\ low(t) = p2[t]
         \/ high(t) = p2[t] /\ low(t) = p1[t]
  BY HighLow
<1>2. /\ p1[t] \in Component(at[t]) /\ p2[t] \in Component(at[t]) /\ p1[t] # p2[t]
      /\ at[t] \in V
  BY DEF HandInv, HandSound, Linking, TypeOK
<1>3. low(t) < high(t)
  <2>1. low(t) \in Int /\ high(t) \in Int /\ low(t) # high(t)
    BY <1>1, <1>2 DEF V
  <2> QED
    BY <1>1, <2>1
<1>4. input \in Inputs
  BY DEF TypeOK
<1>5. low(t) \in Component(at[t]) /\ high(t) \in Component(at[t])
  BY <1>1, <1>2
<1>6. at[t] \in Component(high(t))
  BY <1>2, <1>4, <1>5, ComponentSym
<1> QED
  BY <1>1, <1>2, <1>3, <1>5, <1>6, ComponentTrans

LEMMA SoundInit == Init => Sound
<1> SUFFICES ASSUME Init PROVE Sound
  OBVIOUS
<1>1. V \subseteq Int
  BY DEF V
<1> QED
  BY <1>1, ComponentRefl DEF Init, Sound

LEMMA SoundStep ==
    ASSUME TypeOK, HandInv, Sound, [Next]_vars
    PROVE  Sound'
<1>1. V' = V /\ \A x \in V : Component(x)' = Component(x)
  BY GraphStays
<1>2. CASE comp' = comp
  BY <1>1, <1>2 DEF Sound
<1>3. ASSUME NEW t \in Threads, ThreadStep(t), comp' # comp
      PROVE  Sound'
  <2>1. CASE Cas(t) \/ Store(t)
    <3>1. comp' = [comp EXCEPT ![high(t)] = low(t)] /\ pc[t] \in {"cas", "store"}
      BY <1>3, <2>1 DEF Cas, Store
    <3>2. \A x \in V : comp'[x] = comp[x] \/ (x = high(t) /\ comp'[x] = low(t))
      BY <3>1 DEF TypeOK
    <3>3. /\ high(t) \in V /\ low(t) \in V /\ low(t) < high(t)
          /\ low(t) \in Component(high(t))
      BY <3>1, HookSound
    <3>4. low(t) <= high(t)
      BY <3>3 DEF V
    <3> QED
      BY <1>1, <3>2, <3>3, <3>4 DEF Sound
  <2>2. CASE Jump(t)
    <3>1. \A x \in V : comp'[x] = comp[x] \/ (x = at[t] /\ comp'[x] = got[t])
      BY <2>2 DEF Jump, TypeOK
    <3>2. /\ got[t] \in Component(at[t]) /\ got[t] < at[t]
          /\ got[t] \in V /\ at[t] \in V
      BY <2>2 DEF Jump, HandInv, HandSound, TypeOK
    <3>3. got[t] <= at[t]
      BY <3>2 DEF V
    <3> QED
      BY <1>1, <3>1, <3>2, <3>3 DEF Sound
  <2>3. comp' = comp \/ Cas(t) \/ Store(t) \/ Jump(t)
    BY <1>3 DEF ThreadStep, local, Take, RunsOut, Test, ReadU, ReadV, ReadP2, ReadHigh,
                Up, Upper, ReadLow, Climb, Grand
  <2> QED
    BY <1>3, <2>1, <2>2, <2>3
<1>4. MasterStep \/ UNCHANGED vars => comp' = comp
  BY DEF MasterStep, Fork, Sample, CompressSample, LinkRest, CompressLast, HookAll,
         CompressHooked, Return, vars
<1> QED
  BY <1>2, <1>3, <1>4 DEF Next, Terminated

LEMMA HandInit == Init => HandInv
BY DEF Init, HandInv, HandSound, Linking, Each

(* The thread that acts.                                                   *)
LEMMA HandOwn ==
    ASSUME TypeOK, TypeOK', RegionInv, Sound, HandInv, NEW t \in Threads, ThreadStep(t)
    PROVE  HandSound(t)'
<1> DEFINE L == ToSet(Links(at[t]))
<1>1. /\ \A u : Links(u)' = Links(u)
      /\ V' = V /\ \A x \in V : Component(x)' = Component(x)
      /\ input \in Inputs /\ r \in Nat /\ V \subseteq Int
  <2>1. UNCHANGED <<input, phase, r, c>>
    BY OthersKeep
  <2>2. [Next]_vars
    BY DEF Next
  <2> QED
    BY <2>1, <2>2, LinksStay, GraphStays, RoundsAssumption DEF TypeOK, V
<1>2. /\ at[t] \in V /\ p1[t] \in V /\ p2[t] \in V /\ got[t] \in V /\ todo[t] \in Seq(V)
      /\ \A x \in V : comp[x] \in V
  BY DEF TypeOK
<1>3. todo[t] # <<>> =>
        /\ Head(todo[t]) \in ToSet(todo[t]) /\ ToSet(Tail(todo[t])) \subseteq ToSet(todo[t])
  BY <1>2, InRow
<1>4. \A x \in V : \A y \in Component(x) : y \in V => comp[y] \in Component(x)
  BY <1>2, ComponentTrans DEF Sound
<1>5. \A v \in L : v \in V /\ v \in Component(at[t])
  BY <1>1, <1>2, LinksFacts, ComponentEdge
<1>6. HandSound(t)
  BY DEF HandInv
<1>7. CASE Take(t)
  <2>1. /\ pc'[t] \in {"test", "edge", "climb"} /\ todo'[t] = Links(at'[t])
    BY <1>7 DEF Take, TypeOK
  <2>2. todo'[t] = Links(at[t])'
    BY <1>1, <2>1
  <2> QED
    BY <2>1, <2>2 DEF HandSound, Linking
<1>8. CASE RunsOut(t) \/ Test(t)
  BY <1>1, <1>6, <1>8 DEF RunsOut, Test, HandSound, Linking, TypeOK, local
<1>9. CASE ReadU(t)
  <2>1. comp[at[t]] \in Component(at[t])
    BY <1>2 DEF Sound
  <2> QED
    BY <1>1, <1>2, <1>6, <1>9, <2>1 DEF ReadU, HandSound, Linking, TypeOK
<1>10. CASE ReadV(t) \/ ReadLow(t)
  <2>1. todo[t] # <<>> /\ ToSet(todo[t]) \subseteq L /\ p1[t] \in Component(at[t])
    BY <1>6, <1>10 DEF HandSound, Linking, ReadV, ReadLow
  <2>2. PICK x \in V : ReadP2(t, x) /\ x \in Component(at[t])
    BY <1>2, <1>3, <1>5, <1>6, <1>10, <2>1 DEF ReadV, ReadLow, HandSound, Linking
  <2>3. comp[x] \in Component(at[t])
    BY <1>2, <1>4, <2>2
  <2>4. at'[t] = at[t] /\ p1'[t] = p1[t] /\ p2'[t] = comp[x] /\ comp' = comp
    BY <2>2 DEF ReadP2, TypeOK
  <2>5. CASE comp[x] = p1[t]
    <3>1. pc'[t] = "edge" /\ todo'[t] = Tail(todo[t])
      BY <2>2, <2>5 DEF ReadP2, NextEdge, TypeOK
    <3> QED
      BY <1>1, <1>3, <2>1, <2>4, <3>1 DEF HandSound, Linking
  <2>6. CASE comp[x] # p1[t]
    <3>1. pc'[t] = "high" /\ todo'[t] = todo[t]
      BY <2>2, <2>6 DEF ReadP2, TypeOK
    <3> QED
      BY <1>1, <1>2, <2>1, <2>3, <2>4, <2>6, <3>1 DEF HandSound, Linking
  <2> QED
    BY <2>5, <2>6
<1>11. CASE ReadHigh(t) \/ Cas(t) \/ Store(t)
  <2>1. /\ todo[t] # <<>> /\ ToSet(todo[t]) \subseteq L
        /\ p1[t] \in Component(at[t]) /\ p2[t] \in Component(at[t]) /\ p1[t] # p2[t]
    BY <1>6, <1>11 DEF HandSound, Linking, ReadHigh, Cas, Store
  <2>2. at'[t] = at[t] /\ p1'[t] = p1[t] /\ p2'[t] = p2[t]
    BY <1>11 DEF ReadHigh, Cas, Store, TypeOK
  <2>3. \/ pc'[t] = "edge" /\ todo'[t] = Tail(todo[t])
        \/ pc'[t] \in {"cas", "store", "up"} /\ todo'[t] = todo[t]
    BY <1>11 DEF ReadHigh, Cas, Store, NextEdge, TypeOK
  <2> QED
    BY <1>1, <1>2, <1>3, <2>1, <2>2, <2>3 DEF HandSound, Linking
<1>12. CASE Up(t)
  <2>1. /\ high(t) \in V /\ low(t) \in V
        /\ high(t) \in Component(at[t]) /\ low(t) \in Component(at[t])
    BY <1>6, <1>12, HighLow DEF Up, HandSound, Linking
  <2>2. comp[high(t)] \in Component(at[t])
    BY <1>2, <1>4, <2>1
  <2>3. /\ pc'[t] = "upper" /\ p1'[t] = comp[high(t)] /\ got'[t] = low(t)
        /\ at'[t] = at[t] /\ todo'[t] = todo[t]
    BY <1>12 DEF Up, TypeOK
  <2> QED
    BY <1>1, <1>2, <1>6, <1>12, <2>1, <2>2, <2>3 DEF Up, HandSound, Linking
<1>13. CASE Upper(t)
  <2>1. comp[p1[t]] \in Component(at[t])
    BY <1>2, <1>4, <1>6, <1>13 DEF Upper, HandSound, Linking
  <2>2. /\ pc'[t] = "low" /\ p1'[t] = comp[p1[t]] /\ got'[t] = got[t]
        /\ at'[t] = at[t] /\ todo'[t] = todo[t]
    BY <1>13 DEF Upper, TypeOK
  <2> QED
    BY <1>1, <1>2, <1>6, <1>13, <2>1, <2>2 DEF Upper, HandSound, Linking
<1>14. CASE Climb(t) \/ Jump(t)
  <2>1. /\ pc'[t] \in {"take", "grand", "climb"} /\ at'[t] = at[t]
        /\ pc'[t] = "grand" => comp' = comp /\ comp[at[t]] # comp[comp[at[t]]]
    BY <1>14 DEF Climb, Jump, TypeOK, local
  <2> QED
    BY <2>1 DEF HandSound, Linking
<1>15. CASE Grand(t)
  <2>1. /\ pc'[t] = "jump" /\ at'[t] = at[t] /\ got'[t] = comp[comp[at[t]]] /\ comp' = comp
    BY <1>15 DEF Grand, TypeOK
  <2>2. comp[at[t]] # at[t]
    BY <1>6, <1>15 DEF Grand, HandSound
  <2>3. /\ comp[at[t]] <= at[t] /\ comp[comp[at[t]]] <= comp[at[t]]
        /\ at[t] \in V /\ comp[at[t]] \in V /\ comp[comp[at[t]]] \in V
    BY <1>2 DEF Sound
  <2>4. comp[comp[at[t]]] < at[t]
    BY <2>2, <2>3 DEF V
  <2>5. comp[comp[at[t]]] \in Component(at[t])
    BY <1>2, <1>4, ComponentRefl
  <2> QED
    BY <1>1, <1>2, <2>1, <2>2, <2>4, <2>5 DEF HandSound, Linking
<1> QED
  BY <1>7, <1>8, <1>9, <1>10, <1>11, <1>12, <1>13, <1>14, <1>15 DEF ThreadStep

LEMMA HandStep ==
    ASSUME TypeOK, TypeOK', RegionInv, Sound, HandInv, [Next]_vars
    PROVE  HandInv'
<1>1. /\ input' = input /\ V' = V /\ \A x \in V : Component(x)' = Component(x)
      /\ V \subseteq Int
  BY GraphStays DEF V
<1>2. CASE UNCHANGED vars
  <2>1. UNCHANGED <<input, phase, r, comp, pc, at, todo, p1, p2, got>>
    BY <1>2 DEF vars, local
  <2>2. \A u : Links(u)' = Links(u)
    BY <2>1, LinksStay
  <2>3. \A t \in Threads : at[t] \in V
    BY DEF TypeOK
  <2> QED
    BY <1>1, <2>1, <2>2, <2>3 DEF HandInv, HandSound
<1>3. CASE MasterStep
  <2>1. \A t \in Threads : pc'[t] \in {"take", "end"}
    BY <1>3, MasterEffect DEF ForkedAs, Return, Joined
  <2> QED
    BY <2>1 DEF HandInv, HandSound, Linking
<1>4. ASSUME NEW t \in Threads, ThreadStep(t)
      PROVE  HandInv'
  <2> SUFFICES ASSUME NEW s \in Threads \ {t}
               PROVE  HandSound(s)'
    BY <1>4, HandOwn DEF HandInv
  <2>1. /\ UNCHANGED <<input, phase, r, c>>
        /\ pc'[s] = pc[s] /\ at'[s] = at[s] /\ todo'[s] = todo[s]
        /\ p1'[s] = p1[s] /\ p2'[s] = p2[s] /\ got'[s] = got[s]
    BY <1>4, OthersKeep
  <2>2. \A u : Links(u)' = Links(u)
    BY <2>1, LinksStay
  <2>3. ASSUME pc[s] \in {"grand", "jump"}
        PROVE  comp'[at[s]] # at[s]
    <3>1. comp[at[s]] # at[s] /\ at[s] \in V
      BY <2>3 DEF HandInv, HandSound, TypeOK
    <3>2. comp' = comp \/ Jump(t)
      BY <1>4, <2>3 DEF ThreadStep, local, RegionInv, Linking, Compressing, Take, RunsOut,
         Test, ReadU, ReadV, ReadP2, ReadHigh, Up, Upper, ReadLow, Climb, Grand, Cas, Store
    <3>3. ASSUME Jump(t)
          PROVE  comp'[at[s]] = comp[at[s]] \/ (at[s] = at[t] /\ comp'[at[s]] = got[t])
      BY <3>1, <3>3 DEF Jump, TypeOK
    <3>4. Jump(t) => got[t] < at[t] /\ got[t] \in V /\ at[t] \in V
      BY DEF Jump, HandInv, HandSound, TypeOK
    <3>5. Jump(t) => got[t] # at[t]
      BY <3>4 DEF V
    <3> QED
      BY <3>1, <3>2, <3>3, <3>5
  <2>4. HandSound(s) /\ at[s] \in V
    BY DEF HandInv, TypeOK
  <2> QED
    BY <1>1, <2>1, <2>2, <2>3, <2>4 DEF HandSound
<1> QED
  BY <1>2, <1>3, <1>4 DEF Next, Terminated

-----------------------------------------------------------------------------
(* What a step of a thread does to the trees.                              *)

LEMMA CompChange ==
    ASSUME TypeOK, RegionInv, NEW t \in Threads, ThreadStep(t), comp' # comp
    PROVE  \/ /\ Cas(t) /\ comp[high(t)] = high(t) /\ phase \in {"sample", "link"}
              /\ \A x \in V : comp'[x] = IF x = high(t) THEN low(t) ELSE comp[x]
           \/ /\ Store(t) /\ phase = "hook" /\ input.algorithm = "sv"
              /\ \A x \in V : comp'[x] = IF x = high(t) THEN low(t) ELSE comp[x]
           \/ /\ Jump(t) /\ phase \in {"compress", "flatten"}
              /\ \A x \in V : comp'[x] = IF x = at[t] THEN got[t] ELSE comp[x]
<1>1. Cas(t) \/ Store(t) \/ Jump(t)
  BY DEF ThreadStep, local, Take, RunsOut, Test, ReadU, ReadV, ReadP2, ReadHigh,
         Up, Upper, ReadLow, Climb, Grand
<1>2. CASE Cas(t)
  <2>1. comp[high(t)] = high(t) /\ comp' = [comp EXCEPT ![high(t)] = low(t)] /\ pc[t] = "cas"
    BY <1>2 DEF Cas
  <2>2. phase \in {"sample", "link"}
    BY <2>1 DEF RegionInv, Linking
  <2> QED
    BY <1>2, <2>1, <2>2 DEF TypeOK
<1>3. CASE Store(t)
  <2>1. comp' = [comp EXCEPT ![high(t)] = low(t)] /\ pc[t] = "store"
    BY <1>3 DEF Store
  <2>2. phase = "hook" /\ input.algorithm = "sv"
    BY <2>1 DEF RegionInv, Linking
  <2> QED
    BY <1>3, <2>1, <2>2 DEF TypeOK
<1>4. CASE Jump(t)
  <2>1. comp' = [comp EXCEPT ![at[t]] = got[t]] /\ pc[t] = "jump"
    BY <1>4 DEF Jump
  <2>2. phase \in {"compress", "flatten"}
    BY <2>1 DEF RegionInv, Compressing
  <2> QED
    BY <1>4, <2>1, <2>2 DEF TypeOK
<1> QED
  BY <1>1, <1>2, <1>3, <1>4

(* A jump of t: sets closed below at[t], before and after, agree on its    *)
(* old and its new parent.                                                 *)
LEMMA JumpAgrees ==
    ASSUME TypeOK, RegionInv, JumpSound, NEW t \in Threads, Jump(t), ThreadStep(t),
           comp' # comp,
           NEW S \in SUBSET V,
           \A y \in V : y < at[t] => (y \in S <=> comp'[y] \in S)
    PROVE  /\ comp[at[t]] \in S <=> comp'[at[t]] \in S
           /\ \A y \in V : y # at[t] => comp'[y] = comp[y]
<1>1. \A x \in V : comp'[x] = IF x = at[t] THEN got[t] ELSE comp[x]
  BY DEF Jump, TypeOK
<1>2. at[t] \in V /\ pc[t] = "jump"
  BY DEF Jump, TypeOK
<1>3. \A y \in V : y < at[t] => y # at[t]
  BY <1>2 DEF V
<1>4. S \in Below(at[t])
  BY <1>1, <1>3 DEF Below
<1> QED
  BY <1>1, <1>2, <1>4 DEF JumpSound

LEMMA JumpStep ==
    ASSUME TypeOK, RegionInv, Sound, HandInv, JumpSound, [Next]_vars
    PROVE  JumpSound'
<1>1. V' = V
  BY GraphStays
<1>2. CASE UNCHANGED vars
  BY <1>1, <1>2 DEF JumpSound, Below, vars, local
<1>3. CASE MasterStep
  <2>1. \A t \in Threads : pc'[t] # "jump"
    BY <1>3, MasterEffect DEF ForkedAs, Return, Joined
  <2> QED
    BY <2>1 DEF JumpSound
<1>4. ASSUME NEW t \in Threads, ThreadStep(t)
      PROVE  JumpSound'
  <2> SUFFICES ASSUME NEW s \in Threads, pc'[s] = "jump",
                      NEW S \in SUBSET V,
                      \A y \in V : y < at'[s] => (y \in S <=> comp'[y] \in S)
               PROVE  comp'[at'[s]] \in S <=> got'[s] \in S
    BY <1>1 DEF JumpSound, Below
  <2>1. CASE s = t
    <3>1. Grand(t)
      BY <1>4, <2>1 DEF ThreadStep, TypeOK, NextEdge, local, Take, RunsOut, Test, ReadU,
         ReadV, ReadP2, ReadHigh, Cas, Store, Up, Upper, ReadLow, Climb, Jump
    <3>2. at' = at /\ comp' = comp /\ got'[t] = comp[comp[at[t]]] /\ pc[t] = "grand"
      BY <3>1 DEF Grand, TypeOK
    <3>3. at[t] \in V /\ comp[at[t]] \in V /\ comp[at[t]] # at[t] /\ comp[at[t]] <= at[t]
      BY <3>2 DEF TypeOK, HandInv, HandSound, Sound
    <3>4. comp[at[t]] < at[t]
      BY <3>3 DEF V
    <3> QED
      BY <2>1, <3>2, <3>3, <3>4
  <2>2. CASE s # t
    <3>1. pc[s] = "jump" /\ at'[s] = at[s] /\ got'[s] = got[s] /\ at[s] \in V
      BY <1>4, <2>2, OthersKeep DEF TypeOK
    <3>2. CASE comp' = comp
      <4>1. S \in Below(at[s])
        BY <3>1, <3>2 DEF Below
      <4> QED
        BY <3>1, <3>2, <4>1 DEF JumpSound
    <3>3. CASE comp' # comp
      <4>1. phase \in {"compress", "flatten"}
        BY <3>1 DEF RegionInv, Compressing
      <4>2. Jump(t)
        BY <1>4, <3>3, <4>1, CompChange
      <4>3. \A x \in V : comp'[x] = IF x = at[t] THEN got[t] ELSE comp[x]
        BY <4>2 DEF Jump, TypeOK
      <4>4. at[t] \in V
        BY DEF TypeOK
      <4>5. ASSUME at[t] <= at[s]
            PROVE  comp[at[t]] \in S <=> comp'[at[t]] \in S
        <5>1. \A y \in V : y < at[t] => y < at[s]
          BY <3>1, <4>4, <4>5 DEF V
        <5> QED
          BY <1>4, <3>1, <3>3, <4>2, <5>1, JumpAgrees
      <4>6. S \in Below(at[s])
        <5> SUFFICES ASSUME NEW y \in V, y < at[s]
                     PROVE  y \in S <=> comp[y] \in S
          BY DEF Below
        <5>1. y \in S <=> comp'[y] \in S
          BY <3>1
        <5>2. CASE y = at[t]
          <6>1. at[t] <= at[s]
            BY <3>1, <4>4, <5>2 DEF V
          <6> QED
            BY <4>5, <5>1, <5>2, <6>1
        <5>3. CASE y # at[t]
          BY <4>3, <5>1, <5>3
        <5> QED
          BY <5>2, <5>3
      <4>7. comp[at[s]] \in S <=> got[s] \in S
        BY <3>1, <4>6 DEF JumpSound
      <4>8. CASE at[s] = at[t]
        <5>1. at[t] <= at[s]
          BY <4>4, <4>8 DEF V
        <5> QED
          BY <3>1, <4>5, <4>7, <4>8, <5>1
      <4>9. CASE at[s] # at[t]
        BY <3>1, <4>3, <4>7, <4>9
      <4> QED
        BY <4>8, <4>9
    <3> QED
      BY <3>2, <3>3
  <2> QED
    BY <2>1, <2>2
<1> QED
  BY <1>2, <1>3, <1>4 DEF Next, Terminated

(* A jump leaves the trees as they are.                                    *)
LEMMA JumpKeepsTrees ==
    ASSUME TypeOK, RegionInv, Sound, HandInv, JumpSound,
           NEW t \in Threads, ThreadStep(t), Jump(t), comp' # comp
    PROVE  TreeUnions' = TreeUnions
<1>1. V' = V
  BY GraphStays DEF Next
<1>2. at[t] \in V /\ pc[t] = "jump"
  BY DEF Jump, TypeOK
<1>3. \A x \in V : comp'[x] = IF x = at[t] THEN got[t] ELSE comp[x]
  BY DEF Jump, TypeOK
<1>4. \A y \in V : y < at[t] => y # at[t]
  BY <1>2 DEF V
<1>5. ASSUME NEW S \in TreeUnions
      PROVE  S \in TreeUnions'
  <2>1. S \in SUBSET V /\ \A x \in V : x \in S <=> comp[x] \in S
    BY DEF TreeUnions
  <2>2. \A y \in V : y < at[t] => (y \in S <=> comp'[y] \in S)
    BY <1>3, <1>4, <2>1
  <2>3. /\ comp[at[t]] \in S <=> comp'[at[t]] \in S
        /\ \A y \in V : y # at[t] => comp'[y] = comp[y]
    BY <2>1, <2>2, JumpAgrees
  <2>4. \A x \in V : x \in S <=> comp'[x] \in S
    BY <2>1, <2>3
  <2> QED
    BY <1>1, <2>1, <2>4 DEF TreeUnions
<1>6. ASSUME NEW S \in TreeUnions'
      PROVE  S \in TreeUnions
  <2>1. S \in SUBSET V /\ \A x \in V : x \in S <=> comp'[x] \in S
    BY <1>1 DEF TreeUnions
  <2>2. /\ comp[at[t]] \in S <=> comp'[at[t]] \in S
        /\ \A y \in V : y # at[t] => comp'[y] = comp[y]
    BY <2>1, JumpAgrees
  <2>3. \A x \in V : x \in S <=> comp[x] \in S
    BY <2>1, <2>2
  <2> QED
    BY <2>1, <2>3 DEF TreeUnions
<1> QED
  BY <1>5, <1>6

(* A hook removes the sets that tell the two trees apart.                  *)
LEMMA HookMergesTrees ==
    ASSUME TypeOK, RegionInv, HandInv,
           NEW t \in Threads, ThreadStep(t), Cas(t), comp[high(t)] = high(t)
    PROVE  TreeUnions' = {S \in TreeUnions : high(t) \in S <=> low(t) \in S}
<1>1. V' = V
  BY GraphStays DEF Next
<1>2. \A x \in V : comp'[x] = IF x = high(t) THEN low(t) ELSE comp[x]
  BY DEF Cas, TypeOK
<1>3. high(t) \in V /\ low(t) \in V
  BY HighLow
<1>4. ASSUME NEW S \in SUBSET V
      PROVE  (\A x \in V : x \in S <=> comp'[x] \in S) <=>
                /\ \A x \in V : x \in S <=> comp[x] \in S
                /\ high(t) \in S <=> low(t) \in S
  BY <1>2, <1>3
<1> QED
  BY <1>1, <1>4 DEF TreeUnions

(* No step splits a tree, but for the stores of Shiloach-Vishkin.          *)
LEMMA TreesGrow ==
    ASSUME TypeOK, RegionInv, Sound, HandInv, JumpSound, [Next]_vars
    PROVE  phase = "hook" \/ TreeUnions' \subseteq TreeUnions
<1>1. CASE comp' = comp
  <2>1. V' = V
    BY GraphStays
  <2> QED
    BY <1>1, <2>1 DEF TreeUnions
<1>2. ASSUME NEW t \in Threads, ThreadStep(t), comp' # comp
      PROVE  phase = "hook" \/ TreeUnions' \subseteq TreeUnions
  <2>1. CASE Cas(t) /\ comp[high(t)] = high(t)
    BY <1>2, <2>1, HookMergesTrees
  <2>2. CASE Jump(t)
    BY <1>2, <2>2, JumpKeepsTrees
  <2> QED
    BY <1>2, <2>1, <2>2, CompChange
<1>3. MasterStep \/ UNCHANGED vars => comp' = comp
  BY DEF MasterStep, Fork, Sample, CompressSample, LinkRest, CompressLast, HookAll,
         CompressHooked, Return, vars
<1> QED
  BY <1>1, <1>2, <1>3 DEF Next, Terminated

-----------------------------------------------------------------------------
(* SameTree is an equivalence; a vertex is with its parent.                *)
LEMMA SameTreeEquiv ==
    /\ \A x : SameTree(x, x)
    /\ \A x, y : SameTree(x, y) => SameTree(y, x)
    /\ \A x, y, z : SameTree(x, y) /\ SameTree(y, z) => SameTree(x, z)
    /\ \A x \in V : SameTree(x, comp[x])
BY DEF SameTree, TreeUnions

LEMMA SameTreeStays ==
    ASSUME TreeUnions' \subseteq TreeUnions
    PROVE  /\ \A x, y : SameTree(x, y) => SameTree(x, y)'
           /\ \A u, v, x, y : TwoTrees(u, v, x, y) => TwoTrees(u, v, x, y)'
BY DEF SameTree, TwoTrees

(* The two trees found anew from vertices of the same trees.               *)
LEMMA TwoTreesMove ==
    \A u, v, x, y, x1, y1 :
        /\ TwoTrees(u, v, x, y) => TwoTrees(u, v, y, x)
        /\ TwoTrees(u, v, x, y) /\ SameTree(x, x1) /\ SameTree(y, y1) =>
             TwoTrees(u, v, x1, y1)
        /\ TwoTrees(u, v, x, y) /\ SameTree(x, y) => SameTree(u, v)
BY SameTreeEquiv DEF TwoTrees

LEMMA CompKept ==
    ASSUME [Next]_vars, comp' = comp
    PROVE  TreeUnions' = TreeUnions
BY GraphStays DEF TreeUnions

(* The vertices in hand pass from `work` to a thread and, edge by edge,    *)
(* out of its hands.                                                       *)
LEMMA HandMoves ==
    ASSUME TypeOK, RegionInv, HandInv, NEW t \in Threads, ThreadStep(t),
           NEW u, NEW v, InHand(u, v)
    PROVE  \/ InHand(u, v)'
           \/ /\ NextEdge(t) /\ pc[t] \in Linking /\ u = at[t]
              /\ todo[t] # <<>> /\ v = Head(todo[t])
           \/ Test(t) /\ comp[at[t]] = c /\ u = at[t] /\ phase = "link"
<1>1. PICK s \in Threads : at[s] = u /\ pc[s] \in Linking /\ v \in ToSet(todo[s])
  BY DEF InHand
<1>2. CASE s # t
  BY <1>1, <1>2, OthersKeep DEF InHand
<1>3. CASE s = t
  <2>1. /\ todo[t] \in Seq(V) /\ ToSet(<<>>) = {} /\ todo[t] # <<>>
        /\ v = Head(todo[t]) \/ v \in ToSet(Tail(todo[t]))
    <3>1. todo[t] \in Seq(V) /\ ToSet(<<>>) = {}
      BY DEF TypeOK, ToSet
    <3> QED
      BY <1>1, <1>3, <3>1, InRow
  <2>2. CASE NextEdge(t) /\ at' = at
    <3>1. pc'[t] \in Linking /\ todo'[t] = Tail(todo[t]) /\ at'[t] = u
      BY <1>1, <1>3, <2>2 DEF NextEdge, TypeOK, Linking
    <3> QED
      BY <1>1, <1>3, <2>1, <2>2, <3>1 DEF InHand
  <2>3. CASE at' = at /\ todo' = todo /\ pc'[t] \in Linking
    BY <1>1, <1>3, <2>3 DEF InHand
  <2>4. CASE Test(t) /\ comp[at[t]] = c
    BY <1>1, <1>3, <2>4 DEF Test, RegionInv
  <2>5. CASE Test(t) /\ comp[at[t]] # c
    BY <2>3, <2>5 DEF Test, TypeOK, local, Linking
  <2>6. CASE ReadU(t)
    BY <2>1, <2>3, <2>6 DEF ReadU, TypeOK, Linking
  <2>7. CASE ReadV(t) \/ ReadLow(t) \/ ReadHigh(t) \/ Cas(t) \/ Store(t)
    <3>1. at' = at /\ (NextEdge(t) \/ (todo' = todo /\ pc'[t] \in Linking))
      BY <2>7 DEF ReadV, ReadLow, ReadP2, ReadHigh, Cas, Store, TypeOK, Linking
    <3> QED
      BY <2>2, <2>3, <3>1
  <2>8. CASE Up(t) \/ Upper(t)
    BY <2>3, <2>8 DEF Up, Upper, TypeOK, Linking
  <2>9. pc[t] \in Linking
    BY <1>1, <1>3
  <2> QED
    BY <2>4, <2>5, <2>6, <2>7, <2>8, <2>9
       DEF ThreadStep, Take, RunsOut, Climb, Grand, Jump, Linking
<1> QED
  BY <1>2, <1>3

LEMMA WorkMoves ==
    ASSUME TypeOK, RegionInv, NEW t \in Threads, ThreadStep(t),
           phase \in {"sample", "link", "hook"}
    PROVE  \A u \in V \ work' :
               u \in V \ work \/ \A v \in ToSet(Links(u)) : InHand(u, v)'
<1>1. CASE Take(t)
  <2>1. PICK x \in work : /\ work' = work \ {x} /\ at' = [at EXCEPT ![t] = x]
                          /\ todo' = [todo EXCEPT ![t] = Links(x)]
    BY <1>1 DEF Take
  <2>2. at'[t] = x /\ todo'[t] = Links(x) /\ pc'[t] \in Linking
    BY <1>1, <2>1 DEF Take, TypeOK, Linking
  <2>3. \A v \in ToSet(Links(x)) : InHand(x, v)'
    BY <2>2 DEF InHand
  <2> QED
    BY <2>1, <2>3
<1>2. CASE work' = work
  BY <1>2
<1> QED
  BY <1>1, <1>2 DEF ThreadStep, local, RunsOut, Test, ReadU, ReadV, ReadP2, ReadHigh, Cas,
     Store, Up, Upper, ReadLow, Climb, Grand, Jump

(* What a thread knows of the trees when it is done with an edge.          *)
LEMMA EdgeDone ==
    ASSUME TypeOK, RegionInv, Sound, HandInv, LinkInv, JumpSound,
           input.algorithm = "afforest",
           NEW t \in Threads, ThreadStep(t), pc[t] \in Linking, NextEdge(t), todo[t] # <<>>,
           NEW S \in TreeUnions'
    PROVE  at[t] \in S <=> Head(todo[t]) \in S
<1>1. TreeUnions' \subseteq TreeUnions
  BY TreesGrow DEF Next, RegionInv
<1>2. /\ at[t] \in V /\ Head(todo[t]) \in V /\ p1[t] \in V /\ p2[t] \in V /\ got[t] \in V
  BY InRow DEF TypeOK
<1>3. pc'[t] = "edge" /\ todo'[t] # todo[t]
  <2>1. todo[t] \in Seq(V) /\ Len(Tail(todo[t])) # Len(todo[t])
    BY DEF TypeOK
  <2> QED
    BY <2>1 DEF NextEdge, TypeOK
<1>4. S \in TreeUnions /\ (\A x \in V : x \in S <=> comp[x] \in S)
  BY <1>1 DEF TreeUnions
<1>5. CASE ReadV(t)
  <2>1. comp[Head(todo[t])] = p1[t] /\ pc[t] = "v"
    BY <1>3, <1>5 DEF ReadV, ReadP2, TypeOK
  <2>2. SameTree(at[t], p1[t])
    BY <2>1 DEF LinkInv
  <2> QED
    BY <1>2, <1>4, <2>1, <2>2 DEF SameTree
<1>6. CASE ReadLow(t)
  <2>1. comp[got[t]] = p1[t] /\ pc[t] = "low"
    BY <1>3, <1>6 DEF ReadLow, ReadP2, TypeOK
  <2>2. TwoTrees(at[t], Head(todo[t]), p1[t], got[t])
    BY <2>1 DEF LinkInv
  <2> QED
    BY <1>2, <1>4, <2>1, <2>2 DEF TwoTrees, SameTree
<1>7. CASE ReadHigh(t) \/ Cas(t)
  <2>1. TwoTrees(at[t], Head(todo[t]), p1[t], p2[t])
    BY <1>7 DEF ReadHigh, Cas, LinkInv
  <2>2. /\ high(t) \in V /\ low(t) \in V
        /\ \/ high(t) = p1[t] /\ low(t) = p2[t]
           \/ high(t) = p2[t] /\ low(t) = p1[t]
    BY HighLow
  <2>3. high(t) \in S <=> low(t) \in S
    <3>1. CASE ReadHigh(t)
      <4>1. comp[high(t)] = low(t)
        BY <1>3, <3>1 DEF ReadHigh, TypeOK
      <4> QED
        BY <1>4, <2>2, <4>1
    <3>2. CASE Cas(t)
      <4>1. comp[high(t)] = high(t)
        BY <1>3, <3>2 DEF Cas, TypeOK
      <4> QED
        BY <3>2, <4>1, HookMergesTrees
    <3> QED
      BY <1>7, <3>1, <3>2
  <2> QED
    BY <1>4, <2>1, <2>2, <2>3 DEF TwoTrees, SameTree
<1>8. ReadV(t) \/ ReadLow(t) \/ ReadHigh(t) \/ Cas(t)
  <2>1. ~Store(t)
    BY GraphFacts DEF Store, RegionInv
  <2> QED
    BY <1>3, <2>1 DEF ThreadStep, local, TypeOK, Linking, Take, RunsOut, Test, ReadU, Up, Upper,
       Climb, Grand, Jump
<1> QED
  BY <1>5, <1>6, <1>7, <1>8

-----------------------------------------------------------------------------
(* The parts of the invariant about the links.                             *)

LEMMA LinkInit == Init => LinkInv
BY DEF Init, LinkInv, Each

LEMMA LinkStep ==
    ASSUME TypeOK, RegionInv, Sound, HandInv, LinkInv, JumpSound, [Next]_vars
    PROVE  LinkInv'
<1> SUFFICES ASSUME input.algorithm = "afforest" PROVE LinkInv'
  BY GraphStays DEF LinkInv
<1>1. TreeUnions' \subseteq TreeUnions
  BY TreesGrow DEF RegionInv
<1>2. /\ \A x, y : SameTree(x, y) => SameTree(x, y)'
      /\ \A u, v, x, y : TwoTrees(u, v, x, y) => TwoTrees(u, v, x, y)'
  BY <1>1, SameTreeStays
<1>3. CASE UNCHANGED vars
  BY <1>2, <1>3 DEF LinkInv, vars, local
<1>4. CASE MasterStep
  <2>1. \A t \in Threads : pc'[t] \in {"take", "end"}
    BY <1>4, MasterEffect DEF ForkedAs, Return, Joined
  <2> QED
    BY <2>1 DEF LinkInv
<1>5. ASSUME NEW t \in Threads, ThreadStep(t)
      PROVE  LinkInv'
  <2> DEFINE u == at[t]
             v == Head(todo[t])
  <2> SUFFICES ASSUME NEW s \in Threads
               PROVE  /\ pc'[s] = "v" => SameTree(at[s], p1[s])'
                      /\ pc'[s] \in {"high", "cas", "up"} =>
                           TwoTrees(at[s], Head(todo[s]), p1[s], p2[s])'
                      /\ pc'[s] \in {"upper", "low"} =>
                           TwoTrees(at[s], Head(todo[s]), p1[s], got[s])'
    BY DEF LinkInv
  <2>1. CASE s # t
    BY <1>2, <1>5, <2>1, OthersKeep DEF LinkInv
  <2>2. CASE s = t
    <3>1. /\ u \in V /\ p1[t] \in V /\ p2[t] \in V /\ got[t] \in V
          /\ high(t) \in V /\ low(t) \in V
      BY HighLow DEF TypeOK
    <3>2. CASE ReadU(t)
      <4>1. /\ pc'[t] # "v" => pc'[t] = "take"
            /\ pc'[t] = "v" => p1'[t] = comp[u] /\ at'[t] = u
        BY <3>2 DEF ReadU, TypeOK
      <4> QED
        BY <1>2, <2>2, <3>1, <4>1, SameTreeEquiv
    <3>3. CASE ReadV(t)
      <4>1. /\ SameTree(u, p1[t]) /\ todo[t] # <<>>
        BY <3>3 DEF ReadV, LinkInv, HandInv, HandSound, Linking
      <4>2. v \in V
        BY <4>1, InRow DEF TypeOK
      <4>3. TwoTrees(u, v, p1[t], comp[v])
        BY <4>1, <4>2, SameTreeEquiv DEF TwoTrees
      <4>4. /\ pc'[t] # "high" => pc'[t] = "edge"
            /\ pc'[t] = "high" => todo'[t] = todo[t]
            /\ p1'[t] = p1[t] /\ p2'[t] = comp[v] /\ at'[t] = u
        BY <3>3 DEF ReadV, ReadP2, NextEdge, TypeOK
      <4> QED
        BY <1>2, <2>2, <4>3, <4>4
    <3>4. CASE ReadLow(t)
      <4>1. TwoTrees(u, v, p1[t], got[t])
        BY <3>4 DEF ReadLow, LinkInv
      <4>2. TwoTrees(u, v, p1[t], comp[got[t]])
        BY <3>1, <4>1, SameTreeEquiv, TwoTreesMove
      <4>3. /\ pc'[t] # "high" => pc'[t] = "edge"
            /\ pc'[t] = "high" => todo'[t] = todo[t]
            /\ p1'[t] = p1[t] /\ p2'[t] = comp[got[t]] /\ at'[t] = u
        BY <3>4 DEF ReadLow, ReadP2, NextEdge, TypeOK
      <4> QED
        BY <1>2, <2>2, <4>2, <4>3
    <3>5. CASE ReadHigh(t) \/ Cas(t) \/ Up(t)
      <4>1. TwoTrees(u, v, p1[t], p2[t])
        BY <3>5 DEF ReadHigh, Cas, Up, LinkInv
      <4>2. CASE ~Up(t)
        <5>1. /\ pc'[t] \notin {"cas", "up"} => pc'[t] \in {"edge", "store"}
              /\ pc'[t] \in {"cas", "up"} => todo'[t] = todo[t]
              /\ p1'[t] = p1[t] /\ p2'[t] = p2[t] /\ at'[t] = u
          BY <3>5, <4>2 DEF ReadHigh, Cas, NextEdge, TypeOK
        <5> QED
          BY <1>2, <2>2, <4>1, <5>1
      <4>3. CASE Up(t)
        <5>1. TwoTrees(u, v, high(t), low(t))
          BY <4>1, HighLow, TwoTreesMove
        <5>2. TwoTrees(u, v, comp[high(t)], low(t))
          BY <3>1, <5>1, SameTreeEquiv, TwoTreesMove
        <5>3. /\ pc'[t] = "upper" /\ p1'[t] = comp[high(t)] /\ got'[t] = low(t)
              /\ todo'[t] = todo[t] /\ at'[t] = u
          BY <4>3 DEF Up, TypeOK
        <5> QED
          BY <1>2, <2>2, <5>2, <5>3
      <4> QED
        BY <4>2, <4>3
    <3>6. CASE Upper(t)
      <4>1. TwoTrees(u, v, p1[t], got[t])
        BY <3>6 DEF Upper, LinkInv
      <4>2. TwoTrees(u, v, comp[p1[t]], got[t])
        BY <3>1, <4>1, SameTreeEquiv, TwoTreesMove
      <4>3. /\ pc'[t] = "low" /\ p1'[t] = comp[p1[t]] /\ got'[t] = got[t]
            /\ todo'[t] = todo[t] /\ at'[t] = u
        BY <3>6 DEF Upper, TypeOK
      <4> QED
        BY <1>2, <2>2, <4>2, <4>3
    <3>7. CASE \/ Take(t) \/ RunsOut(t) \/ Test(t) \/ Store(t)
               \/ Climb(t) \/ Grand(t) \/ Jump(t)
      <4>1. pc'[t] \in {"test", "edge", "climb", "end", "take", "grand", "jump"}
        BY <3>7 DEF Take, RunsOut, Test, Store, NextEdge, Climb, Grand, Jump, TypeOK
      <4> QED
        BY <2>2, <4>1
    <3> QED
      BY <1>5, <3>2, <3>3, <3>4, <3>5, <3>6, <3>7 DEF ThreadStep
  <2> QED
    BY <2>1, <2>2
<1> QED
  BY <1>3, <1>4, <1>5 DEF Next, Terminated

LEMMA LinkedInit == Init => LinkedSoFar /\ SampledSoFar /\ AllLinked
<1> SUFFICES ASSUME Init PROVE LinkedSoFar /\ SampledSoFar /\ AllLinked
  OBVIOUS
<1>1. phase = "start" /\ r = 0 /\ 1 .. 0 = {}
  BY DEF Init
<1> QED
  BY <1>1 DEF LinkedSoFar, SampledSoFar, AllLinked

LEMMA LinkedStep ==
    ASSUME TypeOK, RegionInv, Sound, HandInv, LinkInv, JumpSound, LinkedSoFar, [Next]_vars
    PROVE  LinkedSoFar'
<1>1. CASE UNCHANGED vars
  <2>1. UNCHANGED <<input, phase, r, c, comp, work, pc, at, todo>>
    BY <1>1 DEF vars, local
  <2>2. V' = V /\ \A u : Links(u)' = Links(u)
    BY <2>1, LinksStay DEF V
  <2>3. \A u, v : SameTree(u, v)' = SameTree(u, v)
    BY <2>1 DEF SameTree, TreeUnions, V
  <2>4. \A u, v : InHand(u, v)' = InHand(u, v)
    BY <2>1 DEF InHand
  <2> QED
    BY <2>1, <2>2, <2>3, <2>4 DEF LinkedSoFar
<1>2. CASE MasterStep
  <2>1. phase' \in {"sample", "link"} => work' = V'
    BY <1>2, MasterEffect DEF ForkedAs, V
  <2> QED
    BY <2>1 DEF LinkedSoFar
<1>3. ASSUME NEW t \in Threads, ThreadStep(t)
      PROVE  LinkedSoFar'
  <2>1. /\ UNCHANGED <<input, phase, r, c>> /\ V' = V
        /\ \A u : Links(u)' = Links(u)
    BY <1>3, OthersKeep, LinksStay DEF V
  <2> SUFFICES ASSUME phase \in {"sample", "link"},
                      NEW u \in V \ work', NEW v \in ToSet(Links(u))
               PROVE  \/ SameTree(u, v)' \/ InHand(u, v)'
                      \/ phase = "link" /\ SameTree(u, c)'
    BY <2>1 DEF LinkedSoFar
  <2>2. input.algorithm = "afforest" /\ TreeUnions' \subseteq TreeUnions
    BY TreesGrow DEF RegionInv
  <2>3. \A x, y : SameTree(x, y) => SameTree(x, y)'
    BY <2>2, SameTreeStays
  <2>4. CASE u \notin V \ work
    BY <1>3, <2>4, WorkMoves
  <2>5. CASE u \in V \ work /\ ~InHand(u, v)
    BY <2>1, <2>3, <2>5 DEF LinkedSoFar
  <2>6. CASE InHand(u, v)
    <3>1. ASSUME NextEdge(t), pc[t] \in Linking, u = at[t], todo[t] # <<>>, v = Head(todo[t])
          PROVE  SameTree(u, v)'
      <4>1. \A S \in TreeUnions' : u \in S <=> v \in S
        BY <1>3, <2>2, <3>1, EdgeDone
      <4> QED
        BY <4>1 DEF SameTree
    <3>2. ASSUME comp[at[t]] = c, u = at[t]
          PROVE  SameTree(u, c)'
      BY <2>1, <2>3, <3>2, SameTreeEquiv DEF TypeOK
    <3> QED
      BY <1>3, <2>6, <3>1, <3>2, HandMoves
  <2> QED
    BY <2>4, <2>5, <2>6
<1> QED
  BY <1>1, <1>2, <1>3 DEF Next, Terminated

(* Nobody has a neighbour in hand once all threads have ended.             *)
LEMMA NoneLeft ==
    ASSUME TypeOK, RegionInv, NEW p, Joined(p)
    PROVE  /\ work = {} /\ phase = p
           /\ \A u, v : ~InHand(u, v)
           /\ \A t \in Threads : pc[t] \notin Compressing
BY ThreadsAssumption DEF RegionInv, Joined, InHand, Linking, Compressing

LEMMA SampledStep ==
    ASSUME TypeOK, RegionInv, Sound, HandInv, JumpSound, LinkedSoFar, SampledSoFar, [Next]_vars
    PROVE  SampledSoFar'
<1> SUFFICES ASSUME input.algorithm = "afforest",
                    NEW u \in V, NEW k \in 1 .. r', k <= Len(input.out[u])
             PROVE  SameTree(u, input.out[u][k])'
  BY GraphStays DEF SampledSoFar
<1>1. input' = input /\ TreeUnions' \subseteq TreeUnions /\ r \in Nat
  BY GraphStays, TreesGrow, RoundsAssumption DEF RegionInv, TypeOK
<1>2. SUFFICES SameTree(u, input.out[u][k])
  BY <1>1, SameTreeStays
<1>3. CASE k \in 1 .. r
  BY <1>3 DEF SampledSoFar
<1>4. CASE k \notin 1 .. r
  <2>1. CompressSample /\ r' = r + 1
    <3>1. r' = r => 1 .. r' = 1 .. r
      OBVIOUS
    <3>2. r' # r
      BY <1>4, <3>1
    <3>3. MasterStep
      BY <3>2 DEF Next, ThreadStep, Terminated, vars
    <3> QED
      BY <3>2, <3>3, MasterEffect
  <2>2. k = r + 1 /\ k \in 1 .. Len(input.out[u])
    <3>1. Len(input.out[u]) \in Nat
      BY GraphFacts DEF TypeOK
    <3> QED
      BY <1>1, <1>4, <2>1, <3>1
  <2>3. Joined("sample") /\ phase = "sample"
    BY <2>1 DEF CompressSample, Joined
  <2>4. input.out[u][k] \in ToSet(Links(u))
    BY <1>1, <2>2, <2>3, LinksFacts DEF TypeOK
  <2> QED
    BY <2>3, <2>4, NoneLeft DEF LinkedSoFar
<1> QED
  BY <1>3, <1>4

(* After the last links every edge is in one tree: the edge of a vertex    *)
(* that was passed over by its own sampled links, from the other end, or   *)
(* because both ends were passed over.                                     *)
LEMMA LastLinks ==
    ASSUME TypeOK, RegionInv, LinkedSoFar, SampledSoFar, Joined("link"),
           NEW e \in input.edges
    PROVE  SameTree(e[1], e[2])
<1> DEFINE x == e[1]
           y == e[2]
<1>1. input \in Inputs /\ r \in Nat /\ phase = "link"
  BY RoundsAssumption DEF TypeOK, Joined
<1>2. x \in V /\ y \in V /\ e = <<x, y>>
  BY <1>1, GraphFacts
<1>3. \A u \in V : (\A v \in ToSet(Links(u)) : SameTree(u, v)) \/ SameTree(u, c)
  BY <1>1, NoneLeft DEF LinkedSoFar
<1>4. \A u \in V : \A k \in 1 .. Len(input.out[u]) :
         k <= neighbor_rounds => SameTree(u, input.out[u][k])
  <2>1. input.algorithm = "afforest" /\ r = neighbor_rounds
    BY <1>1 DEF RegionInv
  <2>2. \A u \in V : \A k \in 1 .. Len(input.out[u]) : k <= neighbor_rounds => k \in 1 .. r
    BY <1>1, <2>1, GraphFacts
  <2> QED
    BY <2>1, <2>2, GraphFacts DEF SampledSoFar
<1>5. \A u, v \in V : <<u, v>> \in input.edges =>
         SameTree(u, v) \/ v \in ToSet(Links(u))
  <2> SUFFICES ASSUME NEW u \in V, NEW v \in V, <<u, v>> \in input.edges
               PROVE  SameTree(u, v) \/ v \in ToSet(Links(u))
    OBVIOUS
  <2>1. input.out[u] \in Seq(V) /\ v \in ToSet(input.out[u])
    BY <1>1, GraphFacts
  <2>2. PICK k \in 1 .. Len(input.out[u]) : input.out[u][k] = v
    BY <2>1, InRow
  <2>3. CASE k <= neighbor_rounds
    BY <1>4, <2>2, <2>3
  <2>4. CASE k > neighbor_rounds
    BY <1>1, <2>2, <2>4, LinksFacts
  <2> QED
    BY <2>1, <2>3, <2>4, RoundsAssumption
<1>6. SameTree(x, y) \/ SameTree(x, c)
  BY <1>2, <1>3, <1>5
<1>7. SameTree(y, x) \/ SameTree(y, c)
  <2>1. CASE input.directed
    <3>1. x \in ToSet(input.in[y])
      BY <1>1, <1>2, GraphFacts
    <3>2. x \in ToSet(Links(y))
      BY <1>1, <1>2, <2>1, <3>1, LinksFacts
    <3> QED
      BY <1>2, <1>3, <3>2
  <2>2. CASE ~input.directed
    <3>1. <<y, x>> \in input.edges
      BY <1>1, <1>2, <2>2, GraphFacts
    <3> QED
      BY <1>2, <1>3, <1>5, <3>1
  <2> QED
    BY <2>1, <2>2
<1> QED
  BY <1>6, <1>7, SameTreeEquiv

(* So it is after a round of Shiloach-Vishkin without a hook.              *)
LEMMA QuietLinks ==
    ASSUME TypeOK, RegionInv, QuietRound, Joined("hook"), ~change, NEW e \in input.edges
    PROVE  SameTree(e[1], e[2])
<1>1. input \in Inputs /\ r \in Nat /\ phase = "hook"
  BY RoundsAssumption DEF TypeOK, Joined
<1>2. e[1] \in V /\ e[2] \in V /\ e = <<e[1], e[2]>>
  BY <1>1, GraphFacts
<1>3. e[2] \in ToSet(input.out[e[1]])
  BY <1>1, <1>2, GraphFacts
<1>4. e[2] \in ToSet(Links(e[1]))
  BY <1>1, <1>2, <1>3, LinksFacts
<1>5. comp[e[1]] = comp[e[2]]
  BY <1>1, <1>2, <1>4, NoneLeft DEF QuietRound
<1> QED
  BY <1>2, <1>5, SameTreeEquiv

LEMMA AllLinkedStep ==
    ASSUME TypeOK, RegionInv, Sound, HandInv, JumpSound, LinkedSoFar, SampledSoFar,
           AllLinked, QuietRound, [Next]_vars
    PROVE  AllLinked'
<1>1. input' = input /\ (phase = "hook" \/ TreeUnions' \subseteq TreeUnions)
  BY GraphStays, TreesGrow
<1>2. CASE UNCHANGED vars
  <2>1. UNCHANGED <<input, phase, change, comp>>
    BY <1>2 DEF vars
  <2>2. \A x, y : SameTree(x, y)' = SameTree(x, y)
    BY <2>1 DEF SameTree, TreeUnions, V
  <2> QED
    BY <2>1, <2>2 DEF AllLinked
<1>3. CASE MasterStep
  <2> SUFFICES ASSUME phase' = "done" \/
                        (phase' = "flatten" /\ (input.algorithm = "sv" => ~change'))
               PROVE  \A e \in input.edges : SameTree(e[1], e[2])'
    BY <1>1 DEF AllLinked
  <2>1. comp' = comp /\ change' = change
    BY <1>3, MasterEffect DEF ForkedAs
  <2>2. SUFFICES \A e \in input.edges : SameTree(e[1], e[2])
    <3>1. TreeUnions' = TreeUnions
      BY <2>1, CompKept
    <3> QED
      BY <3>1, SameTreeStays
  <2>3. CASE CompressLast
    BY <2>3, LastLinks DEF CompressLast
  <2>4. CASE CompressHooked
    <3>1. Joined("hook") /\ ~change
      BY <2>1, <2>4, MasterEffect DEF CompressHooked, Fork, RegionInv, Joined
    <3> QED
      BY <3>1, QuietLinks
  <2>5. CASE Return
    BY <2>5 DEF Return, AllLinked, Joined
  <2> QED
    BY <1>3, <2>3, <2>4, <2>5, MasterEffect DEF ForkedAs
<1>4. ASSUME NEW t \in Threads, ThreadStep(t)
      PROVE  AllLinked'
  <2> SUFFICES ASSUME phase = "done" \/
                        (phase = "flatten" /\ (input.algorithm = "sv" => ~change'))
               PROVE  \A e \in input.edges : SameTree(e[1], e[2])'
    BY <1>1, <1>4, OthersKeep DEF AllLinked
  <2>1. change' = change \/ change' = TRUE
    BY <1>4 DEF ThreadStep, Take, RunsOut, Test, ReadU, ReadV, ReadP2, ReadHigh, Cas,
       Store, Up, Upper, ReadLow, Climb, Grand, Jump
  <2>2. \A e \in input.edges : SameTree(e[1], e[2])
    BY <2>1 DEF AllLinked
  <2> QED
    BY <1>1, <2>2, SameTreeStays
<1> QED
  BY <1>2, <1>3, <1>4 DEF Next, Terminated

-----------------------------------------------------------------------------
(* The parts of the invariant about flat trees.                            *)

LEMMA FlatInit == Init => FlatSoFar /\ QuietRound /\ JumpSound
BY DEF Init, FlatSoFar, QuietRound, JumpSound, Each

LEMMA FlatStep ==
    ASSUME TypeOK, RegionInv, HandInv, FlatSoFar, [Next]_vars
    PROVE  FlatSoFar'
<1>1. V' = V
  BY GraphStays
<1>2. CASE UNCHANGED vars
  BY <1>1, <1>2 DEF FlatSoFar, Flat, vars, local
<1>3. CASE MasterStep
  <2>1. CASE Return
    <3>1. Joined("flatten") /\ phase' = "done" /\ comp' = comp
      BY <2>1 DEF Return
    <3>2. \A x \in V : Flat(x)
      BY <3>1, NoneLeft DEF FlatSoFar
    <3> QED
      BY <1>1, <3>1, <3>2 DEF FlatSoFar, Flat
  <2>2. CASE ~Return
    <3>1. phase' # "done" /\ work' = V
      BY <1>3, <2>2, MasterEffect DEF ForkedAs
    <3> QED
      BY <1>1, <3>1 DEF FlatSoFar
  <2> QED
    BY <2>1, <2>2
<1>4. ASSUME NEW t \in Threads, ThreadStep(t)
      PROVE  FlatSoFar'
  <2>1. phase' = phase /\ phase # "done"
    BY <1>4, OthersKeep DEF RegionInv, ThreadStep, Take, RunsOut, Test, ReadU, ReadV,
       ReadHigh, Cas, Store, Up, Upper, ReadLow, Climb, Grand, Jump
  <2> SUFFICES ASSUME phase \in {"compress", "flatten"}, NEW x \in V \ work'
               PROVE  Flat(x)' \/ \E s \in Threads : at'[s] = x /\ pc'[s] \in Compressing
    BY <1>1, <2>1 DEF FlatSoFar
  <2>2. \A s \in Threads : pc[s] \notin Linking
    BY DEF RegionInv
  <2>3. \/ Take(t) \/ RunsOut(t) \/ Climb(t) \/ Grand(t) \/ Jump(t)
    BY <1>4, <2>2 DEF ThreadStep, Test, ReadU, ReadV, ReadHigh, Cas, Store, Up, Upper,
       ReadLow, Linking
  <2>4. CASE \E s \in Threads \ {t} : at[s] = x /\ pc[s] \in Compressing
    BY <1>4, <2>4, OthersKeep
  <2>5. CASE at[t] = x /\ pc[t] \in Compressing
    <3>1. CASE Climb(t) /\ comp[at[t]] = comp[comp[at[t]]]
      BY <2>5, <3>1 DEF Climb, Flat
    <3>2. CASE ~(Climb(t) /\ comp[at[t]] = comp[comp[at[t]]])
      <4>1. pc'[t] \in Compressing /\ at'[t] = x
        BY <2>3, <2>5, <3>2 DEF Climb, Grand, Jump, Take, RunsOut, Compressing, TypeOK, local
      <4> QED
        BY <4>1
    <3> QED
      BY <3>1, <3>2
  <2>6. CASE x \in work
    <3>1. Take(t)
      BY <2>3, <2>6 DEF RunsOut, Climb, Grand, Jump
    <3>2. at'[t] = x /\ pc'[t] \in Compressing
      BY <2>6, <3>1 DEF Take, TypeOK, Compressing
    <3> QED
      BY <3>2
  <2>7. CASE Flat(x) /\ ~(at[t] = x /\ pc[t] \in Compressing)
    <3>1. CASE Jump(t)
      <4>1. \A y \in V : comp'[y] = IF y = at[t] THEN got[t] ELSE comp[y]
        BY <3>1 DEF Jump, TypeOK
      <4>2. comp[at[t]] # at[t] /\ at[t] # x /\ at[t] \in V /\ comp[x] \in V
        BY <2>7, <3>1 DEF Jump, HandInv, HandSound, Compressing, TypeOK
      <4>3. comp[x] # at[t]
        BY <2>7, <4>2 DEF Flat
      <4> QED
        BY <2>7, <4>1, <4>2, <4>3 DEF Flat
    <3>2. CASE ~Jump(t)
      <4>1. comp' = comp
        BY <2>3, <3>2 DEF Take, RunsOut, Climb, Grand
      <4> QED
        BY <2>7, <4>1 DEF Flat
    <3> QED
      BY <3>1, <3>2
  <2> QED
    BY <2>4, <2>5, <2>6, <2>7 DEF FlatSoFar
<1> QED
  BY <1>2, <1>3, <1>4 DEF Next, Terminated

LEMMA QuietStep ==
    ASSUME TypeOK, RegionInv, Sound, HandInv, FlatSoFar, QuietRound, [Next]_vars
    PROVE  QuietRound'
<1>1. V' = V
  BY GraphStays
<1>2. CASE UNCHANGED vars
  <2>1. UNCHANGED <<input, phase, r, change, comp, work, pc, at, todo, p1, p2>>
    BY <1>2 DEF vars, local
  <2>2. \A u : Links(u)' = Links(u)
    BY <2>1, LinksStay
  <2>3. \A u, v : InHand(u, v)' = InHand(u, v)
    BY <2>1 DEF InHand
  <2> QED
    BY <1>1, <2>1, <2>2, <2>3 DEF QuietRound, Flat
<1>3. CASE MasterStep
  <2> SUFFICES ASSUME phase' = "hook" PROVE QuietRound'
    BY DEF QuietRound
  <2>1. HookAll /\ ForkedAs("hook")
    BY <1>3, MasterEffect DEF ForkedAs
  <2>2. \A x \in V : Flat(x)
    <3>1. CASE phase = "start"
      BY <3>1 DEF RegionInv, Flat
    <3>2. CASE Joined("flatten")
      BY <3>2, NoneLeft DEF FlatSoFar
    <3> QED
      BY <2>1, <3>1, <3>2 DEF HookAll
  <2>3. \A x \in V : Flat(x)'
    BY <2>1, <2>2 DEF ForkedAs, Flat
  <2> QED
    BY <1>1, <2>1, <2>3 DEF QuietRound, ForkedAs
<1>4. ASSUME NEW t \in Threads, ThreadStep(t)
      PROVE  QuietRound'
  <2>1. /\ UNCHANGED <<input, phase, r, c>>
        /\ \A u : Links(u)' = Links(u)
    BY <1>4, OthersKeep, LinksStay
  <2> SUFFICES ASSUME phase = "hook", ~change' PROVE QuietRound'
    BY <2>1 DEF QuietRound
  <2>2. ~change
    BY <1>4 DEF ThreadStep, Take, RunsOut, Test, ReadU, ReadV, ReadP2, ReadHigh, Cas,
       Store, Up, Upper, ReadLow, Climb, Grand, Jump
  <2>3. input.algorithm = "sv" /\ comp' = comp
    <3>1. input.algorithm = "sv" /\ pc[t] # "store"
      BY <2>2 DEF RegionInv, QuietRound
    <3> QED
      BY <1>4, <3>1, CompChange DEF Store
  <2>4. /\ \A x \in V : Flat(x)
        /\ \A x \in V : Flat(x)'
    BY <2>2, <2>3 DEF QuietRound, Flat
  <2>5. ~ReadHigh(t)
    <3> SUFFICES ASSUME ReadHigh(t) PROVE FALSE
      OBVIOUS
    <3>1. p1[t] = comp[at[t]] /\ p2[t] = comp[Head(todo[t])] /\ todo[t] # <<>>
      BY <2>2 DEF ReadHigh, QuietRound, HandInv, HandSound, Linking
    <3>2. Head(todo[t]) \in V /\ at[t] \in V
      BY <3>1, InRow DEF TypeOK
    <3>3. comp[p1[t]] = p1[t] /\ comp[p2[t]] = p2[t]
      BY <2>4, <3>1, <3>2 DEF Flat
    <3>4. comp[high(t)] = high(t)
      BY <3>3, HighLow
    <3>5. change' = TRUE
      BY <2>3, <3>4 DEF ReadHigh
    <3> QED
      BY <3>5
  <2>6. \/ Take(t) \/ RunsOut(t) \/ ReadU(t) \/ ReadV(t)
    BY <1>4, <2>2, <2>3, <2>5
       DEF ThreadStep, RegionInv, QuietRound, Compressing, Test, Cas, Store, Up, Upper,
           ReadLow, Climb, Grand, Jump
  <2>7. ASSUME NEW s \in Threads
        PROVE  /\ pc'[s] # "store"
               /\ pc'[s] \in {"v", "high"} => p1'[s] = comp[at'[s]]
               /\ pc'[s] = "high" => p2'[s] = comp[Head(todo'[s])]
    <3>1. CASE s # t
      BY <1>4, <2>2, <3>1, OthersKeep DEF QuietRound
    <3>2. CASE s = t /\ (Take(t) \/ RunsOut(t))
      BY <3>2 DEF Take, RunsOut, TypeOK
    <3>3. CASE s = t /\ ReadU(t)
      BY <3>3 DEF ReadU, TypeOK
    <3>4. CASE s = t /\ ReadV(t)
      <4>1. p1[t] = comp[at[t]]
        BY <2>2, <3>4 DEF ReadV, QuietRound
      <4>2. /\ pc'[t] = "edge" \/ (pc'[t] = "high" /\ todo'[t] = todo[t])
            /\ p1'[t] = p1[t] /\ at'[t] = at[t] /\ p2'[t] = comp[Head(todo[t])]
        BY <3>4 DEF ReadV, ReadP2, NextEdge, TypeOK
      <4> QED
        BY <3>4, <4>1, <4>2
    <3> QED
      BY <2>6, <3>1, <3>2, <3>3, <3>4
  <2>8. ASSUME NEW u \in V \ work', NEW v \in ToSet(Links(u))
        PROVE  comp[u] = comp[v] \/ InHand(u, v)'
    <3>1. CASE u \notin V \ work
      BY <1>4, <3>1, WorkMoves
    <3>2. CASE u \in V \ work /\ ~InHand(u, v)
      BY <2>2, <3>2 DEF QuietRound
    <3>3. CASE InHand(u, v)
      <4>1. ASSUME NextEdge(t), pc[t] \in Linking, u = at[t], todo[t] # <<>>, v = Head(todo[t])
            PROVE  comp[u] = comp[v]
        <5>1. pc'[t] = "edge"
          BY <4>1 DEF NextEdge, TypeOK
        <5>2. todo'[t] # todo[t]
          <6>1. todo[t] \in Seq(V) /\ Len(Tail(todo[t])) # Len(todo[t])
            BY <4>1 DEF TypeOK
          <6> QED
            BY <4>1, <6>1 DEF NextEdge, TypeOK
        <5>3. ReadV(t)
          BY <2>6, <4>1, <5>2 DEF Take, RunsOut, ReadU, Linking
        <5>4. comp[v] = p1[t]
          BY <4>1, <5>1, <5>3 DEF ReadV, ReadP2, TypeOK
        <5>5. p1[t] = comp[at[t]]
          BY <2>2, <5>3 DEF ReadV, QuietRound
        <5> QED
          BY <4>1, <5>4, <5>5
      <4>2. phase # "link"
        OBVIOUS
      <4> QED
        BY <1>4, <3>3, <4>1, <4>2, HandMoves
    <3> QED
      BY <3>1, <3>2, <3>3
  <2> QED
    BY <1>1, <2>1, <2>3, <2>4, <2>7, <2>8 DEF QuietRound
<1> QED
  BY <1>2, <1>3, <1>4 DEF Next, Terminated

-----------------------------------------------------------------------------
(* Flat trees that hold both ends of every edge are the components, and    *)
(* their roots the least vertices.                                         *)
LEMMA LabelsExact ==
    ASSUME TypeOK, Sound,
           \A x \in V : Flat(x),
           \A e \in input.edges : SameTree(e[1], e[2]),
           NEW u \in V
    PROVE  comp[u] = Min(Component(u))
<1> DEFINE S == {x \in V : comp[x] = comp[u]}
<1>1. S \in TreeUnions
  BY DEF TreeUnions, Flat, TypeOK
<1>2. S \in Unions
  BY <1>1 DEF Unions, SameTree
<1>3. \A x \in Component(u) : comp[x] = comp[u] /\ x \in V
  BY <1>2 DEF Component
<1>4. comp[u] \in Component(u) /\ \A x \in Component(u) : comp[u] <= x
  BY <1>3 DEF Sound
<1>5. \A x \in Component(u) : x \in Int
  BY <1>3 DEF V
<1>6. \A m \in Component(u) : (\A y \in Component(u) : m <= y) => m = comp[u]
  BY <1>4, <1>5
<1> QED
  BY <1>4, <1>6 DEF Min

-----------------------------------------------------------------------------
(* Every behaviour, with any number of threads, of rounds and any graph,   *)
(* keeps the invariant.                                                    *)
THEOREM CompInvariant == Spec => []CompInv
<1>1. Init => CompInv
  BY TypeInit, RegionInit, SoundInit, HandInit, LinkInit, LinkedInit, FlatInit DEF CompInv
<1>2. CompInv /\ [Next]_vars => CompInv'
  <2> SUFFICES ASSUME CompInv, [Next]_vars PROVE CompInv'
    OBVIOUS
  <2>1. TypeOK' /\ RegionInv' /\ Sound'
    BY TypeStep, RegionStep, SoundStep DEF CompInv
  <2>2. HandInv' /\ JumpSound' /\ LinkInv'
    BY <2>1, HandStep, JumpStep, LinkStep DEF CompInv
  <2>3. LinkedSoFar' /\ SampledSoFar' /\ AllLinked'
    BY LinkedStep, SampledStep, AllLinkedStep DEF CompInv
  <2>4. FlatSoFar' /\ QuietRound'
    BY FlatStep, QuietStep DEF CompInv
  <2> QED
    BY <2>1, <2>2, <2>3, <2>4 DEF CompInv
<1> QED
  BY <1>1, <1>2, PTL DEF Spec

(* However hooks, climbs and jumps interleave, a parent is never above its *)
(* child and never in another component.                                   *)
THEOREM ForestIsSound == Spec => []ForestSound
<1>1. CompInv => ForestSound
  BY DEF CompInv, Sound, ForestSound
<1> QED
  BY <1>1, CompInvariant, PTL

(* Every region leaves what the next one needs, and the labels returned    *)
(* are the components, each named by its least vertex.                     *)
THEOREM RegionsAllDeliver == Spec => []RegionsDeliver
<1>1. CompInv => RegionsDeliver
  <2> SUFFICES ASSUME CompInv PROVE RegionsDeliver
    OBVIOUS
  <2> USE DEF CompInv
  <2>1. ASSUME Joined("sample"), NEW u \in V, NEW v \in ToSet(Links(u))
        PROVE  SameTree(u, v)
    BY <2>1, NoneLeft DEF LinkedSoFar
  <2>2. ASSUME Joined("link") \/ (Joined("hook") /\ ~change), NEW e \in input.edges
        PROVE  SameTree(e[1], e[2])
    BY <2>2, LastLinks, QuietLinks
  <2>3. ASSUME Joined("compress") \/ Joined("flatten"), NEW x \in V
        PROVE  comp[comp[x]] = comp[x]
    BY <2>3, NoneLeft DEF FlatSoFar, Flat
  <2>4. ASSUME phase = "done", NEW x \in V
        PROVE  comp[x] = Min(Component(x))
    BY <2>4, LabelsExact DEF FlatSoFar, AllLinked
  <2> QED
    BY <2>1, <2>2, <2>3, <2>4 DEF RegionsDeliver
<1> QED
  BY <1>1, CompInvariant, PTL

(* The step that joins two trees joins those of the two ends of an edge.   *)
LEMMA HookMergesTwo ==
    ASSUME CompInv, input.algorithm = "afforest",
           NEW t \in Threads, ThreadStep(t), Cas(t), comp[high(t)] = high(t)
    PROVE  Merges
<1> DEFINE x == at[t]
           y == Head(todo[t])
<1>1. TreeUnions' = {S \in TreeUnions : high(t) \in S <=> low(t) \in S}
  BY HookMergesTrees DEF CompInv
<1>2. TwoTrees(x, y, p1[t], p2[t]) /\ todo[t] # <<>> /\ ToSet(todo[t]) \subseteq ToSet(Links(x))
  BY DEF CompInv, LinkInv, HandInv, HandSound, Linking, Cas
<1>3. TwoTrees(x, y, high(t), low(t))
  BY <1>2, HighLow, TwoTreesMove DEF CompInv
<1>4. PICK e \in input.edges : TwoTrees(e[1], e[2], high(t), low(t))
  <2>1. y \in ToSet(Links(x)) /\ x \in V
    BY <1>2, InRow DEF CompInv, TypeOK
  <2>2. y \in V /\ Adjacent(x, y)
    BY <2>1, LinksFacts, RoundsAssumption DEF CompInv, TypeOK
  <2>3. CASE <<x, y>> \in input.edges
    BY <1>3, <2>3
  <2>4. CASE <<y, x>> \in input.edges
    BY <1>3, <2>4 DEF TwoTrees
  <2> QED
    BY <2>2, <2>3, <2>4 DEF Adjacent
<1> DEFINE OneEach(u, v, a, b) == \/ SameTree(u, a) /\ SameTree(v, b)
                                  \/ SameTree(u, b) /\ SameTree(v, a)
<1>5. ASSUME NEW u \in V, NEW v \in V
      PROVE  SameTree(u, v)' <=> SameTree(u, v) \/ OneEach(u, v, high(t), low(t))
  <2>1. ASSUME SameTree(u, v) \/ OneEach(u, v, high(t), low(t))
        PROVE  SameTree(u, v)'
    BY <1>1, <2>1 DEF SameTree
  <2>2. ASSUME ~SameTree(u, v), ~OneEach(u, v, high(t), low(t))
        PROVE  ~SameTree(u, v)'
    <3> DEFINE T(w) == {z \in V : SameTree(w, z)}
    <3>1. \A w \in V : T(w) \in TreeUnions /\ w \in T(w)
      BY SameTreeEquiv DEF TreeUnions, CompInv, TypeOK
    <3>2. high(t) \in V /\ low(t) \in V
      BY HighLow DEF CompInv
    <3>3. CASE high(t) \in T(u) <=> low(t) \in T(u)
      <4>1. T(u) \in TreeUnions' /\ u \in T(u) /\ v \notin T(u)
        BY <1>1, <2>2, <3>1, <3>3
      <4> QED
        BY <4>1 DEF SameTree
    <3>4. CASE high(t) \in T(u) /\ low(t) \notin T(u)
      <4>1. T(u) \cup T(low(t)) \in TreeUnions
        BY <3>1, <3>2 DEF TreeUnions
      <4>2. T(u) \cup T(low(t)) \in TreeUnions' /\ u \in T(u)
        BY <1>1, <3>1, <3>2, <3>4, <4>1
      <4>3. v \notin T(u) \cup T(low(t))
        BY <2>2, <3>4, SameTreeEquiv
      <4> QED
        BY <4>2, <4>3 DEF SameTree
    <3>5. CASE low(t) \in T(u) /\ high(t) \notin T(u)
      <4>1. T(u) \cup T(high(t)) \in TreeUnions
        BY <3>1, <3>2 DEF TreeUnions
      <4>2. T(u) \cup T(high(t)) \in TreeUnions' /\ u \in T(u)
        BY <1>1, <3>1, <3>2, <3>5, <4>1
      <4>3. v \notin T(u) \cup T(high(t))
        BY <2>2, <3>5, SameTreeEquiv
      <4> QED
        BY <4>2, <4>3 DEF SameTree
    <3> QED
      BY <3>3, <3>4, <3>5
  <2> QED
    BY <2>1, <2>2
<1>6. ASSUME NEW u \in V, NEW v \in V
      PROVE  OneEach(u, v, high(t), low(t)) <=> OneEach(u, v, e[1], e[2])
  BY <1>4, SameTreeEquiv DEF TwoTrees
<1>7. \A u, v \in V :
         SameTree(u, v)' <=> \/ SameTree(u, v)
                             \/ \E d \in {e} : OneEach(u, v, d[1], d[2])
  BY <1>5, <1>6
<1> QED
  BY <1>7 DEF Merges

(* A step of Afforest leaves the trees as they are, or joins the two that  *)
(* hold the ends of one edge.                                              *)
THEOREM AfforestOnlyMerges == Spec => OnlyMerges
<1>1. CompInv /\ [Next]_vars => [Merges]_comp
  <2> SUFFICES ASSUME CompInv, [Next]_vars, comp' # comp, input.algorithm = "afforest"
               PROVE  Merges
    BY DEF Merges
  <2>1. PICK t \in Threads : ThreadStep(t)
    BY DEF Next, Terminated, vars, MasterStep, Fork, Sample, CompressSample, LinkRest,
           CompressLast, HookAll, CompressHooked, Return
  <2>2. CASE Cas(t) /\ comp[high(t)] = high(t)
    BY <2>1, <2>2, HookMergesTwo
  <2>3. CASE Jump(t)
    <3>1. TreeUnions' = TreeUnions
      BY <2>1, <2>3, JumpKeepsTrees DEF CompInv
    <3>2. \A u, v \in V :
             SameTree(u, v)' <=>
                 \/ SameTree(u, v)
                 \/ \E e \in {} : \/ SameTree(u, e[1]) /\ SameTree(v, e[2])
                                  \/ SameTree(u, e[2]) /\ SameTree(v, e[1])
      BY <3>1 DEF SameTree
    <3>3. {} \in {{}} \cup {{e} : e \in input.edges}
      OBVIOUS
    <3> QED
      BY <3>2, <3>3 DEF Merges
  <2> QED
    BY <2>1, <2>2, <2>3, CompChange DEF CompInv
<1> QED
  BY <1>1, CompInvariant, PTL DEF Spec, OnlyMerges

=============================================================================
