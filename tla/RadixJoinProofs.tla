---------------------------- MODULE RadixJoinProofs ----------------------------
(***************************************************************************)
(* Proofs about RadixJoin, for any relations, number of threads, radix     *)
(* bits, paddings and sizes of what counts as large. The threads are       *)
(* always between the same two barriers (Together), and a slot of a task   *)
(* queue is given out once and is then in one place at a time (Held): so   *)
(* the first thread is alone when it works on the queues without locks,    *)
(* and each task has one holder.                                           *)
(*                                                                         *)
(* From that, the ranges of tasks that are alive at once are apart: the    *)
(* histograms count no more than a thread's share (Histograms), the first  *)
(* thread's sums of them divide a range into its clusters with the gaps    *)
(* between them (Outputs), and every task is made inside the region of     *)
(* the partition it is part of, behind those made before (RangesOK).       *)
(*                                                                         *)
(* And the threads that divide a range together put their tuples in        *)
(* different places: when they copy, each has counted its share as it is   *)
(* (CopyInv), so the starts they take from the counts are those of a table *)
(* of clusters by threads that grows by what each of them copies.          *)
(***************************************************************************)
EXTENDS RadixJoin, WellFoundedInduction, NaturalsInduction, FunctionTheorems, FiniteSetTheorems, TLAPS

-----------------------------------------------------------------------------
(* Least elements, induction and iteration over the naturals               *)

(* Every set of naturals has a least element.                              *)
LEMMA NatLeast ==
    ASSUME NEW T \in SUBSET Nat, T # {}
    PROVE  \E e \in T : \A y \in T : e <= y
<1> DEFINE R == {p \in Nat \X Nat : p[1] < p[2]}
<1>1. IsWellFoundedOn(R, Nat)
  BY NatLessThanWellFounded DEF OpToRel
<1>2. \A e, y \in Nat : <<y, e>> \in R <=> y < e
  OBVIOUS
<1> HIDE DEF R
<1>3. \E e \in T : \A y \in T : ~ (<<y, e>> \in R)
  BY <1>1, WFMin
<1>4. PICK e \in T : \A y \in T : ~ (<<y, e>> \in R)
  BY <1>3
<1>5. ASSUME NEW y \in T PROVE e <= y
  <2>1. y \in Nat /\ e \in Nat
    OBVIOUS
  <2>2. ~ (y < e)
    BY <1>2, <1>4, <2>1
  <2> QED
    BY <2>1, <2>2
<1> QED
  BY <1>5

(* Induction, of a set of naturals.                                        *)
LEMMA NatInd ==
    ASSUME NEW S, 0 \in S, \A n \in Nat : n \in S => n + 1 \in S
    PROVE  Nat \subseteq S
<1> SUFFICES ASSUME Nat \ S # {} PROVE FALSE
  OBVIOUS
<1>1. PICK e \in Nat \ S : \A y \in Nat \ S : e <= y
  BY NatLeast
<1>2. e - 1 \in Nat /\ e - 1 \in S
  BY <1>1
<1> QED
  BY <1>1, <1>2

(* Iterating a function over the naturals.                                 *)
LEMMA Iteration ==
    ASSUME NEW X, NEW b \in X, NEW F \in [X -> X]
    PROVE  \E W \in [Nat -> X] : W[0] = b /\ \A n \in Nat : W[n + 1] = F[W[n]]
<1> DEFINE P(f, n) == /\ f \in [0 .. n -> X] /\ f[0] = b
                      /\ \A k \in 0 .. n : k + 1 <= n => f[k + 1] = F[f[k]]
<1>1. \A n \in Nat : \E f : P(f, n)
  <2> DEFINE S == {n \in Nat : \E f : P(f, n)}
  <2>1. 0 \in S
    <3>1. P([k \in 0 .. 0 |-> b], 0)
      OBVIOUS
    <3> QED
      BY <3>1
  <2>2. ASSUME NEW n \in Nat, n \in S PROVE n + 1 \in S
    <3>1. PICK f : P(f, n)
      BY <2>2
    <3> DEFINE h == [k \in 0 .. n + 1 |-> IF k = n + 1 THEN F[f[n]] ELSE f[k]]
    <3>2. h \in [0 .. n + 1 -> X]
      BY <3>1
    <3>3. h[0] = b
      BY <3>1
    <3>4. ASSUME NEW k \in 0 .. n + 1, k + 1 <= n + 1 PROVE h[k + 1] = F[h[k]]
      <4>1. k \in 0 .. n /\ h[k] = f[k]
        BY <3>4
      <4>2. CASE k = n
        BY <4>1, <4>2
      <4>3. CASE k # n
        <5>1. k + 1 <= n /\ k + 1 \in 0 .. n + 1 /\ k + 1 # n + 1
          BY <4>1, <4>3
        <5>2. h[k + 1] = f[k + 1]
          BY <5>1
        <5> QED
          BY <3>1, <4>1, <5>1, <5>2
      <4> QED
        BY <4>2, <4>3
    <3> HIDE DEF h
    <3>5. P(h, n + 1)
      BY <3>2, <3>3, <3>4
    <3> QED
      BY <3>5
  <2> HIDE DEF S
  <2>3. Nat \subseteq S
    BY <2>1, <2>2, NatInd
  <2> QED
    BY <2>3 DEF S
<1>2. ASSUME NEW n \in Nat, NEW m \in Nat, NEW f, NEW h, P(f, n), P(h, m)
      PROVE  \A k \in Nat : k <= n /\ k <= m => f[k] = h[k]
  <2> DEFINE S == {k \in Nat : k <= n /\ k <= m => f[k] = h[k]}
  <2>1. 0 \in S
    BY <1>2
  <2>2. ASSUME NEW k \in Nat, k \in S PROVE k + 1 \in S
    <3>1. CASE k + 1 <= n /\ k + 1 <= m
      <4>1. f[k] = h[k] /\ k \in 0 .. n /\ k \in 0 .. m
        BY <2>2, <3>1
      <4> QED
        BY <1>2, <3>1, <4>1
    <3> QED
      BY <3>1
  <2> HIDE DEF S
  <2>3. Nat \subseteq S
    BY <2>1, <2>2, NatInd
  <2> QED
    BY <2>3 DEF S
<1> DEFINE G(n) == CHOOSE f : P(f, n)
           W == [n \in Nat |-> G(n)[n]]
<1>3. \A n \in Nat : P(G(n), n)
  BY <1>1
<1> HIDE DEF G
<1>4. W \in [Nat -> X]
  BY <1>3
<1>5. W[0] = b
  BY <1>3
<1>6. ASSUME NEW n \in Nat PROVE W[n + 1] = F[W[n]]
  <2>1. P(G(n), n) /\ P(G(n + 1), n + 1)
    BY <1>3
  <2>2. G(n + 1)[n] = G(n)[n]
    BY <1>2, <2>1
  <2>3. G(n + 1)[n + 1] = F[G(n + 1)[n]]
    BY <2>1
  <2> QED
    BY <2>2, <2>3
<1> QED
  BY <1>4, <1>5, <1>6

-----------------------------------------------------------------------------
Names == {"part", "join", "skew"}
SlotName == Names \X Nat \X Nat
TaskQueue == [list : Seq(SlotName), blocks : Nat, curr : Nat]

L(q) == queue[q].list
Distinct(q) == \A k, j \in DOMAIN q : q[k] = q[j] => k = j

(* The variables the tasks depend on.                                      *)
ControlOK ==
    /\ pc \in [Threads -> {"start", "barrier", "hist", "copy", "make", "made", "part", "cluster",
                           "offer", "add", "skew", "skewtask", "split", "move", "join", "chain",
                           "reorder", "probe", "end"}]
    /\ after \in [Threads -> {"hist", "copy", "make", "made", "part", "split", "skew", "skewtask",
                              "join", "end"}]
    /\ pass \in [Threads -> {1, 2}] /\ x \in [Threads -> {"R", "S"}]
    /\ queue \in [Names -> TaskQueue]
    /\ DOMAIN slots \subseteq SlotName /\ slots = [s \in DOMAIN slots |-> slots[s]]
    /\ task \in [Threads -> SlotName \cup {NoSlot}] /\ fresh \in [Threads -> SlotName \cup {NoSlot}]

To(t, there) == pc[t] = "barrier" /\ after[t] = there

(* Where a thread may be between two barriers, in pass p.                  *)
Stages == {"begin", "hist", "copyR", "copyS", "make", "part", "decide", "split", "join", "end"}

At(g, p, t) ==
    CASE g = "begin" -> pass[t] = p /\ p = 1 /\ x[t] = "R" /\ (pc[t] = "start" \/ To(t, "hist"))
      [] g = "hist"  -> pass[t] = p /\ x[t] = "R" /\ (pc[t] = "hist" \/ To(t, "copy"))
      [] g = "copyR" -> /\ pass[t] = p
                        /\ \/ x[t] = "R" /\ pc[t] = "copy"
                           \/ x[t] = "S" /\ (pc[t] = "hist" \/ To(t, "copy"))
      [] g = "copyS" -> /\ pass[t] = p /\ x[t] = "S"
                        /\ \/ pc[t] = "copy"
                           \/ To(t, IF t = 0 THEN (IF p = 1 THEN "make" ELSE "split")
                                    ELSE IF p = 1 THEN "made" ELSE "skew")
      [] g = "make"  -> pc[t] = "made" \/ To(t, "part") \/ (t = 0 /\ pc[t] = "make")
      [] g = "part"  -> pc[t] \in {"part", "cluster", "offer", "add", "skew"} \/ To(t, "skewtask")
      [] g = "split" -> pc[t] = "skew" \/ To(t, "skewtask") \/ (t = 0 /\ pc[t] = "split")
      [] g = "decide" -> \/ pc[t] = "skewtask"
                         \/ /\ skewtask = NoSlot
                            /\ To(t, "join") \/ (t = 0 /\ pc[t] = "move")
                         \/ skewtask # NoSlot /\ To(t, "hist") /\ pass[t] = 2 /\ x[t] = "R"
      [] g = "join"  -> pc[t] \in {"join", "chain", "reorder", "probe"} \/ To(t, "end")
      [] g = "end"   -> pc[t] = "end"

(* All threads are between the same two barriers.                          *)
Together == \E g \in Stages, p \in {1, 2} : \A t \in Threads : At(g, p, t)

(* Every slot given out is behind the end of its queue's blocks.           *)
Behind(s, qu) == s[2] < qu.blocks \/ (s[2] = qu.blocks /\ s[3] <= qu.curr)
GivenOut == \A s \in DOMAIN slots : Behind(s, queue[s[1]])

(* The slots in a thread's hands: of the task it works on, and of the join *)
(* task it is about to add.                                                *)
Working(t) == pc[t] \in {"cluster", "chain", "reorder", "probe", "offer", "add"}
Holds(t) == {s \in {task[t]} : Working(t)} \cup {s \in {fresh[t]} : pc[t] = "add"}

Held ==
    /\ \A q \in Names : Distinct(L(q)) /\ ToSet(L(q)) \subseteq DOMAIN slots
    /\ \A q, r \in Names : q # r => ToSet(L(q)) \cap ToSet(L(r)) = {}
    /\ \A t \in Threads : Holds(t) \subseteq DOMAIN slots
    /\ \A t \in Threads, q \in Names : Holds(t) \cap ToSet(L(q)) = {}
    /\ \A t, u \in Threads : t # u => Holds(t) \cap Holds(u) = {}
    /\ \A t \in Threads : pc[t] = "add" => task[t] # fresh[t]

TaskInv == ControlOK /\ Together /\ GivenOut /\ Held

-----------------------------------------------------------------------------
(* Sequences.                                                              *)

LEMMA FrontAdded ==
    ASSUME NEW S, NEW q \in Seq(S), NEW a \in S
    PROVE  /\ <<a>> \o q \in Seq(S)
           /\ ToSet(<<a>> \o q) = {a} \cup ToSet(q)
           /\ Distinct(q) /\ a \notin ToSet(q) => Distinct(<<a>> \o q)
<1> DEFINE b == <<a>> \o q
<1>1. /\ b \in Seq(S) /\ DOMAIN b = 1 .. Len(q) + 1 /\ DOMAIN q = 1 .. Len(q) /\ Len(q) \in Nat
      /\ b[1] = a /\ \A k \in 1 .. Len(q) : b[k + 1] = q[k]
  OBVIOUS
<1> HIDE DEF b
<1>2. \A k \in DOMAIN b : k = 1 \/ (k - 1 \in DOMAIN q /\ b[k] = q[k - 1])
  <2> SUFFICES ASSUME NEW k \in DOMAIN b, k # 1 PROVE k - 1 \in DOMAIN q /\ b[k] = q[k - 1]
    OBVIOUS
  <2>1. k - 1 \in 1 .. Len(q) /\ (k - 1) + 1 = k
    BY <1>1
  <2> QED
    BY <1>1, <2>1
<1>3. ToSet(b) = {a} \cup ToSet(q)
  <2>1. \A k \in DOMAIN b : b[k] \in {a} \cup ToSet(q)
    BY <1>1, <1>2 DEF ToSet
  <2>2. a \in ToSet(b)
    <3>1. 1 \in DOMAIN b
      BY <1>1
    <3> QED
      BY <1>1, <3>1 DEF ToSet
  <2>3. \A k \in DOMAIN q : q[k] \in ToSet(b)
    <3> SUFFICES ASSUME NEW k \in DOMAIN q PROVE q[k] \in ToSet(b)
      OBVIOUS
    <3>1. k + 1 \in DOMAIN b /\ b[k + 1] = q[k]
      BY <1>1
    <3> QED
      BY <3>1 DEF ToSet
  <2> QED
    BY <2>1, <2>2, <2>3 DEF ToSet
<1>4. ASSUME Distinct(q), a \notin ToSet(q) PROVE Distinct(b)
  <2> SUFFICES ASSUME NEW k \in DOMAIN b, NEW j \in DOMAIN b, b[k] = b[j] PROVE k = j
    BY DEF Distinct
  <2>1. CASE k # 1 /\ j # 1
    <3>1. k - 1 = j - 1
      BY <1>2, <1>4, <2>1 DEF Distinct
    <3>2. k \in Int /\ j \in Int
      BY <1>1
    <3> QED
      BY <3>1, <3>2
  <2>2. CASE k = 1 \/ j = 1
    BY <1>1, <1>2, <1>4, <2>2 DEF ToSet
  <2> QED
    BY <2>1, <2>2
<1> QED
  BY <1>1, <1>3, <1>4 DEF b

LEMMA HeadTaken ==
    ASSUME NEW S, NEW q \in Seq(S), q # <<>>
    PROVE  /\ Tail(q) \in Seq(S) /\ Head(q) \in S
           /\ ToSet(q) = {Head(q)} \cup ToSet(Tail(q))
           /\ Distinct(q) => Distinct(Tail(q)) /\ Head(q) \notin ToSet(Tail(q))
<1> DEFINE r == Tail(q)
<1>1. /\ r \in Seq(S) /\ Head(q) = q[1] /\ 1 \in DOMAIN q /\ q[1] \in S
      /\ DOMAIN r = 1 .. Len(q) - 1 /\ DOMAIN q = 1 .. Len(q) /\ Len(q) \in Nat \ {0}
      /\ \A k \in 1 .. Len(q) - 1 : r[k] = q[k + 1]
  OBVIOUS
<1> HIDE DEF r
<1>2. \A k \in DOMAIN r : k + 1 \in DOMAIN q /\ k + 1 # 1 /\ r[k] = q[k + 1]
  BY <1>1
<1>3. \A k \in DOMAIN q : k = 1 \/ (k - 1 \in DOMAIN r /\ q[k] = r[k - 1])
  <2> SUFFICES ASSUME NEW k \in DOMAIN q, k # 1 PROVE k - 1 \in DOMAIN r /\ q[k] = r[k - 1]
    OBVIOUS
  <2>1. k - 1 \in 1 .. Len(q) - 1 /\ (k - 1) + 1 = k
    BY <1>1
  <2> QED
    BY <1>1, <2>1
<1>4. ToSet(q) = {Head(q)} \cup ToSet(r)
  BY <1>1, <1>2, <1>3 DEF ToSet
<1>5. ASSUME Distinct(q) PROVE Distinct(r) /\ Head(q) \notin ToSet(r)
  <2>1. Head(q) \notin ToSet(r)
    BY <1>1, <1>2, <1>5 DEF Distinct, ToSet
  <2>2. ASSUME NEW k \in DOMAIN r, NEW j \in DOMAIN r, r[k] = r[j] PROVE k = j
    <3>1. k + 1 = j + 1
      BY <1>2, <1>5, <2>2 DEF Distinct
    <3> QED
      BY <3>1, <1>1
  <2> QED
    BY <2>1, <2>2 DEF Distinct
<1> QED
  BY <1>1, <1>4, <1>5 DEF r

-----------------------------------------------------------------------------
(* What each step does to where threads are.                               *)

LEMMA ZeroIsThread == 0 \in Threads
BY SizesAssumption DEF Threads

(* A thread between two barriers stays there until it is at the second.    *)
LEMMA OthersStay ==
    ASSUME ControlOK, NEW t \in Threads, NEW g \in Stages, NEW p,
           \A u \in Threads : At(g, p, u), At(g, p, t)',
           \A u \in Threads \ {t} : /\ pc'[u] = pc[u] /\ after'[u] = after[u]
                                    /\ pass'[u] = pass[u] /\ x'[u] = x[u],
           skewtask' = skewtask \/ g # "decide"
    PROVE  \A u \in Threads : At(g, p, u)'
<1> SUFFICES ASSUME NEW u \in Threads, u # t PROVE At(g, p, u)'
  OBVIOUS
<1>1. At(g, p, u) /\ u \in Threads \ {t}
  OBVIOUS
<1>2. pc'[u] = pc[u] /\ after'[u] = after[u] /\ pass'[u] = pass[u] /\ x'[u] = x[u]
  BY <1>1
<1>3. \A there : To(u, there)' <=> To(u, there)
  BY <1>2 DEF To
<1>4. CASE skewtask' = skewtask
  BY <1>1, <1>2, <1>3, <1>4 DEF At
<1>5. CASE g # "decide"
  BY <1>1, <1>2, <1>3, <1>5 DEF At, Stages
<1> QED
  BY <1>4, <1>5

LEMMA StepStays ==
    ASSUME ControlOK, NEW t \in Threads, NEW g \in Stages, NEW p \in {1, 2},
           \A u \in Threads : At(g, p, u), prj_thread(t)
    PROVE  \A u \in Threads : At(g, p, u)'
<1>0. At(g, p, t)
  OBVIOUS
<1>1. CASE Start(t)
  <2>1. At(g, p, t)'
    BY <1>0, <1>1 DEF Start, At, To, Arrive, ControlOK, Stages, partition, queues
  <2> QED
    BY <1>1, <2>1, OthersStay DEF Start, Arrive, ControlOK, partition, queues
<1>2. CASE Histogram(t)
  <2>1. At(g, p, t)'
    BY <1>0, <1>2 DEF Histogram, At, To, Arrive, ControlOK, Stages, queues
  <2> QED
    BY <1>2, <2>1, OthersStay DEF Histogram, Arrive, ControlOK, queues
<1>3. CASE Copy(t)
  <2>0. /\ pc[t] = "copy" /\ ((g = "copyR" /\ x[t] = "R") \/ (g = "copyS" /\ x[t] = "S"))
        /\ pass[t] = p /\ pass' = pass
    <3>1. pc[t] = "copy" /\ pass' = pass
      BY <1>3 DEF Copy
    <3>2. g \in {"copyR", "copyS"}
      BY <1>0, <3>1 DEF At, To, Stages
    <3>3. g = "copyR" => pass[t] = p /\ x[t] = "R"
      BY <1>0, <3>1 DEF At, To
    <3>4. g = "copyS" => pass[t] = p /\ x[t] = "S"
      BY <1>0, <3>1 DEF At, To
    <3> QED
      BY <3>1, <3>2, <3>3, <3>4
  <2>1. At(g, p, t)'
    <3>1. CASE x[t] = "R"
      <4>1. x'[t] = "S" /\ pc'[t] = "hist" /\ after' = after
        BY <1>3, <3>1 DEF Copy, Goto, ControlOK
      <4> QED
        BY <2>0, <3>1, <4>1 DEF At
    <3>2. CASE x[t] = "S"
      <4>1. /\ x' = x /\ pc'[t] = "barrier"
            /\ after'[t] = IF t = 0 THEN (IF pass[t] = 1 THEN "make" ELSE "split")
                           ELSE IF pass[t] = 1 THEN "made" ELSE "skew"
        BY <1>3, <3>2 DEF Copy, Arrive, ControlOK
      <4> QED
        BY <2>0, <3>2, <4>1 DEF At, To
    <3> QED
      BY <2>0, <3>1, <3>2
  <2> QED
    BY <1>3, <2>1, OthersStay DEF Copy, Arrive, Goto, ControlOK, queues
<1>4. CASE MakeTask(t)
  <2>1. At(g, p, t)'
    BY <1>0, <1>4 DEF MakeTask, At, To, Goto, ControlOK, Stages, partition
  <2> QED
    BY <1>4, <2>1, OthersStay DEF MakeTask, Goto, ControlOK, partition
<1>5. CASE Made(t)
  <2>1. At(g, p, t)'
    BY <1>0, <1>5 DEF Made, At, To, Arrive, ControlOK, Stages, partition, queues
  <2> QED
    BY <1>5, <2>1, OthersStay DEF Made, Arrive, ControlOK, partition, queues
<1>6. CASE TakePart(t)
  <2>1. At(g, p, t)'
    BY <1>0, <1>6 DEF TakePart, At, To, Goto, ControlOK, Stages, partition
  <2> QED
    BY <1>6, <2>1, OthersStay DEF TakePart, Goto, ControlOK, partition
<1>7. CASE radix_cluster(t)
  <2>1. At(g, p, t)'
    BY <1>0, <1>7 DEF radix_cluster, At, To, Goto, ControlOK, Stages, queues
  <2> QED
    BY <1>7, <2>1, OthersStay DEF radix_cluster, Goto, ControlOK, queues
<1>8. CASE Offer(t)
  <2>1. At(g, p, t)'
    BY <1>0, <1>8 DEF Offer, At, To, Goto, ControlOK, Stages, partition
  <2> QED
    BY <1>8, <2>1, OthersStay DEF Offer, Goto, ControlOK, partition
<1>9. CASE task_queue_add_atomic(t)
  <2>1. At(g, p, t)'
    BY <1>0, <1>9 DEF task_queue_add_atomic, At, To, Goto, ControlOK, Stages, partition
  <2> QED
    BY <1>9, <2>1, OthersStay DEF task_queue_add_atomic, Goto, ControlOK, partition
<1>10. CASE TakeSkew(t)
  <2>1. At(g, p, t)' /\ g # "decide"
    BY <1>0, <1>10 DEF TakeSkew, At, To, Arrive, ControlOK, Stages, partition
  <2> QED
    BY <1>10, <2>1, OthersStay DEF TakeSkew, Arrive, ControlOK, partition
<1>11. CASE SkewTask(t)
  <2>0. g = "decide" /\ skewtask' = skewtask
    BY <1>0, <1>11 DEF SkewTask, At, To, Stages, queues
  <2>1. At(g, p, t)'
    <3>1. CASE skewtask = NoSlot
      BY <1>11, <2>0, <3>1 DEF SkewTask, At, To, Arrive, Goto, ControlOK
    <3>2. CASE skewtask # NoSlot
      <4>1. pc'[t] = "barrier" /\ after'[t] = "hist" /\ pass'[t] = 2 /\ x'[t] = "R"
        BY <1>11, <3>2 DEF SkewTask, Arrive, ControlOK
      <4> QED
        BY <2>0, <3>2, <4>1 DEF At, To
    <3> QED
      BY <3>1, <3>2
  <2> QED
    BY <1>11, <2>1, OthersStay DEF SkewTask, Arrive, Goto, ControlOK, queues, partition
<1>12. CASE Split(t)
  <2>1. At(g, p, t)'
    BY <1>0, <1>12 DEF Split, At, To, Goto, ControlOK, Stages, partition
  <2> QED
    BY <1>12, <2>1, OthersStay DEF Split, Goto, ControlOK, partition
<1>13. CASE Move(t)
  <2>1. At(g, p, t)'
    BY <1>0, <1>13 DEF Move, At, To, Arrive, ControlOK, Stages, partition
  <2> QED
    BY <1>13, <2>1, OthersStay DEF Move, Arrive, ControlOK, partition
<1>14. CASE TakeJoin(t)
  <2>1. At(g, p, t)'
    BY <1>0, <1>14 DEF TakeJoin, At, To, Arrive, Goto, ControlOK, Stages, partition
  <2> QED
    BY <1>14, <2>1, OthersStay DEF TakeJoin, Arrive, Goto, ControlOK, partition
<1>15. CASE ChainJoin(t)
  <2>1. At(g, p, t)'
    BY <1>0, <1>15 DEF ChainJoin, At, To, Goto, ControlOK, Stages, partition, queues
  <2> QED
    BY <1>15, <2>1, OthersStay DEF ChainJoin, Goto, ControlOK, partition, queues
<1>16. CASE Reorder(t)
  <2>1. At(g, p, t)'
    BY <1>0, <1>16 DEF Reorder, At, To, Goto, ControlOK, Stages, partition, queues
  <2> QED
    BY <1>16, <2>1, OthersStay DEF Reorder, Goto, ControlOK, partition, queues
<1>17. CASE Probe(t)
  <2>1. At(g, p, t)'
    BY <1>0, <1>17 DEF Probe, At, To, Goto, ControlOK, Stages, partition, queues
  <2> QED
    BY <1>17, <2>1, OthersStay DEF Probe, Goto, ControlOK, partition, queues
<1> QED
  BY <1>1, <1>2, <1>3, <1>4, <1>5, <1>6, <1>7, <1>8, <1>9, <1>10, <1>11, <1>12, <1>13,
     <1>14, <1>15, <1>16, <1>17 DEF prj_thread

(* At a barrier all threads have come to the same one, and go on together. *)
LEMMA BarrierStage ==
    ASSUME ControlOK, Together, Barrier PROVE Together'
<1>1. PICK g \in Stages, p \in {1, 2} : \A t \in Threads : At(g, p, t)
  BY DEF Together
<1>2. /\ \A t \in Threads : pc[t] = "barrier" /\ pc'[t] = after[t]
      /\ UNCHANGED <<after, pass, x, skewtask>>
  BY DEF Barrier, ControlOK, partition, queues
<1> DEFINE Go(h, r) == \A t \in Threads : At(h, r, t)'
<1>3. \A h \in Stages, r \in {1, 2} : Go(h, r) => Together'
  BY DEF Together
<1>4. \A t \in Threads : pc[t] = "barrier"
  BY <1>2
<1>5. CASE g = "begin"
  <2>1. Go("hist", 1)
    BY <1>1, <1>2, <1>5 DEF At, To
  <2> QED
    BY <1>3, <2>1 DEF Stages
<1>6. CASE g = "hist"
  <2>1. Go("copyR", p)
    BY <1>1, <1>2, <1>6 DEF At, To
  <2> QED
    BY <1>3, <2>1 DEF Stages
<1>7. CASE g = "copyR"
  <2>1. Go("copyS", p)
    BY <1>1, <1>2, <1>7 DEF At, To
  <2> QED
    BY <1>3, <2>1 DEF Stages
<1>8. CASE g = "copyS"
  <2>1. p = 1 => Go("make", 1)
    BY <1>1, <1>2, <1>8 DEF At, To
  <2>2. p = 2 => Go("split", 1)
    BY <1>1, <1>2, <1>8 DEF At, To
  <2> QED
    BY <1>3, <2>1, <2>2 DEF Stages
<1>9. CASE g = "make"
  <2>1. Go("part", 1)
    BY <1>1, <1>2, <1>9 DEF At, To
  <2> QED
    BY <1>3, <2>1 DEF Stages
<1>10. CASE g \in {"part", "split"}
  <2>1. Go("decide", 1)
    BY <1>1, <1>2, <1>10 DEF At, To
  <2> QED
    BY <1>3, <2>1 DEF Stages
<1>11. CASE g = "decide"
  <2>1. skewtask = NoSlot => Go("join", 1)
    BY <1>1, <1>2, <1>11 DEF At, To
  <2>2. skewtask # NoSlot => Go("hist", 2)
    BY <1>1, <1>2, <1>11 DEF At, To
  <2> QED
    BY <1>3, <2>1, <2>2 DEF Stages
<1>12. CASE g = "join"
  <2>1. Go("end", 1)
    BY <1>1, <1>2, <1>12 DEF At, To
  <2> QED
    BY <1>3, <2>1 DEF Stages
<1>13. g # "end"
  BY <1>1, <1>4, ZeroIsThread DEF At
<1> QED
  BY <1>5, <1>6, <1>7, <1>8, <1>9, <1>10, <1>11, <1>12, <1>13 DEF Stages

-----------------------------------------------------------------------------
(* Slots.                                                                  *)

(* A queue that has grown from queue q, and the slots given out then.      *)
Grown(q, qu, D) ==
    /\ qu \in TaskQueue /\ DOMAIN slots \subseteq D /\ D \subseteq SlotName
    /\ \A s \in D : s[1] = q => Behind(s, qu)
    /\ \A s \in D \ DOMAIN slots : s[1] = q
    /\ Distinct(qu.list) /\ ToSet(qu.list) \subseteq D
    /\ ToSet(qu.list) \cap DOMAIN slots = ToSet(L(q))

LEMMA NewSlot ==
    ASSUME NEW q \in Names, NEW qu \in TaskQueue, NEW D \in SUBSET SlotName,
           \A s \in D : s[1] = q => Behind(s, qu)
    PROVE  LET g == get_slot(qu, q)
           IN  /\ g.slot \in SlotName \ D /\ g.slot[1] = q
               /\ g.queue \in TaskQueue /\ g.queue.list = qu.list
               /\ \A s \in D \cup {g.slot} : s[1] = q => Behind(s, g.queue)
<1> DEFINE g == get_slot(qu, q)
           room == qu.curr < alloc_size(q)
           b == IF room THEN qu.blocks ELSE qu.blocks + 1
           c == IF room THEN qu.curr + 1 ELSE 1
<1>1. g = [slot |-> <<q, b, c>>, queue |-> [list |-> qu.list, blocks |-> b, curr |-> c]]
  BY DEF get_slot
<1>2. qu.blocks \in Nat /\ qu.curr \in Nat /\ qu.list \in Seq(SlotName)
  BY DEF TaskQueue
<1> HIDE DEF room
<1>3. b \in Nat /\ c \in Nat /\ ((b = qu.blocks /\ c = qu.curr + 1) \/ (b = qu.blocks + 1 /\ c = 1))
  <2>1. CASE room
    BY <1>2, <2>1
  <2>2. CASE ~ room
    BY <1>2, <2>2
  <2> QED
    BY <2>1, <2>2
<1> HIDE DEF b, c, g
<1>4. /\ g.slot = <<q, b, c>> /\ g.queue.list = qu.list /\ g.queue.blocks = b
      /\ g.queue.curr = c /\ g.queue \in TaskQueue
  BY <1>1, <1>2, <1>3 DEF TaskQueue
<1>5. g.slot \in SlotName /\ g.slot[1] = q /\ g.slot[2] = b /\ g.slot[3] = c
  BY <1>3, <1>4 DEF SlotName
<1>6. ~ Behind(g.slot, qu) /\ Behind(g.slot, g.queue)
  BY <1>2, <1>3, <1>4, <1>5 DEF Behind
<1>7. ASSUME NEW s \in D, s[1] = q PROVE Behind(s, g.queue)
  <2>1. s[2] \in Nat /\ s[3] \in Nat /\ Behind(s, qu)
    BY <1>7 DEF SlotName
  <2> QED
    BY <2>1, <1>2, <1>3, <1>4 DEF Behind
<1> QED
  BY <1>4, <1>5, <1>6, <1>7 DEF g

(* Adding a new slot to a queue.                                           *)
LEMMA GrowsOne ==
    ASSUME NEW q \in Names, NEW qu, NEW D, Grown(q, qu, D)
    PROVE  LET g == get_slot(qu, q)
           IN  Grown(q, add(g.queue, g.slot), D \cup {g.slot})
<1> DEFINE g == get_slot(qu, q)
           r == add(g.queue, g.slot)
<1>1. qu \in TaskQueue /\ D \in SUBSET SlotName /\ \A s \in D : s[1] = q => Behind(s, qu)
  BY DEF Grown
<1>2. /\ g.slot \in SlotName \ D /\ g.slot[1] = q
      /\ g.queue \in TaskQueue /\ g.queue.list = qu.list
      /\ \A s \in D \cup {g.slot} : s[1] = q => Behind(s, g.queue)
  BY <1>1, NewSlot
<1> HIDE DEF g
<1>3. qu.list \in Seq(SlotName)
  BY <1>1 DEF TaskQueue
<1>4. r = [g.queue EXCEPT !.list = <<g.slot>> \o qu.list]
  BY <1>2 DEF add
<1>5. /\ <<g.slot>> \o qu.list \in Seq(SlotName)
      /\ ToSet(<<g.slot>> \o qu.list) = {g.slot} \cup ToSet(qu.list)
      /\ Distinct(qu.list) /\ g.slot \notin ToSet(qu.list) => Distinct(<<g.slot>> \o qu.list)
  BY <1>2, <1>3, FrontAdded
<1> DEFINE l == <<g.slot>> \o qu.list
<1> HIDE DEF l
<1>6. /\ r \in TaskQueue /\ r.list = l /\ r.blocks = g.queue.blocks
      /\ r.curr = g.queue.curr
  BY <1>2, <1>4, <1>5 DEF TaskQueue, l
<1> HIDE DEF r
<1>7. \A s : Behind(s, g.queue) <=> Behind(s, r)
  BY <1>6 DEF Behind
<1>8. Distinct(l) /\ ToSet(l) = {g.slot} \cup ToSet(qu.list)
  BY <1>2, <1>5 DEF Grown, l
<1>9. Grown(q, r, D \cup {g.slot})
  BY <1>1, <1>2, <1>6, <1>7, <1>8 DEF Grown
<1> QED
  BY <1>9 DEF r, g

LEMMA NotGrown ==
    ASSUME ControlOK, GivenOut, Held, NEW q \in Names
    PROVE  Grown(q, queue[q], DOMAIN slots)
<1>1. queue[q] \in TaskQueue /\ DOMAIN slots \subseteq SlotName
  BY DEF ControlOK
<1> QED
  BY <1>1 DEF Grown, GivenOut, Held, L

(* The first thread's growing of a queue keeps what holds of tasks.        *)
LEMMA GrowKeeps ==
    ASSUME ControlOK, GivenOut, Held, NEW q \in Names, NEW qu,
           Grown(q, qu, DOMAIN slots'), queue' = [queue EXCEPT ![q] = qu],
           \A t \in Threads : Holds(t)' = Holds(t) /\ ~ (pc'[t] = "add")
    PROVE  GivenOut' /\ Held'
<1>1. /\ queue'[q] = qu /\ qu.list = L(q)'
      /\ \A r \in Names \ {q} : queue'[r] = queue[r] /\ L(r)' = L(r)
  BY DEF ControlOK, L
<1>2. \A s \in DOMAIN slots' : s[1] \in Names
  BY DEF Grown, SlotName
<1>3. GivenOut'
  <2> SUFFICES ASSUME NEW s \in DOMAIN slots' PROVE Behind(s, queue'[s[1]])
    BY DEF GivenOut, Behind
  <2>1. CASE s[1] = q
    BY <1>1, <2>1 DEF Grown
  <2>2. CASE s[1] # q
    <3>1. s \in DOMAIN slots /\ queue'[s[1]] = queue[s[1]]
      BY <1>1, <1>2, <2>2 DEF Grown
    <3> QED
      BY <3>1 DEF GivenOut
  <2> QED
    BY <2>1, <2>2
<1>4. /\ DOMAIN slots \subseteq DOMAIN slots' /\ Distinct(L(q)') /\ ToSet(L(q)') \subseteq DOMAIN slots'
      /\ ToSet(L(q)') \cap DOMAIN slots = ToSet(L(q))
  BY <1>1 DEF Grown
<1>5. \A r \in Names : Distinct(L(r)') /\ ToSet(L(r)') \subseteq DOMAIN slots'
  BY <1>1, <1>4 DEF Held
<1>6. ASSUME NEW r \in Names, NEW m \in Names, r # m
      PROVE  ToSet(L(r)') \cap ToSet(L(m)') = {}
  <2>1. \A n \in Names \ {q} : ToSet(L(n)') = ToSet(L(n)) /\ ToSet(L(n)) \subseteq DOMAIN slots
                               /\ ToSet(L(n)) \cap ToSet(L(q)) = {}
    BY <1>1 DEF Held
  <2> QED
    BY <1>4, <1>6, <2>1 DEF Held
<1>7. ASSUME NEW t \in Threads, NEW r \in Names PROVE Holds(t)' \cap ToSet(L(r)') = {}
  <2>1. Holds(t) \subseteq DOMAIN slots /\ Holds(t) \cap ToSet(L(r)) = {}
    BY DEF Held
  <2> QED
    BY <1>1, <1>4, <2>1
<1> QED
  BY <1>3, <1>4, <1>5, <1>6, <1>7 DEF Held

-----------------------------------------------------------------------------
(* The pieces of a split join: After is the function its equation defines. *)

PieceAdded(st, k, R, S) ==
    LET g == get_slot(st.queue, "part")
    IN  [queue |-> add(g.queue, g.slot),
         slots |-> [s \in DOMAIN st.slots \cup {g.slot} |->
                      IF s = g.slot THEN Piece(k - 1, R, S) ELSE st.slots[s]]]

LEMMA PiecesDef ==
    ASSUME ControlOK, NEW R, NEW S
    PROVE  /\ WithPieces(R, S)[0] = [queue |-> queue["part"], slots |-> slots]
           /\ \A k \in 1 .. nthreads :
                WithPieces(R, S)[k] = PieceAdded(WithPieces(R, S)[k - 1], k, R, S)
<1> DEFINE TK == {slots[s] : s \in DOMAIN slots} \cup {Piece(k, R, S) : k \in Nat}
           Maps == UNION {[D -> TK] : D \in SUBSET SlotName}
           St == [queue : TaskQueue, slots : Maps]
           X == Nat \X St
           b == [queue |-> queue["part"], slots |-> slots]
           P(st, k) == PieceAdded(st, k, R, S)
           F == [z \in X |-> <<z[1] + 1, P(z[2], z[1] + 1)>>]
           D == 0 .. nthreads
           Eq(A) == A = [k \in D |-> IF k = 0 THEN b
                          ELSE LET g == get_slot(A[k - 1].queue, "part")
                               IN  [queue |-> add(g.queue, g.slot),
                                    slots |-> [s \in DOMAIN A[k - 1].slots \cup {g.slot} |->
                                       IF s = g.slot THEN Piece(k - 1, R, S) ELSE A[k - 1].slots[s]]]]
<1>1. b \in St
  <2>1. slots \in [DOMAIN slots -> TK]
    BY DEF ControlOK
  <2>2. slots \in Maps
    BY <2>1 DEF ControlOK
  <2> HIDE DEF Maps
  <2> QED
    BY <2>2 DEF ControlOK, Names
<1>2. ASSUME NEW st \in St, NEW k \in Nat PROVE P(st, k + 1) \in St
  <2> DEFINE g == get_slot(st.queue, "part")
             f == [s \in DOMAIN st.slots \cup {g.slot} |->
                      IF s = g.slot THEN Piece((k + 1) - 1, R, S) ELSE st.slots[s]]
  <2>1. st.queue \in TaskQueue /\ st.slots \in Maps
    BY DEF St
  <2>2. g.slot \in SlotName /\ g.queue \in TaskQueue
    <3> DEFINE N == {}
               q == "part"
               qu == st.queue
    <3>1. N \in SUBSET SlotName /\ \A s \in N : s[1] = q => Behind(s, qu)
      OBVIOUS
    <3>2. q \in Names /\ qu \in TaskQueue
      BY <2>1 DEF Names
    <3>3. g = get_slot(qu, q)
      OBVIOUS
    <3> HIDE DEF N, q, qu, g
    <3> QED
      BY <3>1, <3>2, <3>3, NewSlot
  <2> HIDE DEF g
  <2>3. add(g.queue, g.slot) \in TaskQueue
    <3>1. g.queue.list \in Seq(SlotName)
      BY <2>2 DEF TaskQueue
    <3>2. <<g.slot>> \o g.queue.list \in Seq(SlotName)
      BY <2>2, <3>1, FrontAdded
    <3> QED
      BY <2>2, <3>2 DEF TaskQueue, add
  <2>4. PICK E \in SUBSET SlotName : st.slots \in [E -> TK]
    BY <2>1
  <2>5. (k + 1) - 1 = k
    OBVIOUS
  <2>6. Piece((k + 1) - 1, R, S) \in TK
    BY <2>5
  <2> HIDE DEF TK
  <2>7. f \in [E \cup {g.slot} -> TK] /\ E \cup {g.slot} \in SUBSET SlotName
    BY <2>2, <2>4, <2>6
  <2> HIDE DEF f
  <2>8. f \in Maps
    BY <2>7
  <2> HIDE DEF Maps
  <2>9. P(st, k + 1) = [queue |-> add(g.queue, g.slot), slots |-> f]
    BY DEF PieceAdded, g, f
  <2> QED
    BY <2>3, <2>8, <2>9
<1> HIDE DEF St, b, P
<1>3. F \in [X -> X] /\ <<0, b>> \in X
  BY <1>1, <1>2
<1>4. \A k \in Nat, st \in St : F[<<k, st>>] = <<k + 1, P(st, k + 1)>>
  OBVIOUS
<1> HIDE DEF F
<1>5. PICK W \in [Nat -> X] : W[0] = <<0, b>> /\ \A k \in Nat : W[k + 1] = F[W[k]]
  <2> DEFINE first == <<0, b>>
  <2>1. first \in X /\ F \in [X -> X]
    BY <1>3
  <2> HIDE DEF X, first
  <2>2. \E W \in [Nat -> X] : W[0] = first /\ \A k \in Nat : W[k + 1] = F[W[k]]
    BY <2>1, Iteration, Z3
  <2> QED
    BY <2>2 DEF first
<1>6. \A k \in Nat : W[k][1] = k
  <2> DEFINE T == {k \in Nat : W[k][1] = k}
  <2>1. 0 \in T
    BY <1>5
  <2>2. ASSUME NEW k \in Nat, k \in T PROVE k + 1 \in T
    <3>1. W[k] \in X /\ W[k] = <<k, W[k][2]>> /\ W[k][2] \in St
      BY <1>5, <2>2
    <3>2. W[k + 1] = <<k + 1, P(W[k][2], k + 1)>>
      BY <1>4, <1>5, <3>1
    <3> QED
      BY <3>2
  <2> HIDE DEF T
  <2>3. Nat \subseteq T
    BY <2>1, <2>2, NatInd
  <2> QED
    BY <2>3 DEF T
<1>7. ASSUME NEW k \in Nat PROVE W[k + 1][2] = P(W[k][2], k + 1)
  <2>1. W[k] = <<k, W[k][2]>> /\ W[k][2] \in St
    BY <1>5, <1>6
  <2>2. W[k + 1] = <<k + 1, P(W[k][2], k + 1)>>
    BY <1>4, <1>5, <2>1
  <2> QED
    BY <2>2
<1> DEFINE A == [k \in D |-> W[k][2]]
<1>8. \A k \in D : A[k] = IF k = 0 THEN b ELSE P(A[k - 1], k)
  <2> SUFFICES ASSUME NEW k \in D PROVE A[k] = IF k = 0 THEN b ELSE P(A[k - 1], k)
    OBVIOUS
  <2>1. CASE k = 0
    BY <1>5, <2>1
  <2>2. CASE k # 0
    <3>1. k - 1 \in D /\ k - 1 \in Nat /\ (k - 1) + 1 = k
      BY <2>2, SizesAssumption
    <3> QED
      BY <1>7, <2>2, <3>1
  <2> QED
    BY <2>1, <2>2
<1> HIDE DEF D
<1>9. A = [k \in D |-> IF k = 0 THEN b ELSE P(A[k - 1], k)]
  <2>1. A = [k \in D |-> A[k]]
    OBVIOUS
  <2> HIDE DEF A
  <2> QED
    BY <1>8, <2>1
<1> HIDE DEF A
<1>10. Eq(A)
  BY <1>9 DEF P, PieceAdded
<1> DEFINE K == CHOOSE Q : Eq(Q)
<1>11. WithPieces(R, S) = K
  BY DEF WithPieces, b, D
<1>12. Eq(K)
  BY <1>10
<1> HIDE DEF K
<1>13. \A k \in D : K[k] = IF k = 0 THEN b ELSE P(K[k - 1], k)
  BY <1>12 DEF P, PieceAdded
<1>14. 0 \in D /\ \A k \in 1 .. nthreads : k \in D /\ k # 0
  BY SizesAssumption DEF D
<1> QED
  BY <1>11, <1>13, <1>14 DEF b, P

LEMMA PiecesGrow ==
    ASSUME ControlOK, GivenOut, Held, NEW R, NEW S, AddPieces(R, S)
    PROVE  \E qu : /\ Grown("part", qu, DOMAIN slots') /\ queue' = [queue EXCEPT !["part"] = qu]
                   /\ slots' = [s \in DOMAIN slots' |-> slots'[s]]
<1> DEFINE A == WithPieces(R, S)
           G(k) == Grown("part", A[k].queue, DOMAIN A[k].slots)
           T == {k \in Nat : k <= nthreads => G(k)}
<1>1. "part" \in Names
  BY DEF Names
<1>2. 0 \in T
  <2>1. A[0].queue = queue["part"] /\ A[0].slots = slots
    BY PiecesDef
  <2> HIDE DEF A
  <2> QED
    BY <1>1, <2>1, NotGrown
<1>3. ASSUME NEW k \in Nat, k \in T PROVE k + 1 \in T
  <2> SUFFICES ASSUME k + 1 <= nthreads PROVE G(k + 1)
    OBVIOUS
  <2>1. k + 1 \in 1 .. nthreads /\ (k + 1) - 1 = k /\ k <= nthreads
    BY SizesAssumption
  <2>2. A[k + 1] = PieceAdded(A[k], k + 1, R, S)
    BY <2>1, PiecesDef
  <2>3. G(k)
    BY <1>3, <2>1
  <2> DEFINE g == get_slot(A[k].queue, "part")
             D == DOMAIN A[k].slots
  <2> HIDE DEF A
  <2>4. A[k + 1].queue = add(g.queue, g.slot) /\ DOMAIN A[k + 1].slots = D \cup {g.slot}
    BY <2>2 DEF PieceAdded
  <2>5. Grown("part", add(g.queue, g.slot), D \cup {g.slot})
    BY <1>1, <2>3, GrowsOne
  <2> QED
    BY <2>4, <2>5
<1> HIDE DEF T
<1>4. nthreads \in T
  BY <1>2, <1>3, NatInd, SizesAssumption
<1>5. G(nthreads)
  BY <1>4, SizesAssumption DEF T
<1>6. slots' = A[nthreads].slots /\ queue' = [queue EXCEPT !["part"] = A[nthreads].queue]
  BY DEF AddPieces
<1>7. slots' = [s \in DOMAIN slots' |-> slots'[s]]
  <2>1. nthreads \in 1 .. nthreads
    BY SizesAssumption
  <2>2. A[nthreads] = PieceAdded(A[nthreads - 1], nthreads, R, S)
    BY <2>1, PiecesDef
  <2> HIDE DEF A
  <2> DEFINE g == get_slot(A[nthreads - 1].queue, "part")
  <2>3. A[nthreads].slots = [s \in DOMAIN A[nthreads - 1].slots \cup {g.slot} |->
           IF s = g.slot THEN Piece(nthreads - 1, R, S) ELSE A[nthreads - 1].slots[s]]
    BY <2>2 DEF PieceAdded
  <2> HIDE DEF g
  <2> QED
    BY <1>6, <2>3
<1> QED
  BY <1>5, <1>6, <1>7

LEMMA TaskGrows ==
    ASSUME ControlOK, GivenOut, Held, NEW q \in Names, NEW tk, AddTask(q, tk)
    PROVE  \E qu : /\ Grown(q, qu, DOMAIN slots') /\ queue' = [queue EXCEPT ![q] = qu]
                   /\ slots' = [s \in DOMAIN slots' |-> slots'[s]]
<1> DEFINE g == get_slot(queue[q], q)
<1>1. Grown(q, add(g.queue, g.slot), DOMAIN slots \cup {g.slot})
  BY NotGrown, GrowsOne
<1>2. queue' = [queue EXCEPT ![q] = add(g.queue, g.slot)] /\ slots' = Holding(g.slot, tk)
  BY DEF AddTask
<1> HIDE DEF g
<1>3. DOMAIN slots' = DOMAIN slots \cup {g.slot} /\ slots' = [s \in DOMAIN slots' |-> slots'[s]]
  BY <1>2 DEF Holding
<1> QED
  BY <1>1, <1>2, <1>3

-----------------------------------------------------------------------------
(* The ways a step treats tasks.                                           *)

(* Tasks are let go at most.                                               *)
LEMMA QuietKeeps ==
    ASSUME GivenOut, Held, UNCHANGED <<queue, slots>>,
           \A t \in Threads : Holds(t)' \subseteq Holds(t),
           \A t \in Threads : pc'[t] = "add" => pc[t] = "add" /\ task'[t] = task[t] /\ fresh'[t] = fresh[t]
    PROVE  GivenOut' /\ Held'
<1>1. GivenOut' /\ \A q : L(q)' = L(q)
  BY DEF GivenOut, L, Behind
<1>2. \A t \in Threads, q \in Names : Holds(t)' \cap ToSet(L(q)) = {}
  BY DEF Held
<1>3. \A t, u \in Threads : t # u => Holds(t)' \cap Holds(u)' = {}
  BY DEF Held
<1>4. \A t \in Threads : Holds(t)' \subseteq DOMAIN slots
  BY DEF Held
<1>5. \A t \in Threads : pc'[t] = "add" => task'[t] # fresh'[t]
  BY DEF Held
<1> QED
  BY <1>1, <1>2, <1>3, <1>4, <1>5 DEF Held

(* The head of a queue is taken by a thread that has nothing in hand.      *)
LEMMA TakeKeeps ==
    ASSUME ControlOK, GivenOut, Held, NEW t \in Threads, NEW q \in Names,
           L(q) # <<>>, queue' = [queue EXCEPT ![q].list = Tail(@)], slots' = slots,
           Holds(t)' \subseteq {Head(L(q))},
           \A u \in Threads \ {t} : Holds(u)' = Holds(u),
           \A u \in Threads : pc'[u] = "add" => pc[u] = "add" /\ task'[u] = task[u] /\ fresh'[u] = fresh[u]
    PROVE  GivenOut' /\ Held'
<1>1. queue[q] \in TaskQueue /\ L(q) \in Seq(SlotName)
  BY DEF ControlOK, TaskQueue, L
<1>2. /\ Tail(L(q)) \in Seq(SlotName)
      /\ ToSet(L(q)) = {Head(L(q))} \cup ToSet(Tail(L(q)))
      /\ Distinct(L(q)) => Distinct(Tail(L(q))) /\ Head(L(q)) \notin ToSet(Tail(L(q)))
  BY <1>1, HeadTaken
<1>3. /\ L(q)' = Tail(L(q)) /\ \A r \in Names \ {q} : L(r)' = L(r)
      /\ \A r \in Names : queue'[r].blocks = queue[r].blocks /\ queue'[r].curr = queue[r].curr
  BY <1>1 DEF ControlOK, TaskQueue, L
<1>4. GivenOut'
  <2>1. \A s \in DOMAIN slots : s[1] \in Names
    BY DEF ControlOK, SlotName
  <2> QED
    BY <1>3, <2>1 DEF GivenOut, Behind
<1> DEFINE h == Head(L(q))
<1>5. Distinct(Tail(L(q))) /\ h \notin ToSet(Tail(L(q))) /\ h \in DOMAIN slots
  BY <1>2 DEF Held
<1>6. \A r \in Names : ToSet(L(r)') \subseteq ToSet(L(r)) /\ h \notin ToSet(L(r)') /\ Distinct(L(r)')
  <2>1. \A r \in Names \ {q} : ToSet(L(q)) \cap ToSet(L(r)) = {} /\ Distinct(L(r))
    BY DEF Held
  <2> QED
    BY <1>2, <1>3, <1>5, <2>1
<1>7. \A u \in Threads \ {t} : h \notin Holds(u)
  BY <1>2 DEF Held
<1> HIDE DEF h
<1>8. Holds(t)' \subseteq {h}
  BY DEF h
<1>9. \A r \in Names : Distinct(L(r)') /\ ToSet(L(r)') \subseteq DOMAIN slots'
  BY <1>6 DEF Held
<1>10. \A r, m \in Names : r # m => ToSet(L(r)') \cap ToSet(L(m)') = {}
  BY <1>6 DEF Held
<1>11. \A u \in Threads : Holds(u)' \subseteq DOMAIN slots'
  BY <1>5, <1>8 DEF Held
<1>12. \A u \in Threads, r \in Names : Holds(u)' \cap ToSet(L(r)') = {}
  <2> SUFFICES ASSUME NEW u \in Threads, NEW r \in Names PROVE Holds(u)' \cap ToSet(L(r)') = {}
    OBVIOUS
  <2>1. CASE u = t
    BY <1>6, <1>8, <2>1
  <2>2. CASE u # t
    BY <1>6, <2>2 DEF Held
  <2> QED
    BY <2>1, <2>2
<1>13. \A u, w \in Threads : u # w => Holds(u)' \cap Holds(w)' = {}
  BY <1>7, <1>8 DEF Held
<1>14. \A u \in Threads : pc'[u] = "add" => task'[u] # fresh'[u]
  BY DEF Held
<1> QED
  BY <1>4, <1>9, <1>10, <1>11, <1>12, <1>13, <1>14 DEF Held

LEMMA WithList ==
    ASSUME NEW qu \in TaskQueue, NEW l \in Seq(SlotName)
    PROVE  LET new == [qu EXCEPT !.list = l]
           IN  new \in TaskQueue /\ new.list = l /\ new.blocks = qu.blocks /\ new.curr = qu.curr
BY DEF TaskQueue

(* The first thread moves a piece to the front of the join queue.          *)
LEMMA MoveKeeps ==
    ASSUME ControlOK, GivenOut, Held, L("part") # <<>>, slots' = slots,
           queue' = [queue EXCEPT !["part"].list = Tail(@),
                                  !["join"] = add(@, Head(queue["part"].list))],
           \A u \in Threads : Holds(u)' = Holds(u) /\ ~ (pc'[u] = "add")
    PROVE  queue' \in [Names -> TaskQueue] /\ GivenOut' /\ Held'
<1> DEFINE h == Head(L("part"))
           p == Tail(L("part"))
           j == <<h>> \o L("join")
<1>0. "part" \in Names /\ "join" \in Names
  BY DEF Names
<1>1. /\ queue["part"] \in TaskQueue /\ L("part") \in Seq(SlotName)
      /\ queue["join"] \in TaskQueue /\ L("join") \in Seq(SlotName)
  BY <1>0 DEF ControlOK, TaskQueue, L
<1>2. /\ p \in Seq(SlotName) /\ h \in SlotName
      /\ ToSet(L("part")) = {h} \cup ToSet(p)
      /\ Distinct(L("part")) => Distinct(p) /\ h \notin ToSet(p)
  BY <1>1, HeadTaken
<1> HIDE DEF h, p
<1>3. /\ j \in Seq(SlotName) /\ ToSet(j) = {h} \cup ToSet(L("join"))
      /\ Distinct(L("join")) /\ h \notin ToSet(L("join")) => Distinct(j)
  BY <1>1, <1>2, FrontAdded
<1> HIDE DEF j
<1>4. queue' = [queue EXCEPT !["part"] = [@ EXCEPT !.list = p], !["join"] = [@ EXCEPT !.list = j]]
  BY <1>0, <1>1 DEF add, L, h, p, j, ControlOK, TaskQueue
<1> DEFINE np == [queue["part"] EXCEPT !.list = p]
           nj == [queue["join"] EXCEPT !.list = j]
<1>a. /\ np \in TaskQueue /\ np.list = p /\ np.blocks = queue["part"].blocks /\ np.curr = queue["part"].curr
      /\ nj \in TaskQueue /\ nj.list = j /\ nj.blocks = queue["join"].blocks /\ nj.curr = queue["join"].curr
  BY <1>1, <1>2, <1>3, WithList
<1>b. queue' = [queue EXCEPT !["part"] = np, !["join"] = nj]
  BY <1>4
<1> HIDE DEF np, nj
<1>c. /\ queue'["part"] = np /\ queue'["join"] = nj
      /\ \A r \in Names \ {"part", "join"} : queue'[r] = queue[r]
      /\ queue' \in [Names -> TaskQueue]
  <2>1. queue \in [Names -> TaskQueue]
    BY DEF ControlOK
  <2>2. DOMAIN queue' = Names /\ queue'["part"] = np /\ queue'["join"] = nj
    BY <1>0, <1>b, <2>1
  <2>3. \A r \in Names \ {"part", "join"} : queue'[r] = queue[r]
    BY <1>0, <1>b, <2>1
  <2>4. queue' = [r \in Names |-> queue'[r]]
    BY <1>b, <2>1
  <2>5. \A r \in Names : queue'[r] \in TaskQueue
    BY <1>a, <2>1, <2>2, <2>3
  <2> QED
    BY <2>2, <2>3, <2>4, <2>5
<1>5. /\ L("part")' = p /\ L("join")' = j /\ \A r \in Names \ {"part", "join"} : L(r)' = L(r)
      /\ \A r \in Names : queue'[r].blocks = queue[r].blocks /\ queue'[r].curr = queue[r].curr
  BY <1>a, <1>c DEF L
<1>6. queue' \in [Names -> TaskQueue]
  BY <1>c
<1>7. GivenOut'
  <2>1. \A s \in DOMAIN slots : s[1] \in Names
    BY DEF ControlOK, SlotName
  <2> QED
    BY <1>5, <2>1 DEF GivenOut, Behind
<1>8. /\ Distinct(p) /\ h \notin ToSet(p) /\ Distinct(j) /\ h \in DOMAIN slots
      /\ \A r \in Names \ {"part"} : h \notin ToSet(L(r))
  BY <1>0, <1>2, <1>3 DEF Held
<1>9. \A r \in Names : Distinct(L(r)') /\ ToSet(L(r)') \subseteq DOMAIN slots'
  BY <1>0, <1>2, <1>3, <1>5, <1>8 DEF Held
<1>10. \A r, m \in Names : r # m => ToSet(L(r)') \cap ToSet(L(m)') = {}
  <2> SUFFICES ASSUME NEW r \in Names, NEW m \in Names, r # m, NEW s \in ToSet(L(r)'), s \in ToSet(L(m)')
               PROVE  FALSE
    OBVIOUS
  <2>1. /\ \A n \in Names : ToSet(L(n)') \subseteq ToSet(L(n)) \cup {h}
        /\ \A n \in Names : n # "join" => h \notin ToSet(L(n)')
        /\ ToSet(L(r)) \cap ToSet(L(m)) = {}
    BY <1>0, <1>2, <1>3, <1>5, <1>8 DEF Held
  <2>2. \A n \in Names : s \in ToSet(L(n)') /\ s # h => s \in ToSet(L(n))
    BY <2>1
  <2> QED
    BY <2>1, <2>2
<1>11. \A u \in Threads, r \in Names : Holds(u)' \cap ToSet(L(r)') = {}
  <2>1. \A n \in Names : ToSet(L(n)') \subseteq ToSet(L(n)) \cup {h}
    BY <1>0, <1>2, <1>3, <1>5
  <2>2. \A u \in Threads : h \notin Holds(u)
    BY <1>0, <1>2 DEF Held
  <2> QED
    BY <2>1, <2>2 DEF Held
<1> QED
  BY <1>6, <1>7, <1>9, <1>10, <1>11 DEF Held

(* A thread gets a slot for the join task it makes.                        *)
LEMMA OfferKeeps ==
    ASSUME ControlOK, GivenOut, Held, NEW t \in Threads, NEW tk,
           queue' = [queue EXCEPT !["join"] = get_slot(queue["join"], "join").queue],
           slots' = Holding(get_slot(queue["join"], "join").slot, tk),
           pc[t] = "offer", task' = task,
           fresh' = [fresh EXCEPT ![t] = get_slot(queue["join"], "join").slot],
           pc' = [pc EXCEPT ![t] = "add"]
    PROVE  /\ queue' \in [Names -> TaskQueue] /\ DOMAIN slots' \subseteq SlotName
           /\ slots' = [s \in DOMAIN slots' |-> slots'[s]]
           /\ fresh' \in [Threads -> SlotName \cup {NoSlot}] /\ GivenOut' /\ Held'
<1> DEFINE D == DOMAIN slots
           qu == queue["join"]
           g == get_slot(qu, "join")
           a == g.slot
<1>0. "join" \in Names
  BY DEF Names
<1>1. qu \in TaskQueue /\ D \in SUBSET SlotName /\ \A s \in D : s[1] = "join" => Behind(s, qu)
  BY <1>0 DEF ControlOK, GivenOut
<1>2. /\ a \in SlotName \ D /\ a[1] = "join" /\ g.queue \in TaskQueue /\ g.queue.list = L("join")
      /\ \A s \in D \cup {a} : s[1] = "join" => Behind(s, g.queue)
  <2> DEFINE q == "join"
  <2>1. q \in Names /\ q = "join"
    BY <1>0
  <2> HIDE DEF q, D, qu
  <2>2. /\ get_slot(qu, q).slot \in SlotName \ D /\ get_slot(qu, q).slot[1] = q
        /\ get_slot(qu, q).queue \in TaskQueue /\ get_slot(qu, q).queue.list = qu.list
        /\ \A s \in D \cup {get_slot(qu, q).slot} : s[1] = q => Behind(s, get_slot(qu, q).queue)
    BY <1>1, <2>1, NewSlot
  <2> QED
    BY <2>1, <2>2 DEF L, qu
<1>3. /\ queue' = [queue EXCEPT !["join"] = g.queue] /\ slots' = Holding(a, tk)
      /\ fresh' = [fresh EXCEPT ![t] = a]
  OBVIOUS
<1> HIDE DEF g, a
<1>4. DOMAIN slots' = D \cup {a} /\ slots' = [s \in DOMAIN slots' |-> slots'[s]]
  BY <1>3 DEF Holding
<1>5. /\ queue'["join"] = g.queue /\ \A r \in Names \ {"join"} : queue'[r] = queue[r]
      /\ queue' \in [Names -> TaskQueue] /\ \A r \in Names : L(r)' = L(r)
  BY <1>0, <1>2, <1>3 DEF ControlOK, L
<1>6. GivenOut'
  <2> SUFFICES ASSUME NEW s \in D \cup {a} PROVE Behind(s, queue'[s[1]])
    BY <1>4 DEF GivenOut, Behind
  <2>1. CASE s[1] = "join"
    BY <1>2, <1>5, <2>1
  <2>2. CASE s[1] # "join"
    <3>1. s \in D /\ s[1] \in Names
      BY <1>1, <1>2, <2>2 DEF SlotName
    <3> QED
      BY <1>5, <2>2, <3>1 DEF GivenOut
  <2> QED
    BY <2>1, <2>2
<1>7. /\ Holds(t) = {task[t]} /\ Holds(t)' = {task[t], a}
      /\ \A u \in Threads \ {t} : Holds(u)' = Holds(u) /\ pc'[u] = pc[u] /\ fresh'[u] = fresh[u]
      /\ fresh'[t] = a
  BY <1>3 DEF Holds, Working, ControlOK
<1>8. /\ \A u \in Threads : Holds(u) \subseteq D
      /\ \A r \in Names : ToSet(L(r)) \subseteq D
      /\ a \notin D /\ a \in DOMAIN slots' /\ D \subseteq DOMAIN slots'
  BY <1>2, <1>4 DEF Held
<1> HIDE DEF D
<1>9. \A u \in Threads : Holds(u)' \subseteq DOMAIN slots'
  BY <1>7, <1>8
<1>10. \A u \in Threads, r \in Names : Holds(u)' \cap ToSet(L(r)) = {}
  <2>1. \A r \in Names : a \notin ToSet(L(r))
    BY <1>8
  <2>2. \A u \in Threads : Holds(u)' \subseteq Holds(u) \cup {a}
    BY <1>7
  <2> QED
    BY <2>1, <2>2 DEF Held
<1>11. \A u, w \in Threads : u # w => Holds(u)' \cap Holds(w)' = {}
  <2>1. \A u \in Threads \ {t} : a \notin Holds(u)'
    BY <1>7, <1>8
  <2> QED
    BY <1>7, <2>1 DEF Held
<1>12. \A u \in Threads : pc'[u] = "add" => task'[u] # fresh'[u]
  BY <1>7, <1>8 DEF Held
<1>13. fresh' \in [Threads -> SlotName \cup {NoSlot}]
  BY <1>2, <1>3 DEF ControlOK
<1>14. DOMAIN slots' \subseteq SlotName
  BY <1>1, <1>2, <1>4
<1>15. \A r \in Names : Distinct(L(r)') /\ ToSet(L(r)') \subseteq DOMAIN slots'
  BY <1>5, <1>8 DEF Held
<1>16. \A r, m \in Names : r # m => ToSet(L(r)') \cap ToSet(L(m)') = {}
  BY <1>5 DEF Held
<1>17. \A u \in Threads, r \in Names : Holds(u)' \cap ToSet(L(r)') = {}
  BY <1>5, <1>10
<1>18. Held'
  BY <1>9, <1>11, <1>12, <1>15, <1>16, <1>17 DEF Held
<1>19. slots' = [s \in DOMAIN slots' |-> slots'[s]]
  BY <1>4
<1> QED
  BY <1>5, <1>6, <1>13, <1>14, <1>18, <1>19

(* It adds the slot to the queue.                                          *)
LEMMA AddKeeps ==
    ASSUME ControlOK, GivenOut, Held, NEW t \in Threads, pc[t] = "add",
           queue' = [queue EXCEPT !["join"] = add(@, fresh[t])], slots' = slots,
           task' = task, fresh' = fresh, pc' = [pc EXCEPT ![t] = "offer"]
    PROVE  queue' \in [Names -> TaskQueue] /\ GivenOut' /\ Held'
<1> DEFINE a == fresh[t]
           j == <<a>> \o L("join")
<1>0. "join" \in Names
  BY DEF Names
<1>1. queue["join"] \in TaskQueue /\ L("join") \in Seq(SlotName)
  BY <1>0 DEF ControlOK, TaskQueue, L
<1>2. /\ Holds(t) = {task[t], a} /\ Holds(t)' = {task[t]} /\ task[t] # a
      /\ \A u \in Threads \ {t} : Holds(u)' = Holds(u) /\ pc'[u] = pc[u]
      /\ ~ (pc'[t] = "add")
  BY DEF Holds, Working, ControlOK, Held
<1> HIDE DEF a
<1>3. a \in DOMAIN slots /\ a \in SlotName /\ \A r \in Names : a \notin ToSet(L(r))
  BY <1>2 DEF Held, ControlOK
<1>4. /\ j \in Seq(SlotName) /\ ToSet(j) = {a} \cup ToSet(L("join"))
      /\ Distinct(L("join")) /\ a \notin ToSet(L("join")) => Distinct(j)
  BY <1>1, <1>3, FrontAdded
<1> HIDE DEF j
<1>5. queue' = [queue EXCEPT !["join"] = [@ EXCEPT !.list = j]]
  BY <1>0, <1>1 DEF add, L, a, j, ControlOK, TaskQueue
<1> DEFINE nj == [queue["join"] EXCEPT !.list = j]
<1>a. nj \in TaskQueue /\ nj.list = j /\ nj.blocks = queue["join"].blocks /\ nj.curr = queue["join"].curr
  BY <1>1, <1>4, WithList
<1>b. queue' = [queue EXCEPT !["join"] = nj]
  BY <1>5
<1> HIDE DEF nj
<1>c. /\ queue'["join"] = nj /\ \A r \in Names \ {"join"} : queue'[r] = queue[r]
      /\ queue' \in [Names -> TaskQueue]
  BY <1>0, <1>a, <1>b DEF ControlOK
<1>6. /\ L("join")' = j /\ \A r \in Names \ {"join"} : L(r)' = L(r)
      /\ \A r \in Names : queue'[r].blocks = queue[r].blocks /\ queue'[r].curr = queue[r].curr
      /\ queue' \in [Names -> TaskQueue]
  BY <1>a, <1>c DEF L
<1>7. GivenOut'
  <2>1. \A s \in DOMAIN slots : s[1] \in Names
    BY DEF ControlOK, SlotName
  <2> QED
    BY <1>6, <2>1 DEF GivenOut, Behind
<1>8. \A r \in Names : Distinct(L(r)') /\ ToSet(L(r)') \subseteq DOMAIN slots'
  BY <1>0, <1>3, <1>4, <1>6 DEF Held
<1>9. \A r, m \in Names : r # m => ToSet(L(r)') \cap ToSet(L(m)') = {}
  BY <1>0, <1>3, <1>4, <1>6 DEF Held
<1>10. \A u \in Threads : Holds(u)' \subseteq Holds(u) /\ a \notin Holds(u)'
  BY <1>2 DEF Held
<1>11. \A u \in Threads, r \in Names : Holds(u)' \cap ToSet(L(r)') = {}
  <2>1. \A n \in Names : ToSet(L(n)') \subseteq ToSet(L(n)) \cup {a}
    BY <1>0, <1>4, <1>6
  <2> QED
    BY <1>10, <2>1 DEF Held
<1>12. \A u, w \in Threads : u # w => Holds(u)' \cap Holds(w)' = {}
  BY <1>10 DEF Held
<1>13. \A u \in Threads : Holds(u)' \subseteq DOMAIN slots'
  BY <1>10 DEF Held
<1>14. \A u \in Threads : pc'[u] = "add" => task'[u] # fresh'[u]
  BY <1>2 DEF Held
<1> QED
  BY <1>6, <1>7, <1>8, <1>9, <1>11, <1>12, <1>13, <1>14 DEF Held

-----------------------------------------------------------------------------
(* Each step keeps the tasks in their places.                              *)

(* While the first thread works on the queues without locks, no thread is  *)
(* near a queue.                                                           *)
LEMMA Alone ==
    ASSUME ControlOK, Together, NEW t \in Threads, pc[t] \in {"make", "split", "move"}
    PROVE  /\ \A u \in Threads : pc[u] \notin {"part", "cluster", "offer", "add", "join", "chain",
                                                "reorder", "probe"}
           /\ \A u \in Threads : u # t => pc[u] \notin {"make", "split", "move"}
<1>1. PICK g \in Stages, p \in {1, 2} : \A u \in Threads : At(g, p, u)
  BY DEF Together
<1>2. At(g, p, t)
  BY <1>1
<1>3. g \in {"make", "split", "decide"} /\ t = 0
  BY <1>2 DEF At, To, Stages
<1> SUFFICES ASSUME NEW u \in Threads
             PROVE  /\ pc[u] \notin {"part", "cluster", "offer", "add", "join", "chain",
                                      "reorder", "probe"}
                    /\ u # t => pc[u] \notin {"make", "split", "move"}
  OBVIOUS
<1>4. At(g, p, u)
  BY <1>1
<1> QED
  BY <1>3, <1>4 DEF At, To

SlotsOK ==
    /\ queue \in [Names -> TaskQueue]
    /\ DOMAIN slots \subseteq SlotName /\ slots = [s \in DOMAIN slots |-> slots[s]]
    /\ task \in [Threads -> SlotName \cup {NoSlot}] /\ fresh \in [Threads -> SlotName \cup {NoSlot}]

LEMMA QuietStep ==
    ASSUME ControlOK, GivenOut, Held, NEW t \in Threads, UNCHANGED <<queue, slots, task, fresh>>,
           \A u \in Threads \ {t} : pc'[u] = pc[u],
           pc'[t] # "add", Working(t)' => Working(t)
    PROVE  SlotsOK' /\ GivenOut' /\ Held'
<1>1. \A u \in Threads : Holds(u)' \subseteq Holds(u)
  BY DEF Holds, Working
<1>2. \A u \in Threads : pc'[u] = "add" => pc[u] = "add" /\ task'[u] = task[u] /\ fresh'[u] = fresh[u]
  OBVIOUS
<1>3. GivenOut' /\ Held'
  BY <1>1, <1>2, QuietKeeps
<1>4. SlotsOK'
  BY DEF ControlOK, SlotsOK
<1> QED
  BY <1>3, <1>4

LEMMA TailOfQueue ==
    ASSUME ControlOK, NEW q \in Names, L(q) # <<>>, queue' = [queue EXCEPT ![q].list = Tail(@)]
    PROVE  queue' \in [Names -> TaskQueue]
<1>1. queue[q] \in TaskQueue /\ L(q) \in Seq(SlotName)
  BY DEF ControlOK, TaskQueue, L
<1>2. Tail(L(q)) \in Seq(SlotName)
  BY <1>1, HeadTaken
<1> DEFINE new == [queue[q] EXCEPT !.list = Tail(L(q))]
<1>3. new \in TaskQueue
  BY <1>1, <1>2, WithList
<1>4. queue' = [queue EXCEPT ![q] = new]
  BY DEF L
<1> HIDE DEF new
<1> QED
  BY <1>3, <1>4 DEF ControlOK

(* A thread takes the head of a queue in hand.                             *)
LEMMA TakeStep ==
    ASSUME ControlOK, GivenOut, Held, NEW t \in Threads, NEW q \in Names,
           NEW s \in DOMAIN slots \cup {NoSlot}, GetTask(q, s),
           UNCHANGED <<slots, fresh>>, task' = [task EXCEPT ![t] = s],
           pc[t] # "add", pc'[t] # "add", \A u \in Threads \ {t} : pc'[u] = pc[u],
           s = NoSlot => ~ Working(t)'
    PROVE  SlotsOK' /\ GivenOut' /\ Held'
<1>1. /\ \A u \in Threads \ {t} : Holds(u)' = Holds(u)
      /\ \A u \in Threads : pc'[u] = "add" => pc[u] = "add" /\ task'[u] = task[u] /\ fresh'[u] = fresh[u]
      /\ Holds(t)' \subseteq {s} /\ (s = NoSlot => Holds(t)' = {})
  BY DEF Holds, Working, ControlOK
<1>2. task' \in [Threads -> SlotName \cup {NoSlot}]
  BY DEF ControlOK
<1>3. CASE queue' = queue /\ s = NoSlot
  <2>1. \A u \in Threads : Holds(u)' \subseteq Holds(u)
    BY <1>1, <1>3
  <2>2. GivenOut' /\ Held'
    BY <1>1, <1>3, <2>1, QuietKeeps
  <2> QED
    BY <1>2, <1>3, <2>2 DEF ControlOK, SlotsOK
<1>4. CASE L(q) # <<>> /\ s = Head(L(q)) /\ queue' = [queue EXCEPT ![q].list = Tail(@)]
  <2>1. GivenOut' /\ Held'
    BY <1>1, <1>4, TakeKeeps
  <2>2. queue' \in [Names -> TaskQueue]
    BY <1>4, TailOfQueue
  <2> QED
    BY <1>2, <2>1, <2>2 DEF ControlOK, SlotsOK
<1> QED
  BY <1>3, <1>4 DEF GetTask, L

LEMMA GrowStep ==
    ASSUME ControlOK, Together, GivenOut, Held, NEW t \in Threads, pc[t] \in {"make", "split"},
           NEW q \in Names,
           \E qu : /\ Grown(q, qu, DOMAIN slots') /\ queue' = [queue EXCEPT ![q] = qu]
                   /\ slots' = [s \in DOMAIN slots' |-> slots'[s]],
           UNCHANGED <<pc, task, fresh>>
    PROVE  SlotsOK' /\ GivenOut' /\ Held'
<1>1. PICK qu : /\ Grown(q, qu, DOMAIN slots') /\ queue' = [queue EXCEPT ![q] = qu]
                /\ slots' = [s \in DOMAIN slots' |-> slots'[s]]
  OBVIOUS
<1>2. \A u \in Threads : Holds(u)' = Holds(u) /\ ~ (pc'[u] = "add")
  BY Alone DEF Holds, Working
<1>3. GivenOut' /\ Held'
  BY <1>1, <1>2, GrowKeeps
<1>4. queue' \in [Names -> TaskQueue] /\ DOMAIN slots' \subseteq SlotName
  BY <1>1 DEF Grown, ControlOK
<1> QED
  BY <1>1, <1>3, <1>4 DEF SlotsOK, ControlOK

LEMMA TasksStay ==
    ASSUME ControlOK, Together, GivenOut, Held, NEW t \in Threads, prj_thread(t)
    PROVE  SlotsOK' /\ GivenOut' /\ Held'
<1>0. /\ SlotsOK /\ "part" \in Names /\ "join" \in Names /\ "skew" \in Names
      /\ pc = [u \in Threads |-> pc[u]]
  BY DEF ControlOK, SlotsOK, Names
<1>1. CASE Start(t)
  BY <1>1, QuietStep DEF Start, Arrive, ControlOK, Working, queues, local
<1>2. CASE Histogram(t)
  BY <1>2, QuietStep DEF Histogram, Arrive, ControlOK, Working, queues, local
<1>3. CASE Copy(t)
  BY <1>3, QuietStep DEF Copy, Arrive, Goto, ControlOK, Working, queues
<1>4. CASE MakeTask(t)
  <2>1. CASE UNCHANGED <<queue, slots>>
    <3>1. /\ UNCHANGED <<task, fresh>> /\ pc'[t] \in {"make", "made"}
          /\ \A u \in Threads \ {t} : pc'[u] = pc[u]
      BY <1>4 DEF MakeTask, Goto, ControlOK
    <3> QED
      BY <2>1, <3>1, QuietStep DEF Working
  <2>2. CASE \E q \in {"skew", "part"} : \E tk : AddTask(q, tk) /\ pc' = pc
    <3>0. PICK q \in {"skew", "part"} : \E tk : AddTask(q, tk)
      BY <2>2
    <3>1. PICK tk : AddTask(q, tk)
      BY <3>0
    <3>2. q \in Names
      BY DEF Names
    <3>3. \E qu : /\ Grown(q, qu, DOMAIN slots') /\ queue' = [queue EXCEPT ![q] = qu]
                  /\ slots' = [s \in DOMAIN slots' |-> slots'[s]]
      BY <3>1, <3>2, TaskGrows
    <3>4. pc[t] = "make" /\ UNCHANGED <<pc, task, fresh>>
      BY <1>4, <2>2 DEF MakeTask
    <3> QED
      BY <3>2, <3>3, <3>4, GrowStep
  <2> QED
    BY <1>4, <2>1, <2>2 DEF MakeTask
<1>5. CASE Made(t)
  BY <1>5, QuietStep DEF Made, Arrive, ControlOK, Working, queues, local
<1>6. CASE TakePart(t)
  <2>1. PICK s \in DOMAIN slots \cup {NoSlot} :
          /\ GetTask("part", s) /\ task' = [task EXCEPT ![t] = s]
          /\ Goto(t, IF s = NoSlot THEN "skew" ELSE "cluster")
    BY <1>6 DEF TakePart
  <2>2. pc[t] = "part" /\ UNCHANGED <<slots, fresh>>
    BY <1>6 DEF TakePart
  <2>3. pc'[t] = (IF s = NoSlot THEN "skew" ELSE "cluster") /\ \A u \in Threads \ {t} : pc'[u] = pc[u]
    BY <1>0, <2>1 DEF Goto
  <2>4. pc[t] # "add" /\ pc'[t] # "add" /\ (s = NoSlot => ~ Working(t)')
    BY <2>2, <2>3 DEF Working
  <2> QED
    BY <1>0, <2>1, <2>2, <2>3, <2>4, TakeStep
<1>7. CASE radix_cluster(t)
  BY <1>7, QuietStep DEF radix_cluster, Goto, ControlOK, Working, queues
<1>8. CASE Offer(t)
  <2>1. CASE UNCHANGED <<queue, slots, fresh>> /\ Goto(t, "part")
    BY <1>8, <2>1, QuietStep DEF Offer, Goto, ControlOK, Working
  <2>2. CASE \E tk : /\ queue' = [queue EXCEPT !["join"] = get_slot(queue["join"], "join").queue]
                     /\ slots' = Holding(get_slot(queue["join"], "join").slot, tk)
                     /\ fresh' = [fresh EXCEPT ![t] = get_slot(queue["join"], "join").slot]
                     /\ Goto(t, "add")
    <3>1. PICK tk : /\ queue' = [queue EXCEPT !["join"] = get_slot(queue["join"], "join").queue]
                    /\ slots' = Holding(get_slot(queue["join"], "join").slot, tk)
                    /\ fresh' = [fresh EXCEPT ![t] = get_slot(queue["join"], "join").slot]
                    /\ Goto(t, "add")
      BY <2>2
    <3>2. pc[t] = "offer" /\ task' = task /\ pc' = [pc EXCEPT ![t] = "add"]
      BY <1>8, <3>1 DEF Offer, Goto
    <3>3. /\ queue' \in [Names -> TaskQueue] /\ DOMAIN slots' \subseteq SlotName
          /\ slots' = [s \in DOMAIN slots' |-> slots'[s]]
          /\ fresh' \in [Threads -> SlotName \cup {NoSlot}] /\ GivenOut' /\ Held'
      BY <3>1, <3>2, OfferKeeps
    <3> QED
      BY <1>0, <3>2, <3>3 DEF SlotsOK
  <2> QED
    BY <1>8, <2>1, <2>2 DEF Offer
<1>9. CASE task_queue_add_atomic(t)
  <2>1. /\ pc[t] = "add" /\ queue' = [queue EXCEPT !["join"] = add(@, fresh[t])]
        /\ slots' = slots /\ task' = task /\ fresh' = fresh /\ pc' = [pc EXCEPT ![t] = "offer"]
    BY <1>9 DEF task_queue_add_atomic, Goto
  <2>2. queue' \in [Names -> TaskQueue] /\ GivenOut' /\ Held'
    BY <2>1, AddKeeps
  <2> QED
    BY <1>0, <2>1, <2>2 DEF SlotsOK
<1>10. CASE TakeSkew(t)
  <2>1. /\ pc[t] = "skew" /\ pc'[t] = "barrier" /\ UNCHANGED <<slots, task, fresh>>
        /\ \A u \in Threads \ {t} : pc'[u] = pc[u]
    BY <1>0, <1>10 DEF TakeSkew, Arrive, local
  <2>2. CASE queue' = queue
    BY <2>1, <2>2, QuietStep DEF Working
  <2>3. CASE L("skew") # <<>> /\ queue' = [queue EXCEPT !["skew"].list = Tail(@)]
    <3>1. /\ Holds(t)' = {} /\ \A u \in Threads \ {t} : Holds(u)' = Holds(u)
          /\ \A u \in Threads : pc'[u] = "add" => pc[u] = "add" /\ task'[u] = task[u] /\ fresh'[u] = fresh[u]
      BY <2>1 DEF Holds, Working
    <3>2. GivenOut' /\ Held'
      BY <1>0, <2>1, <2>3, <3>1, TakeKeeps
    <3>3. queue' \in [Names -> TaskQueue]
      BY <1>0, <2>3, TailOfQueue
    <3> QED
      BY <1>0, <2>1, <3>2, <3>3 DEF SlotsOK
  <2> QED
    BY <1>10, <2>2, <2>3 DEF TakeSkew, GetTask, L
<1>11. CASE SkewTask(t)
  BY <1>11, QuietStep DEF SkewTask, Arrive, Goto, ControlOK, Working, queues, local
<1>12. CASE Split(t)
  <2>1. CASE UNCHANGED <<queue, slots>>
    <3>1. /\ UNCHANGED <<task, fresh>> /\ pc'[t] \in {"split", "skew"}
          /\ \A u \in Threads \ {t} : pc'[u] = pc[u]
      BY <1>12 DEF Split, Goto, ControlOK
    <3> QED
      BY <2>1, <3>1, QuietStep DEF Working
  <2>2. CASE \E R, S : AddPieces(R, S) /\ pc' = pc
    <3>1. PICK R, S : AddPieces(R, S)
      BY <2>2
    <3>2. \E qu : /\ Grown("part", qu, DOMAIN slots') /\ queue' = [queue EXCEPT !["part"] = qu]
                  /\ slots' = [s \in DOMAIN slots' |-> slots'[s]]
      BY <3>1, PiecesGrow
    <3>3. pc[t] = "split" /\ UNCHANGED <<pc, task, fresh>>
      BY <1>12, <2>2 DEF Split
    <3> QED
      BY <1>0, <3>2, <3>3, GrowStep
  <2>3. CASE \E tk : AddTask("join", tk) /\ pc' = pc
    <3>1. PICK tk : AddTask("join", tk)
      BY <2>3
    <3>2. \E qu : /\ Grown("join", qu, DOMAIN slots') /\ queue' = [queue EXCEPT !["join"] = qu]
                  /\ slots' = [s \in DOMAIN slots' |-> slots'[s]]
      BY <1>0, <3>1, TaskGrows
    <3>3. pc[t] = "split" /\ UNCHANGED <<pc, task, fresh>>
      BY <1>12, <2>3 DEF Split
    <3> QED
      BY <1>0, <3>2, <3>3, GrowStep
  <2> QED
    BY <1>12, <2>1, <2>2, <2>3 DEF Split
<1>13. CASE Move(t)
  <2>1. CASE UNCHANGED queue
    <3>1. /\ UNCHANGED <<slots, task, fresh>> /\ pc'[t] \in {"move", "barrier"}
          /\ \A u \in Threads \ {t} : pc'[u] = pc[u]
      BY <1>13 DEF Move, Arrive, ControlOK, local
    <3> QED
      BY <2>1, <3>1, QuietStep DEF Working
  <2>2. CASE /\ L("part") # <<>> /\ pc' = pc
             /\ queue' = [queue EXCEPT !["part"].list = Tail(@),
                                       !["join"] = add(@, Head(queue["part"].list))]
    <3>1. pc[t] = "move" /\ UNCHANGED <<slots, task, fresh>>
      BY <1>13 DEF Move, local
    <3>2. \A u \in Threads : Holds(u)' = Holds(u) /\ ~ (pc'[u] = "add")
      BY <2>2, <3>1, Alone DEF Holds, Working
    <3>3. queue' \in [Names -> TaskQueue] /\ GivenOut' /\ Held'
      BY <2>2, <3>1, <3>2, MoveKeeps
    <3> QED
      BY <1>0, <3>1, <3>3 DEF SlotsOK
  <2> QED
    BY <1>13, <2>1, <2>2 DEF Move, L
<1>14. CASE TakeJoin(t)
  <2>1. PICK s \in DOMAIN slots \cup {NoSlot} :
          /\ GetTask("join", s) /\ task' = [task EXCEPT ![t] = s]
          /\ IF s = NoSlot THEN Arrive(t, "end")
             ELSE Goto(t, IF input.join = "PRO" THEN "chain" ELSE "reorder")
    BY <1>14 DEF TakeJoin
  <2>2. pc[t] = "join" /\ UNCHANGED <<slots, fresh>>
    BY <1>14 DEF TakeJoin
  <2>3. /\ pc'[t] = (IF s = NoSlot THEN "barrier" ELSE IF input.join = "PRO" THEN "chain" ELSE "reorder")
        /\ \A u \in Threads \ {t} : pc'[u] = pc[u]
    BY <1>0, <2>1 DEF Goto, Arrive
  <2>4. pc[t] # "add" /\ pc'[t] # "add" /\ (s = NoSlot => ~ Working(t)')
    BY <2>2, <2>3 DEF Working
  <2> QED
    BY <1>0, <2>1, <2>2, <2>3, <2>4, TakeStep
<1>15. CASE ChainJoin(t)
  BY <1>15, QuietStep DEF ChainJoin, Goto, ControlOK, Working, queues
<1>16. CASE Reorder(t)
  BY <1>16, QuietStep DEF Reorder, Goto, ControlOK, Working, queues
<1>17. CASE Probe(t)
  BY <1>17, QuietStep DEF Probe, Goto, ControlOK, Working, queues
<1> QED
  BY <1>1, <1>2, <1>3, <1>4, <1>5, <1>6, <1>7, <1>8, <1>9, <1>10, <1>11, <1>12, <1>13,
     <1>14, <1>15, <1>16, <1>17 DEF prj_thread

LEMMA WhereStays ==
    ASSUME ControlOK, NEW t \in Threads, prj_thread(t)
    PROVE  /\ pc' \in [Threads -> {"start", "barrier", "hist", "copy", "make", "made", "part", "cluster",
                                   "offer", "add", "skew", "skewtask", "split", "move", "join", "chain",
                                   "reorder", "probe", "end"}]
           /\ after' \in [Threads -> {"hist", "copy", "make", "made", "part", "split", "skew", "skewtask",
                                      "join", "end"}]
           /\ pass' \in [Threads -> {1, 2}] /\ x' \in [Threads -> {"R", "S"}]
<1> DEFINE PC == {"start", "barrier", "hist", "copy", "make", "made", "part", "cluster",
                  "offer", "add", "skew", "skewtask", "split", "move", "join", "chain",
                  "reorder", "probe", "end"}
           AF == {"hist", "copy", "make", "made", "part", "split", "skew", "skewtask", "join", "end"}
<1>1. \/ pc' = pc /\ after' = after
      \/ \E n \in PC : Goto(t, n)
      \/ \E n \in AF : Arrive(t, n)
  <2>1. CASE Start(t) \/ Histogram(t) \/ Copy(t) \/ Made(t)
    BY <2>1 DEF Start, Histogram, Copy, Made
  <2>2. CASE MakeTask(t) \/ Split(t) \/ Move(t)
    BY <2>2 DEF MakeTask, Split, Move
  <2>3. CASE TakePart(t) \/ radix_cluster(t) \/ Offer(t) \/ task_queue_add_atomic(t)
    BY <2>3 DEF TakePart, radix_cluster, Offer, task_queue_add_atomic
  <2>4. CASE TakeSkew(t) \/ SkewTask(t)
    BY <2>4 DEF TakeSkew, SkewTask
  <2>5. CASE TakeJoin(t) \/ ChainJoin(t) \/ Reorder(t) \/ Probe(t)
    BY <2>5 DEF TakeJoin, ChainJoin, Reorder, Probe
  <2> QED
    BY <2>1, <2>2, <2>3, <2>4, <2>5 DEF prj_thread
<1>2. pc \in [Threads -> PC] /\ after \in [Threads -> AF] /\ "barrier" \in PC
  BY DEF ControlOK
<1>3. pc' \in [Threads -> PC] /\ after' \in [Threads -> AF]
  <2> HIDE DEF PC, AF
  <2> QED
    BY <1>1, <1>2 DEF Goto, Arrive
<1>4. pass' \in [Threads -> {1, 2}] /\ x' \in [Threads -> {"R", "S"}]
  <2>1. CASE Copy(t)
    BY <2>1 DEF Copy, ControlOK
  <2>2. CASE SkewTask(t)
    BY <2>2 DEF SkewTask, ControlOK, partition
  <2>3. CASE ~ Copy(t) /\ ~ SkewTask(t)
    <3>1. pass' = pass /\ x' = x
      BY <2>3 DEF prj_thread, Start, Histogram, MakeTask, Made, TakePart, radix_cluster, Offer,
                  task_queue_add_atomic, TakeSkew, Split, Move, TakeJoin, ChainJoin, Reorder, Probe,
                  partition
    <3> QED
      BY <3>1 DEF ControlOK
  <2> QED
    BY <2>1, <2>2, <2>3
<1> QED
  BY <1>3, <1>4

-----------------------------------------------------------------------------
(* The invariant, and what follows from it.                                *)

LEMMA TaskInit == Init => TaskInv
<1> SUFFICES ASSUME Init PROVE TaskInv
  OBVIOUS
<1> DEFINE z == <<>>
<1>1. EmptyQueue \in TaskQueue /\ EmptyQueue.list = <<>>
  <2>1. z \in Seq(SlotName) /\ 0 \in Nat /\ 1 \in Nat
    OBVIOUS
  <2> QED
    BY <2>1 DEF EmptyQueue, TaskQueue
<1>2. queue = [q \in Names |-> EmptyQueue] /\ \A q \in Names : L(q) = <<>>
  BY <1>1 DEF Init, Names, L
<1>3. DOMAIN slots = {} /\ slots = [s \in DOMAIN slots |-> slots[s]]
  BY DEF Init
<1>4. ControlOK
  <2>1. queue \in [Names -> TaskQueue]
    BY <1>1, <1>2
  <2> QED
    BY <1>3, <2>1 DEF Init, Each, ControlOK
<1>5. Together
  <2>1. \A t \in Threads : At("begin", 1, t)
    BY DEF Init, Each, At
  <2>2. "begin" \in Stages
    BY DEF Stages
  <2> QED
    BY <2>1, <2>2 DEF Together
<1>6. GivenOut
  BY <1>3 DEF GivenOut
<1>7. ToSet(<<>>) = {} /\ Distinct(<<>>)
  BY DEF ToSet, Distinct
<1>8. \A t \in Threads : Holds(t) = {} /\ ~ (pc[t] = "add")
  BY DEF Init, Each, Holds, Working
<1>9. Held
  BY <1>2, <1>7, <1>8 DEF Held
<1> QED
  BY <1>4, <1>5, <1>6, <1>9 DEF TaskInv

LEMMA TaskNext == TaskInv /\ [Next]_vars => TaskInv'
<1> SUFFICES ASSUME TaskInv, [Next]_vars PROVE TaskInv'
  OBVIOUS
<1>0. ControlOK /\ Together /\ GivenOut /\ Held
  BY DEF TaskInv
<1>1. CASE Barrier
  <2>1. Together'
    BY <1>0, <1>1, BarrierStage
  <2>2. /\ pc' = after /\ UNCHANGED <<after, pass, x, queue, slots, task, fresh>>
    BY <1>1 DEF Barrier, partition, queues, local
  <2>3. ControlOK'
    BY <1>0, <2>2 DEF ControlOK
  <2>4. \A t \in Threads : Holds(t)' = {} /\ ~ (pc'[t] = "add")
    BY <1>0, <2>2 DEF ControlOK, Holds, Working
  <2>5. GivenOut' /\ Held'
    BY <1>0, <2>2, <2>4, QuietKeeps
  <2> QED
    BY <2>1, <2>3, <2>5 DEF TaskInv
<1>2. ASSUME NEW t \in Threads, prj_thread(t) PROVE TaskInv'
  <2>1. Together'
    <3>1. PICK g \in Stages, p \in {1, 2} : \A u \in Threads : At(g, p, u)
      BY <1>0 DEF Together
    <3>2. \A u \in Threads : At(g, p, u)'
      BY <1>0, <1>2, <3>1, StepStays
    <3> QED
      BY <3>2 DEF Together
  <2>2. SlotsOK' /\ GivenOut' /\ Held'
    BY <1>0, <1>2, TasksStay
  <2>3. ControlOK'
    BY <1>0, <1>2, <2>2, WhereStays DEF SlotsOK, ControlOK
  <2> QED
    BY <2>1, <2>2, <2>3 DEF TaskInv
<1>3. CASE UNCHANGED vars
  <2>1. UNCHANGED <<pc, after, pass, x, skewtask, queue, slots, task, fresh>>
    BY <1>3 DEF vars, partition, queues, local
  <2>2. ControlOK'
    BY <1>0, <2>1 DEF ControlOK
  <2>3. Together'
    <3>1. \A g \in Stages, p \in {1, 2}, t \in Threads : At(g, p, t)' <=> At(g, p, t)
      BY <2>1 DEF At, To
    <3> QED
      BY <1>0, <3>1 DEF Together
  <2>4. \A t \in Threads : Holds(t)' = Holds(t)
    BY <2>1 DEF Holds, Working
  <2>5. GivenOut' /\ Held'
    BY <1>0, <2>1, <2>4, QuietKeeps
  <2> QED
    BY <2>2, <2>3, <2>5 DEF TaskInv
<1> QED
  BY <1>1, <1>2, <1>3 DEF Next, Terminated

(* The threads are always between the same two barriers, however often the *)
(* loop over large partitions turns and whichever thread takes which task; *)
(* and a slot of a queue is given out once and held in one place.          *)
THEOREM TasksCorrect == Spec => []TaskInv
BY TaskInit, TaskNext, PTL DEF Spec

LEMMA JoinedDistinct ==
    ASSUME NEW S, NEW a \in Seq(S), NEW b \in Seq(S), Distinct(a), Distinct(b),
           ToSet(a) \cap ToSet(b) = {}
    PROVE  a \o b \in Seq(S) /\ Distinct(a \o b) /\ ToSet(a \o b) = ToSet(a) \cup ToSet(b)
<1> DEFINE c == a \o b
<1>1. /\ c \in Seq(S) /\ Len(a) \in Nat /\ Len(b) \in Nat
      /\ DOMAIN c = 1 .. Len(a) + Len(b) /\ DOMAIN a = 1 .. Len(a) /\ DOMAIN b = 1 .. Len(b)
      /\ \A k \in 1 .. Len(a) + Len(b) : c[k] = IF k <= Len(a) THEN a[k] ELSE b[k - Len(a)]
  OBVIOUS
<1> HIDE DEF c
<1>2. ASSUME NEW k \in DOMAIN c
      PROVE  \/ k \in DOMAIN a /\ c[k] = a[k] /\ c[k] \in ToSet(a)
             \/ /\ k \notin DOMAIN a /\ k - Len(a) \in DOMAIN b /\ c[k] = b[k - Len(a)]
                /\ c[k] \in ToSet(b)
  <2>1. CASE k <= Len(a)
    BY <1>1, <2>1 DEF ToSet
  <2>2. CASE ~ (k <= Len(a))
    <3>1. k \notin DOMAIN a /\ k - Len(a) \in DOMAIN b /\ c[k] = b[k - Len(a)]
      BY <1>1, <2>2
    <3> QED
      BY <3>1 DEF ToSet
  <2> QED
    BY <2>1, <2>2
<1>3. ToSet(c) = ToSet(a) \cup ToSet(b)
  <2>1. \A k \in DOMAIN a : k \in DOMAIN c /\ c[k] = a[k]
    BY <1>1
  <2>2. \A k \in DOMAIN b : k + Len(a) \in DOMAIN c /\ c[k + Len(a)] = b[k]
    BY <1>1
  <2> QED
    BY <1>2, <2>1, <2>2 DEF ToSet
<1>4. Distinct(c)
  <2> SUFFICES ASSUME NEW k \in DOMAIN c, NEW j \in DOMAIN c, c[k] = c[j] PROVE k = j
    BY DEF Distinct
  <2>1. CASE k \in DOMAIN a /\ j \in DOMAIN a
    BY <1>2, <2>1 DEF Distinct
  <2>2. CASE k \notin DOMAIN a /\ j \notin DOMAIN a
    <3>1. k - Len(a) = j - Len(a)
      BY <1>2, <2>2 DEF Distinct
    <3> QED
      BY <1>1, <3>1
  <2>3. CASE ~ (k \in DOMAIN a <=> j \in DOMAIN a)
    BY <1>2, <2>3
  <2> QED
    BY <2>1, <2>2, <2>3
<1> QED
  BY <1>1, <1>3, <1>4 DEF c

(* No thread is at a call on a queue while the first works on the queues   *)
(* without locks, and a task is in one queue, once, or in one thread's     *)
(* hands.                                                                  *)
THEOREM TasksHeldOnceHolds == Spec => []TasksHeldOnce
<1>1. TaskInv => TasksHeldOnce
  <2> SUFFICES ASSUME TaskInv PROVE TasksHeldOnce
    OBVIOUS
  <2>0. ControlOK /\ Together /\ Held
    BY DEF TaskInv
  <2>1. \A t \in Threads : pc[t] \in {"make", "split", "move"} =>
          \A u \in Threads \ {t} : pc[u] \notin {"part", "offer", "add", "join", "make", "split", "move"}
    BY <2>0, Alone
  <2> DEFINE all == queue["part"].list \o queue["join"].list \o queue["skew"].list
             hands == InHands \cup {t \in Threads : pc[t] \in {"offer", "add"}}
  <2>2. Distinct(all) /\ ToSet(all) = ToSet(L("part")) \cup ToSet(L("join")) \cup ToSet(L("skew"))
    <3>1. /\ \A q \in Names : L(q) \in Seq(SlotName) /\ Distinct(L(q))
          /\ \A q, r \in Names : q # r => ToSet(L(q)) \cap ToSet(L(r)) = {}
      BY <2>0 DEF ControlOK, TaskQueue, L, Held
    <3> DEFINE pj == L("part") \o L("join")
    <3>2. /\ pj \in Seq(SlotName) /\ Distinct(pj)
          /\ ToSet(pj) = ToSet(L("part")) \cup ToSet(L("join"))
      BY <3>1, JoinedDistinct DEF Names
    <3> HIDE DEF pj
    <3>3. ToSet(pj) \cap ToSet(L("skew")) = {}
      BY <3>1, <3>2 DEF Names
    <3>4. /\ Distinct(pj \o L("skew"))
          /\ ToSet(pj \o L("skew")) = ToSet(pj) \cup ToSet(L("skew"))
      BY <3>1, <3>2, <3>3, JoinedDistinct DEF Names
    <3> QED
      BY <3>2, <3>4 DEF pj, L
  <2>3. \A t \in hands : t \in Threads /\ task[t] \in Holds(t)
    BY DEF InHands, Holds, Working
  <2> HIDE DEF all, hands
  <2>4. IsInjective(all)
    BY <2>2 DEF IsInjective, Distinct
  <2>5. \A t \in hands : task[t] \notin ToSet(all)
    <3>1. \A t \in hands, q \in Names : task[t] \notin ToSet(L(q))
      BY <2>0, <2>3 DEF Held
    <3> QED
      BY <2>2, <3>1 DEF Names
  <2>6. \A t, u \in hands : t # u => task[t] # task[u]
    BY <2>0, <2>3 DEF Held
  <2> QED
    BY <2>1, <2>4, <2>5, <2>6 DEF TasksHeldOnce, all, hands
<1> QED
  BY <1>1, TasksCorrect, PTL

-----------------------------------------------------------------------------
(* The invariant about ranges: what is laid out where, and by which sums.  *)

Both == {"R", "S"}
Extent == [start : Nat, n : Nat]
TaskOf == [R : Extent, S : Extent, side : {"rel", "tmp"}]

IsPart(s) == slots[s].side = "tmp"
IsJoin(s) == slots[s].side = "rel"

(* Where the tuples of y in a task end, and the region a partition has for *)
(* its clusters and the gaps between them.                                 *)
Past(s, y) == slots[s][y].start + slots[s][y].n
End(s, y) == Past(s, y) + PADDING_TUPLES

Shape ==
    /\ input \in Inputs /\ i \in [Threads -> Nat]
    /\ DOMAIN tuples = Both
    /\ \A y \in Both : DOMAIN tuples[y] = {"rel", "tmp"}
    /\ \A y \in Both, side \in {"rel", "tmp"} : DOMAIN tuples[y][side] = 0 .. ArraySize(y) - 1
    /\ DOMAIN hist = Both /\ \A y \in Both : DOMAIN hist[y] = Threads
    /\ DOMAIN output = Threads /\ \A t \in Threads : DOMAIN output[t] = Both

(* The regions of partitions are apart and inside the arrays; so are the   *)
(* tuples of R in the joins, unless they are the same.                     *)
Laid ==
    /\ \A s \in DOMAIN slots : slots[s] \in TaskOf
    /\ \A s \in DOMAIN slots, y \in Both :
         (IF IsPart(s) THEN End(s, y) ELSE Past(s, y)) <= ArraySize(y)
    /\ \A a, b \in DOMAIN slots : a # b /\ IsPart(a) /\ IsPart(b) =>
         \A y \in Both : End(a, y) <= slots[b][y].start \/ End(b, y) <= slots[a][y].start
    /\ \A a, b \in DOMAIN slots : a # b /\ IsJoin(a) /\ IsJoin(b) =>
         \/ slots[a].R = slots[b].R
         \/ Past(a, "R") <= slots[b].R.start \/ Past(b, "R") <= slots[a].R.start

(* No join has tuples in the region of partition s, from a position on.    *)
ClearIn(tasks, s, y, from) ==
    \A b \in DOMAIN tasks : tasks[b].side = "rel" =>
        \/ tasks[b][y].start + tasks[b][y].n <= from
        \/ tasks[s][y].start + tasks[s][y].n + PADDING_TUPLES <= tasks[b][y].start
Clear(s, y, from) == ClearIn(slots, s, y, from)

Unread == \A a \in Live, y \in Both : IsPart(a) => Clear(a, y, slots[a][y].start)

(* Whether a thread is in a partitioning pass, how many tuples that takes, *)
(* into how many clusters, how far apart.                                  *)
InPass(t) ==
    \/ pc[t] \in {"start", "hist", "copy"}
    \/ pc[t] = "barrier" /\ after[t] \in {"hist", "copy", "make", "made", "split", "skew"}
Amount(t, y) == IF pass[t] = 1 THEN Len(input[y]) ELSE slots[skewtask][y].n
Clusters(t) == IF pass[t] = 1 THEN FANOUT_PASS1 ELSE FANOUT_PASS2
Gap(t) == IF pass[t] = 1 THEN PADDING_TUPLES ELSE SMALL_PADDING_TUPLES
ShareOf(t, n) == IF t = nthreads - 1 THEN n - t * (n \div nthreads) ELSE n \div nthreads

Counted(t, y) ==
    \/ y = "R" /\ x[t] = "S"
    \/ x[t] = y /\ pc[t] \notin {"start", "hist"} /\ ~ To(t, "hist")

Summed(t, y) ==
    \A c \in 0 .. Clusters(t) - 1 :
        /\ hist[y][t][c] \in Nat /\ hist[y][t][c] <= ShareOf(t, Amount(t, y))
        /\ c > 0 => hist[y][t][c - 1] <= hist[y][t][c]

Histogrammed(t) ==
    InPass(t) =>
        /\ pass[t] = 2 => skewtask # NoSlot
        /\ \A y \in Both : IF Counted(t, y) THEN Summed(t, y) ELSE hist[y][t] = Zero(Clusters(t))

Histograms == \A t \in Threads : Histogrammed(t)

(* The first thread's output is where the clusters start.                  *)
Parted(y, F, P, n) ==
    /\ \A c \in 0 .. F : output[0][y][c] \in Nat
    /\ output[0][y][F] = n + F * P
    /\ \A c \in 0 .. F - 1 : output[0][y][c] + P <= output[0][y][c + 1]

Making == pc[0] = "make" \/ To(0, "make")
Parting == pc[0] = "split" \/ To(0, "split")

Outputs ==
    /\ Making => pass[0] = 1
    /\ To(0, "make") \/ To(0, "split") => i[0] = 0
    /\ Parting => pass[0] = 2 /\ skewtask # NoSlot
    /\ InPass(0) \/ Making \/ Parting => \A y \in Both :
         IF Making \/ Parting \/ (y = "R" /\ x[0] = "S")
         THEN Parted(y, Clusters(0), Gap(0), Amount(0, y))
         ELSE output[0][y] = Zero(Clusters(0) + 1)

Partitions ==
    /\ InPass(0) /\ pass[0] = 1 => DOMAIN slots = {}
    /\ pc[0] = "make" =>
         /\ i[0] <= FANOUT_PASS1
         /\ \A s \in DOMAIN slots : IsPart(s) /\ \A y \in Both : End(s, y) <= output[0][y][i[0]]

(* A thread that is yet to leave the loop over partitioning tasks.         *)
Early(t) ==
    \/ pc[t] \in {"start", "make", "made", "part", "cluster", "offer", "add"}
    \/ pc[t] \in {"hist", "copy"} /\ pass[t] = 1
    \/ pc[t] = "barrier" /\ after[t] \in {"make", "made", "part"}
    \/ pc[t] = "barrier" /\ after[t] \in {"hist", "copy"} /\ pass[t] = 1

(* A slot that is in a queue or a thread's hands; the large partition's is *)
(* in neither.                                                             *)
Placed(s) == (\E q \in Names : s \in ToSet(L(q))) \/ (\E t \in Threads : s \in Holds(t))

SkewHeld ==
    skewtask # NoSlot => skewtask \in DOMAIN slots /\ IsPart(skewtask) /\ ~ Placed(skewtask)

Kinds ==
    /\ \A s \in ToSet(L("skew")) : IsPart(s)
    /\ (\E t \in Threads : Early(t)) => \A s \in ToSet(L("part")) : IsPart(s)
    /\ \A t \in Threads : pc[t] \in {"cluster", "offer", "add"} => IsPart(task[t])
    /\ SkewHeld

(* How far the thread has come in making the joins of its partition.       *)
Reached(t, y) ==
    LET c == IF pc[t] = "add" THEN i[t] + 1 ELSE i[t]
    IN  slots[task[t]][y].start + SumBelow(output[t][y], c) + c * SMALL_PADDING_TUPLES

Offers(t) ==
    pc[t] \in {"offer", "add"} =>
        /\ i[t] <= FANOUT_PASS2 /\ (pc[t] = "add" => i[t] < FANOUT_PASS2)
        /\ \A y \in Both :
             /\ \A c \in 0 .. FANOUT_PASS2 : output[t][y][c] \in Nat
             /\ SumBelow(output[t][y], FANOUT_PASS2) <= slots[task[t]][y].n
             /\ Clear(task[t], y, Reached(t, y))

Offering == \A t \in Threads : Offers(t)

Splitting ==
    pc[0] = "split" =>
        /\ i[0] <= FANOUT_PASS2
        /\ \A y \in Both : Clear(skewtask, y, slots[skewtask][y].start + output[0][y][i[0]])

RangesOK == Laid /\ Unread /\ Kinds /\ Offering /\ Splitting /\ Partitions

RangeInv ==
    Shape /\ Histograms /\ Outputs /\ RangesOK

-----------------------------------------------------------------------------
(* Arithmetic.                                                             *)

LEMMA Division ==
    ASSUME NEW a \in Nat, NEW b \in Nat \ {0}
    PROVE  /\ a \div b \in Nat /\ a % b \in 0 .. b - 1
           /\ a = b * (a \div b) + (a % b)
OBVIOUS

LEMMA Multiples ==
    ASSUME NEW a \in Nat, NEW b \in Nat, NEW c \in Nat, a < b
    PROVE  a * c \in Nat /\ a * c + c <= b * c
<1>1. (a + 1) * c = a * c + c /\ a * c \in Nat
  OBVIOUS
<1>2. (a + 1) * c <= b * c
  OBVIOUS
<1> QED
  BY <1>1, <1>2

LEMMA DisjointUnion ==
    ASSUME NEW S, NEW T, IsFiniteSet(S), IsFiniteSet(T), S \cap T = {}
    PROVE  Cardinality(S \cup T) = Cardinality(S) + Cardinality(T)
<1>1. Cardinality(S \cup T) = Cardinality(S) + Cardinality(T) - Cardinality(S \cap T)
  BY FS_Union
<1>2. Cardinality(S \cap T) = 0
  BY FS_EmptySet
<1>3. Cardinality(S) \in Nat /\ Cardinality(T) \in Nat
  BY FS_CardinalityType
<1> QED
  BY <1>1, <1>2, <1>3

(* A sum of differences.                                                   *)
LEMMA SumOfDifferences ==
    ASSUME NEW m \in Int, NEW n \in Int, m <= n, NEW f, NEW g,
           \A k \in m .. n : g[k] \in Int,
           \A k \in m .. n - 1 : f[k] = g[k + 1] - g[k]
    PROVE  SumOver(f, m, n) = g[n] - g[m]
<1> DEFINE E(s) == s = [k \in m .. n |-> IF k = m THEN 0 ELSE s[k - 1] + f[k - 1]]
           h == [k \in m .. n |-> g[k] - g[m]]
           sums == CHOOSE s : E(s)
<1>1. E(h)
  <2>1. ASSUME NEW k \in m .. n, k # m
        PROVE  g[k] - g[m] = (g[k - 1] - g[m]) + f[k - 1]
    <3>1. k - 1 \in m .. n - 1 /\ k - 1 \in m .. n /\ (k - 1) + 1 = k /\ m \in m .. n
      BY <2>1
    <3>2. f[k - 1] = g[k] - g[k - 1]
      BY <3>1
    <3> QED
      BY <3>1, <3>2
  <2>2. ASSUME NEW k \in m .. n, k # m PROVE h[k - 1] = g[k - 1] - g[m]
    <3>1. k - 1 \in m .. n
      BY <2>2
    <3> QED
      BY <3>1
  <2>3. ASSUME NEW k \in m .. n
        PROVE  g[k] - g[m] = IF k = m THEN 0 ELSE h[k - 1] + f[k - 1]
    <3>1. CASE k = m
      BY <3>1
    <3>2. CASE k # m
      BY <2>1, <2>2, <3>2
    <3> QED
      BY <3>1, <3>2
  <2> QED
    BY <2>3, Zenon
<1>2. E(sums)
  BY <1>1, Zenon
<1>3. SumOver(f, m, n) = sums[n]
  BY DEF SumOver
<1> HIDE DEF sums
<1>4. ASSUME NEW k \in m .. n
      PROVE  sums[k] = IF k = m THEN 0 ELSE sums[k - 1] + f[k - 1]
  BY <1>2, Zenon
<1>5. ASSUME NEW k \in m .. n
      PROVE  h[k] = IF k = m THEN 0 ELSE h[k - 1] + f[k - 1]
  BY <1>1, Zenon
<1> DEFINE S == {d \in Nat : m + d <= n => sums[m + d] = h[m + d]}
<1>6. 0 \in S
  <2>1. m \in m .. n /\ m + 0 = m
    OBVIOUS
  <2> QED
    BY <1>4, <1>5, <2>1
<1>7. ASSUME NEW d \in Nat, d \in S PROVE d + 1 \in S
  <2> SUFFICES ASSUME m + (d + 1) <= n PROVE sums[m + (d + 1)] = h[m + (d + 1)]
    OBVIOUS
  <2>1. m + (d + 1) \in m .. n /\ (m + (d + 1)) - 1 = m + d /\ m + (d + 1) # m
    OBVIOUS
  <2>2. sums[m + d] = h[m + d]
    BY <1>7
  <2>3. sums[m + (d + 1)] = sums[m + d] + f[m + d]
    BY <1>4, <2>1
  <2>4. h[m + (d + 1)] = h[m + d] + f[m + d]
    <3> HIDE DEF h
    <3> QED
      BY <1>5, <2>1
  <2> HIDE DEF h
  <2> QED
    BY <2>2, <2>3, <2>4
<1> HIDE DEF S
<1>8. Nat \subseteq S
  BY <1>6, <1>7, NatInd
<1>9. n - m \in S
  BY <1>8
<1>10. sums[n] = h[n] /\ n \in m .. n /\ m + (n - m) = n
  BY <1>9 DEF S
<1> QED
  BY <1>3, <1>10

-----------------------------------------------------------------------------
(* Sums.                                                                   *)

(* The first sums of a function on 0 .. n - 1.                             *)
LEMMA Sums ==
    ASSUME NEW n \in Nat, NEW f, \A k \in 0 .. n - 1 : f[k] \in Nat
    PROVE  /\ SumOver(f, 0, 0) = 0
           /\ \A k \in 0 .. n : SumOver(f, 0, k) \in Nat
           /\ \A k \in 0 .. n - 1 : SumOver(f, 0, k + 1) = SumOver(f, 0, k) + f[k]
<1> DEFINE X == Nat \X Nat
           v == [k \in Nat |-> IF k \in 0 .. n - 1 THEN f[k] ELSE 0]
           F == [z \in X |-> <<z[1] + 1, z[2] + v[z[1]]>>]
<1>1. \A k \in Nat : v[k] \in Nat
  OBVIOUS
<1> HIDE DEF v
<1>2. F \in [X -> X] /\ <<0, 0>> \in X /\ \A k, m \in Nat : F[<<k, m>>] = <<k + 1, m + v[k]>>
  BY <1>1
<1>3. PICK W \in [Nat -> X] : W[0] = <<0, 0>> /\ \A k \in Nat : W[k + 1] = F[W[k]]
  <2> DEFINE first == <<0, 0>>
  <2>1. first \in X /\ F \in [X -> X]
    BY <1>2
  <2> HIDE DEF X, first, F
  <2>2. \E W \in [Nat -> X] : W[0] = first /\ \A k \in Nat : W[k + 1] = F[W[k]]
    BY <2>1, Iteration, Z3
  <2> QED
    BY <2>2 DEF first
<1> HIDE DEF F
<1>4. \A k \in Nat : W[k][1] = k
  <2> DEFINE T == {k \in Nat : W[k][1] = k}
  <2>1. 0 \in T
    BY <1>3
  <2>2. ASSUME NEW k \in Nat, k \in T PROVE k + 1 \in T
    <3>0. W[k] \in Nat \X Nat /\ W[k][1] = k
      BY <1>3, <2>2
    <3>1. W[k] = <<k, W[k][2]>> /\ W[k][2] \in Nat
      BY <3>0
    <3>2. W[k + 1] = <<k + 1, W[k][2] + v[k]>>
      BY <1>2, <1>3, <3>1
    <3> QED
      BY <3>2
  <2> HIDE DEF T
  <2>3. Nat \subseteq T
    BY <2>1, <2>2, NatInd
  <2> QED
    BY <2>3 DEF T
<1> DEFINE g == [k \in Nat |-> W[k][2]]
<1>5. g[0] = 0 /\ \A k \in Nat : g[k] \in Nat /\ g[k + 1] = g[k] + v[k]
  <2>1. g[0] = 0 /\ \A k \in Nat : g[k] \in Nat
    <3>1. \A k \in Nat : W[k] \in Nat \X Nat
      BY <1>3
    <3>2. \A k \in Nat : W[k][2] \in Nat
      BY <3>1
    <3> QED
      BY <1>3, <3>2
  <2>2. ASSUME NEW k \in Nat PROVE g[k + 1] = g[k] + v[k]
    <3>1. W[k] = <<k, W[k][2]>> /\ W[k][2] \in Nat
      <4>1. W[k] \in Nat \X Nat
        BY <1>3
      <4> QED
        BY <1>4, <4>1
    <3>2. W[k + 1] = <<k + 1, W[k][2] + v[k]>>
      BY <1>2, <1>3, <3>1
    <3> QED
      BY <3>2
  <2> QED
    BY <2>1, <2>2
<1> HIDE DEF g, X
<1>6. \A k \in 0 .. n - 1 : v[k] = f[k]
  BY DEF v
<1>7. ASSUME NEW k \in 0 .. n PROVE SumOver(f, 0, k) = g[k]
  <2>1. /\ \A j \in 0 .. k : g[j] \in Int
        /\ \A j \in 0 .. k - 1 : f[j] = g[j + 1] - g[j]
    <3>1. \A j \in 0 .. k - 1 : j \in 0 .. n - 1 /\ j \in Nat
      OBVIOUS
    <3>2. ASSUME NEW j \in 0 .. k - 1 PROVE f[j] = g[j + 1] - g[j]
      <4>1. g[j + 1] = g[j] + f[j] /\ g[j] \in Nat /\ f[j] \in Nat
        BY <1>5, <1>6, <3>1
      <4> QED
        BY <4>1
    <3>3. \A j \in 0 .. k : j \in Nat
      OBVIOUS
    <3>4. ASSUME NEW j \in 0 .. k PROVE g[j] \in Int
      <4>1. g[j] \in Nat
        BY <1>5, <3>3
      <4> QED
        BY <4>1
    <3> QED
      BY <3>2, <3>4
  <2> DEFINE z == 0
  <2>2. /\ z \in Int /\ z <= k /\ k \in Int
        /\ \A j \in z .. k : g[j] \in Int
        /\ \A j \in z .. k - 1 : f[j] = g[j + 1] - g[j]
    BY <2>1
  <2> HIDE DEF z
  <2>3. SumOver(f, z, k) = g[k] - g[z]
    BY <2>2, SumOfDifferences
  <2>4. g[k] \in Nat /\ k \in Nat
    BY <1>5
  <2> QED
    BY <1>5, <2>3, <2>4 DEF z
<1> QED
  <2>0. 0 \in 0 .. n /\ g[0] = 0 /\ \A k \in 0 .. n : k \in Nat
    BY <1>5
  <2>1. SumOver(f, 0, 0) = 0
    BY <1>7, <2>0
  <2>2. \A k \in 0 .. n : SumOver(f, 0, k) \in Nat
    BY <1>5, <1>7, <2>0
  <2>3. ASSUME NEW k \in 0 .. n - 1 PROVE SumOver(f, 0, k + 1) = SumOver(f, 0, k) + f[k]
    <3>1. k \in 0 .. n /\ k + 1 \in 0 .. n /\ k \in Nat
      OBVIOUS
    <3> QED
      BY <1>5, <1>6, <1>7, <3>1
  <2> QED
    BY <2>1, <2>2, <2>3

LEMMA SumsGrow ==
    ASSUME NEW n \in Nat, NEW f, \A k \in 0 .. n - 1 : f[k] \in Nat
    PROVE  \A k, m \in 0 .. n : k <= m => SumOver(f, 0, k) <= SumOver(f, 0, m)
<1> DEFINE s(k) == SumOver(f, 0, k)
<1>1. /\ \A k \in 0 .. n : s(k) \in Nat
      /\ \A k \in 0 .. n - 1 : s(k + 1) = s(k) + f[k]
  BY Sums
<1> HIDE DEF s
<1> SUFFICES ASSUME NEW k \in 0 .. n PROVE \A m \in 0 .. n : k <= m => s(k) <= s(m)
  BY DEF s
<1> DEFINE T == {j \in Nat : k + j <= n => s(k) <= s(k + j)}
<1>2. 0 \in T
  BY <1>1
<1>3. ASSUME NEW j \in Nat, j \in T PROVE j + 1 \in T
  <2> SUFFICES ASSUME k + (j + 1) <= n PROVE s(k) <= s(k + (j + 1))
    OBVIOUS
  <2>1. k + j \in 0 .. n - 1 /\ k + (j + 1) = (k + j) + 1 /\ k + j \in 0 .. n
    OBVIOUS
  <2>2. s((k + j) + 1) = s(k + j) + f[k + j] /\ f[k + j] \in Nat /\ s(k + j) \in Nat
    BY <1>1, <2>1
  <2>3. s(k) <= s(k + j)
    BY <1>3
  <2>4. s(k) \in Nat
    BY <1>1
  <2> QED
    BY <2>1, <2>2, <2>3, <2>4
<1> HIDE DEF T
<1>4. Nat \subseteq T
  BY <1>2, <1>3, NatInd
<1>5. ASSUME NEW m \in 0 .. n, k <= m PROVE s(k) <= s(m)
  <2>1. m - k \in T /\ k + (m - k) = m
    BY <1>4, <1>5
  <2> QED
    BY <2>1 DEF T
<1> QED
  BY <1>5

(* What is at most a bound everywhere has at most the sum of the bounds.   *)
LEMMA SumsLess ==
    ASSUME NEW n \in Nat, NEW f, NEW h,
           \A k \in 0 .. n - 1 : f[k] \in Nat /\ h[k] \in Nat /\ f[k] <= h[k]
    PROVE  SumOver(f, 0, n) <= SumOver(h, 0, n)
<1>1. /\ SumOver(f, 0, 0) = 0 /\ SumOver(h, 0, 0) = 0
      /\ \A k \in 0 .. n : SumOver(f, 0, k) \in Nat /\ SumOver(h, 0, k) \in Nat
      /\ \A k \in 0 .. n - 1 : /\ SumOver(f, 0, k + 1) = SumOver(f, 0, k) + f[k]
                               /\ SumOver(h, 0, k + 1) = SumOver(h, 0, k) + h[k]
  <2>1. \A k \in 0 .. n - 1 : f[k] \in Nat
    OBVIOUS
  <2>2. \A k \in 0 .. n - 1 : h[k] \in Nat
    OBVIOUS
  <2> QED
    BY <2>1, <2>2, Sums
<1> DEFINE T == {k \in Nat : k <= n => SumOver(f, 0, k) <= SumOver(h, 0, k)}
<1>2. 0 \in T
  BY <1>1
<1>3. ASSUME NEW k \in Nat, k \in T PROVE k + 1 \in T
  <2> SUFFICES ASSUME k + 1 <= n PROVE SumOver(f, 0, k + 1) <= SumOver(h, 0, k + 1)
    OBVIOUS
  <2>1. k \in 0 .. n - 1 /\ k \in 0 .. n
    OBVIOUS
  <2>2. SumOver(f, 0, k) <= SumOver(h, 0, k)
    BY <1>3
  <2>3. /\ SumOver(f, 0, k) \in Nat /\ SumOver(h, 0, k) \in Nat
        /\ f[k] \in Nat /\ h[k] \in Nat /\ f[k] <= h[k]
        /\ SumOver(f, 0, k + 1) = SumOver(f, 0, k) + f[k]
        /\ SumOver(h, 0, k + 1) = SumOver(h, 0, k) + h[k]
    BY <1>1, <2>1
  <2> QED
    BY <2>2, <2>3
<1> HIDE DEF T
<1>4. n \in T
  BY <1>2, <1>3, NatInd
<1> QED
  BY <1>4 DEF T

(* The shares of the threads add up to the whole.                          *)
LEMMA SharesSum ==
    ASSUME NEW n \in Nat
    PROVE  /\ \A t \in Threads : ShareOf(t, n) \in Nat
           /\ SumOver([t \in Threads |-> ShareOf(t, n)], 0, nthreads) = n
<1> DEFINE q == n \div nthreads
           f == [t \in Threads |-> ShareOf(t, n)]
<1>1. nthreads \in Nat \ {0} /\ Threads = 0 .. nthreads - 1
  BY SizesAssumption DEF Threads
<1>2. q \in Nat /\ n = nthreads * q + (n % nthreads) /\ n % nthreads \in Nat
  <2>1. n % nthreads \in 0 .. nthreads - 1 /\ q \in Nat /\ n = nthreads * q + (n % nthreads)
    BY <1>1, Division
  <2> HIDE DEF q
  <2> QED
    BY <2>1
<1> HIDE DEF q
<1>3. (nthreads - 1) * q + q = nthreads * q /\ (nthreads - 1) * q \in Nat
  BY <1>1, <1>2
<1>4. /\ \A t \in 0 .. nthreads - 2 : f[t] = q
      /\ f[nthreads - 1] = n - (nthreads - 1) * q /\ f[nthreads - 1] \in Nat
  <2>1. \A t \in 0 .. nthreads - 2 : t \in Threads /\ t # nthreads - 1
    BY <1>1
  <2>2. nthreads - 1 \in Threads
    BY <1>1
  <2>3. f[nthreads - 1] = n - (nthreads - 1) * q
    BY <2>2 DEF ShareOf, q
  <2> QED
    BY <1>1, <1>2, <1>3, <2>1, <2>3 DEF ShareOf, q
<1>5. \A t \in 0 .. nthreads - 1 : f[t] \in Nat
  <2> HIDE DEF f
  <2>1. \A t \in 0 .. nthreads - 1 : t = nthreads - 1 \/ t \in 0 .. nthreads - 2
    BY <1>1
  <2> QED
    BY <1>2, <1>4, <2>1
<1>6. \A t \in Threads : ShareOf(t, n) \in Nat
  BY <1>1, <1>5
<1> HIDE DEF f
<1>7. /\ SumOver(f, 0, 0) = 0 /\ \A k \in 0 .. nthreads : SumOver(f, 0, k) \in Nat
      /\ \A k \in 0 .. nthreads - 1 : SumOver(f, 0, k + 1) = SumOver(f, 0, k) + f[k]
  BY <1>1, <1>5, Sums
<1> DEFINE T == {k \in Nat : k <= nthreads - 1 => SumOver(f, 0, k) = k * q}
<1>8. 0 \in T
  BY <1>2, <1>7
<1>9. ASSUME NEW k \in Nat, k \in T PROVE k + 1 \in T
  <2> SUFFICES ASSUME k + 1 <= nthreads - 1 PROVE SumOver(f, 0, k + 1) = (k + 1) * q
    OBVIOUS
  <2>1. k \in 0 .. nthreads - 2 /\ k \in 0 .. nthreads - 1 /\ k <= nthreads - 1
    BY <1>1
  <2>2. SumOver(f, 0, k + 1) = k * q + q
    BY <1>4, <1>7, <1>9, <2>1
  <2>3. (k + 1) * q = k * q + q
    BY <1>2
  <2> QED
    BY <2>2, <2>3
<1> HIDE DEF T
<1>10. nthreads - 1 \in T
  BY <1>1, <1>8, <1>9, NatInd
<1>11. SumOver(f, 0, nthreads - 1) = (nthreads - 1) * q
  BY <1>10 DEF T
<1>12. /\ SumOver(f, 0, (nthreads - 1) + 1) = SumOver(f, 0, nthreads - 1) + f[nthreads - 1]
       /\ (nthreads - 1) + 1 = nthreads
  <2>1. nthreads - 1 \in 0 .. nthreads - 1
    BY <1>1
  <2> QED
    BY <1>1, <1>7, <2>1
<1>13. SumOver(f, 0, nthreads) = (nthreads - 1) * q + (n - (nthreads - 1) * q)
  BY <1>4, <1>11, <1>12
<1>14. (nthreads - 1) * q + (n - (nthreads - 1) * q) = n
  BY <1>3
<1> QED
  BY <1>6, <1>13, <1>14 DEF f

(* Counts of disjoint parts of a range add up to at most its size.         *)
LEMMA CountsSum ==
    ASSUME NEW P, IsFiniteSet(P), NEW C, NEW n \in Nat, NEW f,
           \A k \in 0 .. n - 1 : C[k] \subseteq P /\ f[k] = Cardinality(C[k]),
           \A j, k \in 0 .. n - 1 : j # k => C[j] \cap C[k] = {}
    PROVE  /\ \A k \in 0 .. n - 1 : f[k] \in Nat
           /\ \A k \in 0 .. n : SumOver(f, 0, k) \in Nat /\ SumOver(f, 0, k) <= Cardinality(P)
<1> DEFINE B(k) == UNION {C[j] : j \in 0 .. k - 1}
<1>1. Cardinality(P) \in Nat
  BY FS_CardinalityType
<1>2. /\ \A k \in 0 .. n - 1 : IsFiniteSet(C[k]) /\ Cardinality(C[k]) \in Nat
      /\ \A k \in 0 .. n : /\ IsFiniteSet(B(k)) /\ Cardinality(B(k)) \in Nat
                           /\ Cardinality(B(k)) <= Cardinality(P)
  <2>1. ASSUME NEW k \in 0 .. n - 1 PROVE IsFiniteSet(C[k]) /\ Cardinality(C[k]) \in Nat
    BY FS_Subset, FS_CardinalityType
  <2>2. ASSUME NEW k \in 0 .. n
        PROVE  /\ IsFiniteSet(B(k)) /\ Cardinality(B(k)) \in Nat
               /\ Cardinality(B(k)) <= Cardinality(P)
    <3>1. B(k) \in SUBSET P
      OBVIOUS
    <3> HIDE DEF B
    <3>2. IsFiniteSet(B(k)) /\ Cardinality(B(k)) <= Cardinality(P)
      BY <3>1, FS_Subset
    <3> QED
      BY <3>2, FS_CardinalityType
  <2> QED
    BY <2>1, <2>2
<1>3. \A k \in 0 .. n - 1 : f[k] = Cardinality(C[k])
  OBVIOUS
<1>4. \A k \in 0 .. n - 1 : f[k] \in Nat
  BY <1>2, <1>3
<1>5. /\ SumOver(f, 0, 0) = 0 /\ \A k \in 0 .. n : SumOver(f, 0, k) \in Nat
      /\ \A k \in 0 .. n - 1 : SumOver(f, 0, k + 1) = SumOver(f, 0, k) + f[k]
  BY <1>4, Sums
<1> DEFINE T == {k \in Nat : k <= n => SumOver(f, 0, k) = Cardinality(B(k))}
<1>6. 0 \in T
  <2>1. B(0) = {}
    OBVIOUS
  <2>2. Cardinality(B(0)) = 0
    BY <2>1, FS_EmptySet
  <2> QED
    BY <1>5, <2>2
<1>7. ASSUME NEW k \in Nat, k \in T PROVE k + 1 \in T
  <2> SUFFICES ASSUME k + 1 <= n PROVE SumOver(f, 0, k + 1) = Cardinality(B(k + 1))
    OBVIOUS
  <2>1. k \in 0 .. n - 1 /\ k <= n
    OBVIOUS
  <2>2. B(k + 1) = B(k) \cup C[k] /\ B(k) \cap C[k] = {}
    <3>1. 0 .. (k + 1) - 1 = 0 .. k - 1 \cup {k} /\ k \notin 0 .. k - 1
      OBVIOUS
    <3>2. B(k + 1) = B(k) \cup C[k]
      BY <3>1
    <3>3. \A j \in 0 .. k - 1 : j \in 0 .. n - 1 /\ j # k
      BY <2>1
    <3>4. \A j \in 0 .. k - 1 : C[j] \cap C[k] = {}
      BY <2>1, <3>3
    <3> QED
      BY <3>2, <3>4
  <2>3. k \in 0 .. n /\ k + 1 \in 0 .. n
    OBVIOUS
  <2> HIDE DEF B
  <2>4. Cardinality(B(k + 1)) = Cardinality(B(k)) + Cardinality(C[k])
    BY <1>2, <2>1, <2>2, <2>3, DisjointUnion
  <2> QED
    BY <1>3, <1>5, <1>7, <2>1, <2>4
<1> HIDE DEF T
<1>8. Nat \subseteq T
  BY <1>6, <1>7, NatInd
<1>9. ASSUME NEW k \in 0 .. n PROVE SumOver(f, 0, k) <= Cardinality(P)
  <2>1. k \in T
    BY <1>8
  <2>2. SumOver(f, 0, k) = Cardinality(B(k))
    BY <2>1 DEF T
  <2> HIDE DEF B
  <2> QED
    BY <1>2, <2>2
<1> QED
  BY <1>4, <1>5, <1>9

-----------------------------------------------------------------------------
(* Sizes.                                                                  *)

LEMMA PositionsCount ==
    ASSUME NEW s, s.start \in Int, s.n \in Nat
    PROVE  IsFiniteSet(Positions(s)) /\ Cardinality(Positions(s)) = s.n
<1> DEFINE a == s.start
           b == s.start + s.n - 1
<1>1. Positions(s) = a .. b
  BY DEF Positions
<1>2. a \in Int /\ b \in Int /\ (a > b => s.n = 0) /\ (~ (a > b) => b - a + 1 = s.n)
  OBVIOUS
<1> HIDE DEF a, b
<1>3. IsFiniteSet(a .. b) /\ Cardinality(a .. b) = IF a > b THEN 0 ELSE b - a + 1
  BY <1>2, FS_Interval
<1> QED
  BY <1>1, <1>2, <1>3

LEMMA PowerOfTwo == ASSUME NEW n \in Nat PROVE 2 ^ n \in Nat \ {0}
<1> DEFINE S == 1 .. n
<1>1. IsFiniteSet(S) /\ Cardinality(S) = n
  <2>1. 1 \in Int /\ n \in Int /\ (1 > n => n = 0) /\ n - 1 + 1 = n
    OBVIOUS
  <2> QED
    BY <2>1, FS_Interval
<1> HIDE DEF S
<1>2. IsFiniteSet(SUBSET S) /\ Cardinality(SUBSET S) = 2 ^ n
  BY <1>1, FS_SUBSET
<1>3. SUBSET S # {}
  OBVIOUS
<1>4. Cardinality(SUBSET S) \in Nat /\ Cardinality(SUBSET S) # 0
  BY <1>2, <1>3, FS_CardinalityType, FS_EmptySet
<1> QED
  BY <1>2, <1>4

LEMMA Fanouts ==
    /\ FANOUT_PASS1 \in Nat \ {0} /\ FANOUT_PASS2 \in Nat \ {0}
    /\ SMALL_PADDING_TUPLES \in Nat /\ PADDING_TUPLES \in Nat
    /\ PADDING_TUPLES = FANOUT_PASS2 * SMALL_PADDING_TUPLES + SMALL_PADDING_TUPLES
<1>1. Bits1 \in Nat /\ Bits2 \in Nat
  BY SizesAssumption DEF Bits1, Bits2
<1>2. FANOUT_PASS1 \in Nat \ {0} /\ FANOUT_PASS2 \in Nat \ {0}
  BY <1>1, PowerOfTwo DEF FANOUT_PASS1, FANOUT_PASS2
<1>3. SMALL_PADDING_TUPLES \in Nat
  BY SizesAssumption
<1> DEFINE F == FANOUT_PASS2
           P == SMALL_PADDING_TUPLES
<1>4. F \in Nat /\ P \in Nat
  BY <1>2, <1>3
<1>5. PADDING_TUPLES = P * (F + 1)
  BY DEF PADDING_TUPLES
<1> HIDE DEF F, P
<1>6. P * (F + 1) = F * P + P /\ F * P \in Nat
  BY <1>4
<1> QED
  BY <1>2, <1>3, <1>4, <1>5, <1>6 DEF F, P

LEMMA Inputs2 == ASSUME Shape PROVE \A y \in Both : Len(input[y]) \in Nat /\ ArraySize(y) \in Nat
<1>1. input \in Inputs
  BY DEF Shape
<1>2. input.R \in Seq(Nat) /\ input.S \in Seq(Nat)
  BY <1>1, InputsAssumption
<1>3. \A y \in Both : Len(input[y]) \in Nat
  BY <1>2 DEF Both
<1>4. PADDING_TUPLES * FANOUT_PASS1 \in Nat
  BY Fanouts
<1> QED
  BY <1>3, <1>4 DEF ArraySize

LEMMA ShareFacts ==
    ASSUME NEW t \in Threads, NEW s, s.n \in Nat, s.start \in Int
    PROVE  Share(t, s).start \in Int /\ Share(t, s).n = ShareOf(t, s.n) /\ ShareOf(t, s.n) \in Nat
<1> DEFINE n == s.n
<1>1. s.n \div nthreads \in Nat /\ t \in Nat /\ nthreads \in Nat
  <2>1. nthreads \in Nat \ {0} /\ n \in Nat
    BY SizesAssumption
  <2> HIDE DEF n
  <2>2. n \div nthreads \in Nat
    BY <2>1, Division
  <2> QED
    BY <2>1, <2>2 DEF n, Threads
<1>2. Share(t, s).start = s.start + t * (s.n \div nthreads)
  BY DEF Share
<1>3. Share(t, s).n = ShareOf(t, s.n)
  BY DEF Share, ShareOf
<1>4. ShareOf(t, n) \in Nat
  <2>1. n \in Nat
    OBVIOUS
  <2> HIDE DEF n
  <2> QED
    BY <2>1, SharesSum
<1>5. t * (s.n \div nthreads) \in Nat
  BY <1>1
<1> QED
  BY <1>2, <1>3, <1>4, <1>5 DEF n

(* What a partitioning pass has to do.                                     *)
LEMMA PartFacts ==
    ASSUME NEW t \in Threads, pass[t] \in {1, 2}
    PROVE  /\ 2 ^ Part(t).D = Clusters(t) /\ Part(t).padding = Gap(t)
           /\ Part(t).n = Amount(t, x[t])
           /\ Part(t).start = IF pass[t] = 1 THEN 0 ELSE slots[skewtask][x[t]].start
           /\ Clusters(t) \in Nat \ {0} /\ Gap(t) \in Nat
<1>1. Clusters(t) \in Nat \ {0} /\ Gap(t) \in Nat
  BY Fanouts DEF Clusters, Gap
<1>2. 2 ^ Part(t).D = Clusters(t) /\ Part(t).padding = Gap(t)
  BY DEF Part, Clusters, Gap, FANOUT_PASS1, FANOUT_PASS2
<1>3. /\ Part(t).n = Amount(t, x[t])
      /\ Part(t).start = IF pass[t] = 1 THEN 0 ELSE slots[skewtask][x[t]].start
  BY DEF Part, Amount
<1> QED
  BY <1>1, <1>2, <1>3

-----------------------------------------------------------------------------
(* The histograms, and the starts of the clusters they give.               *)

(* A thread's histogram of its share.                                      *)
LEMMA OwnCounts ==
    ASSUME Shape, ControlOK, NEW t \in Threads, Histogram(t),
           hist[x[t]][t] = Zero(Clusters(t)),
           Amount(t, x[t]) \in Nat, Part(t).start \in Int
    PROVE  /\ \A c \in 0 .. Clusters(t) - 1 :
                /\ hist'[x[t]][t][c] \in Nat
                /\ hist'[x[t]][t][c] <= ShareOf(t, Amount(t, x[t]))
                /\ c > 0 => hist'[x[t]][t][c - 1] <= hist'[x[t]][t][c]
           /\ \A y \in Both, u \in Threads :
                ~ (y = x[t] /\ u = t) => hist'[y][u] = hist[y][u]
           /\ DOMAIN hist' = Both /\ \A y \in Both : DOMAIN hist'[y] = Threads
<1> DEFINE y == x[t]
           p == Part(t)
           s == Share(t, p)
           F == Clusters(t)
           P == Positions(s)
           g(q) == HASH_BIT_MODULO(Key(y, tuples[y][p.side][q]), p.D, p.R)
           C == [c \in 0 .. F - 1 |-> {q \in P : g(q) = c}]
           my == [c \in DOMAIN hist[y][t] |->
                    hist[y][t][c] + Cardinality(InCluster(y, p.side, s, c, p.D, p.R))]
<1>0. y \in Both /\ pass[t] \in {1, 2} /\ F \in Nat \ {0} /\ p.n = Amount(t, y)
  BY PartFacts DEF ControlOK, Both
<1>1. hist' = [hist EXCEPT ![y][t] = [c \in DOMAIN @ |-> SumOver(my, 0, c + 1)]]
  BY DEF Histogram
<1>2. s.start \in Int /\ s.n = ShareOf(t, p.n) /\ s.n \in Nat
  <2>1. p.n \in Nat /\ p.start \in Int
    BY <1>0
  <2> HIDE DEF p
  <2> QED
    BY <2>1, ShareFacts
<1>3. IsFiniteSet(P) /\ Cardinality(P) = s.n
  <2> HIDE DEF s
  <2> QED
    BY <1>2, PositionsCount
<1>4. \A c \in 0 .. F - 1 : InCluster(y, p.side, s, c, p.D, p.R) = C[c]
  BY DEF InCluster
<1>5. DOMAIN hist[y][t] = 0 .. F - 1 /\ \A c \in 0 .. F - 1 : hist[y][t][c] = 0
  BY DEF Zero
<1>6. /\ \A c \in 0 .. F - 1 : C[c] \subseteq P
      /\ \A c, d \in 0 .. F - 1 : c # d => C[c] \cap C[d] = {}
  <2> HIDE DEF P, F, g
  <2> QED
    OBVIOUS
<1> HIDE DEF P, g, C
<1>7. \A c \in 0 .. F - 1 : my[c] = Cardinality(C[c])
  <2> SUFFICES ASSUME NEW c \in 0 .. F - 1 PROVE my[c] = Cardinality(C[c])
    OBVIOUS
  <2> HIDE DEF F, y, s, p
  <2>1. my[c] = 0 + Cardinality(InCluster(y, p.side, s, c, p.D, p.R))
    BY <1>5
  <2>2. C[c] \subseteq P
    BY <1>6
  <2>3. Cardinality(C[c]) \in Nat
    BY <1>3, <2>2, FS_Subset, FS_CardinalityType
  <2> HIDE DEF my
  <2> QED
    BY <1>4, <2>1, <2>3
<1> HIDE DEF my, s, p, F
<1>8. /\ \A c \in 0 .. F - 1 : my[c] \in Nat
      /\ \A c \in 0 .. F : SumOver(my, 0, c) \in Nat /\ SumOver(my, 0, c) <= s.n
  <2>1. F \in Nat /\ Cardinality(P) = s.n
    BY <1>0, <1>3
  <2>2. \A c \in 0 .. F - 1 : C[c] \subseteq P /\ my[c] = Cardinality(C[c])
    BY <1>6, <1>7
  <2>3. /\ \A c \in 0 .. F - 1 : my[c] \in Nat
        /\ \A c \in 0 .. F : SumOver(my, 0, c) \in Nat /\ SumOver(my, 0, c) <= Cardinality(P)
    BY <1>3, <1>6, <2>1, <2>2, CountsSum
  <2> QED
    BY <2>1, <2>3
<1>9. \A c, d \in 0 .. F : c <= d => SumOver(my, 0, c) <= SumOver(my, 0, d)
  BY <1>0, <1>8, SumsGrow
<1>10. /\ DOMAIN hist' = Both /\ \A z \in Both : DOMAIN hist'[z] = Threads
       /\ \A z \in Both, u \in Threads : ~ (z = y /\ u = t) => hist'[z][u] = hist[z][u]
       /\ hist'[y][t] = [c \in DOMAIN hist[y][t] |-> SumOver(my, 0, c + 1)]
  <2> HIDE DEF y
  <2> QED
    BY <1>0, <1>1 DEF Shape
<1>11. ASSUME NEW c \in 0 .. F - 1
       PROVE  /\ hist'[y][t][c] \in Nat /\ hist'[y][t][c] <= s.n
              /\ c > 0 => hist'[y][t][c - 1] <= hist'[y][t][c]
  <2> HIDE DEF y, F
  <2>1. c + 1 \in 0 .. F /\ hist'[y][t][c] = SumOver(my, 0, c + 1)
    BY <1>0, <1>5, <1>10
  <2>2. c > 0 => c - 1 \in 0 .. F - 1 /\ (c - 1) + 1 = c /\ c \in 0 .. F /\ c <= c + 1
    BY <1>0
  <2>3. c > 0 => hist'[y][t][c - 1] = SumOver(my, 0, c)
    BY <1>5, <1>10, <2>2
  <2> QED
    BY <1>8, <1>9, <2>1, <2>2, <2>3
<1> QED
  BY <1>0, <1>2, <1>10, <1>11 DEF F

(* The histograms give the first thread the starts of the clusters.        *)
LEMMA StartsParted ==
    ASSUME Shape, ControlOK, Copy(0), NEW n \in Nat, n = Amount(0, x[0]),
           \A u \in Threads : Summed(u, x[0]) /\ pass[u] = pass[0] /\ Amount(u, x[0]) = n,
           output[0][x[0]] = Zero(Clusters(0) + 1)
    PROVE  /\ \A c \in 0 .. Clusters(0) : output'[0][x[0]][c] \in Nat
           /\ output'[0][x[0]][Clusters(0)] = n + Clusters(0) * Gap(0)
           /\ \A c \in 0 .. Clusters(0) - 1 :
                output'[0][x[0]][c] + Gap(0) <= output'[0][x[0]][c + 1]
           /\ \A y \in Both \ {x[0]} : output'[0][y] = output[0][y]
<1> DEFINE y == x[0]
           F == Clusters(0)
           P == Gap(0)
           A(c) == IF c = 0 THEN 0 ELSE SumOver(Column(y, c - 1), 0, nthreads)
           o == output'[0][y]
<1>0. /\ 0 \in Threads /\ y \in Both /\ F \in Nat \ {0} /\ P \in Nat
      /\ 2 ^ Part(0).D = F /\ Part(0).padding = P /\ Part(0).n = n /\ nthreads \in Nat \ {0}
  <2>1. 0 \in Threads /\ pass[0] \in {1, 2} /\ y \in Both
    BY ZeroIsThread DEF ControlOK, Both
  <2> QED
    BY <2>1, PartFacts, SizesAssumption
<1>1. \A u \in Threads : Clusters(u) = F
  BY DEF Clusters
<1>2. ASSUME NEW c \in 0 .. F - 1, NEW u \in 0 .. nthreads - 1
      PROVE  /\ Column(y, c)[u] \in Nat /\ Column(y, c)[u] <= ShareOf(u, n) /\ ShareOf(u, n) \in Nat
             /\ c > 0 => Column(y, c - 1)[u] <= Column(y, c)[u]
  <2>1. u \in Threads /\ ShareOf(u, n) \in Nat
    BY SharesSum DEF Threads
  <2>2. Summed(u, y) /\ Clusters(u) = F /\ Amount(u, y) = n
    BY <1>1, <2>1
  <2> QED
    BY <2>1, <2>2 DEF Summed, Column
<1> HIDE DEF y
<1>3. ASSUME NEW c \in 0 .. F - 1
      PROVE  SumOver(Column(y, c), 0, nthreads) \in Nat /\ SumOver(Column(y, c), 0, nthreads) <= n
  <2> DEFINE f == Column(y, c)
             h == [u \in Threads |-> ShareOf(u, n)]
  <2>1. \A u \in 0 .. nthreads - 1 : f[u] \in Nat /\ h[u] \in Nat /\ f[u] <= h[u]
    BY <1>2 DEF Threads
  <2>2. SumOver(h, 0, nthreads) = n
    BY SharesSum
  <2> HIDE DEF f, h, F
  <2>3. SumOver(f, 0, nthreads) <= SumOver(h, 0, nthreads)
    BY <1>0, <2>1, SumsLess
  <2>4. \A u \in 0 .. nthreads - 1 : f[u] \in Nat
    BY <2>1
  <2>5. SumOver(f, 0, nthreads) \in Nat
    <3>1. nthreads \in 0 .. nthreads
      BY <1>0
    <3> QED
      BY <1>0, <2>4, <3>1, Sums
  <2> QED
    BY <2>2, <2>3, <2>5 DEF f
<1>4. ASSUME NEW c \in 1 .. F - 1
      PROVE  SumOver(Column(y, c - 1), 0, nthreads) <= SumOver(Column(y, c), 0, nthreads)
  <2> DEFINE f == Column(y, c - 1)
             h == Column(y, c)
  <2>1. c \in 0 .. F - 1 /\ c - 1 \in 0 .. F - 1 /\ c > 0
    <3> HIDE DEF F
    <3> QED
      BY <1>0
  <2>2. \A u \in 0 .. nthreads - 1 : f[u] \in Nat /\ h[u] \in Nat /\ f[u] <= h[u]
    BY <1>2, <2>1
  <2> HIDE DEF f, h
  <2>3. SumOver(f, 0, nthreads) <= SumOver(h, 0, nthreads)
    BY <1>0, <2>2, SumsLess
  <2> QED
    BY <2>3 DEF f, h
<1> HIDE DEF F, P
<1>5. \A c \in 0 .. F : A(c) \in Nat /\ A(c) <= n
  <2> SUFFICES ASSUME NEW c \in 0 .. F PROVE A(c) \in Nat /\ A(c) <= n
    OBVIOUS
  <2>1. c # 0 => c - 1 \in 0 .. F - 1
    BY <1>0
  <2> QED
    BY <1>3, <2>1
<1>6. \A c \in 0 .. F - 2 : A(c) <= A(c + 1)
  <2> SUFFICES ASSUME NEW c \in 0 .. F - 2 PROVE A(c) <= A(c + 1)
    OBVIOUS
  <2>1. c # 0 => c \in 1 .. F - 1
    BY <1>0
  <2>2. c + 1 # 0 /\ (c + 1) - 1 = c /\ c + 1 \in 0 .. F
    BY <1>0
  <2> QED
    BY <1>4, <1>5, <2>1, <2>2
<1>7. ASSUME NEW c \in 0 .. F - 1 PROVE ClusterStart(0, c) = c * P + A(c)
  <2>1. output[0][y][c] = 0
    <3>1. c \in 0 .. (F + 1) - 1
      BY <1>0
    <3> QED
      BY <3>1 DEF y, F, Zero
  <2>2. SumOver(Column(y, c), 0, 0) = 0
    <3> DEFINE k == 0
               f == Column(y, c)
    <3>1. k \in Nat /\ \A j \in 0 .. k - 1 : f[j] \in Nat
      OBVIOUS
    <3> HIDE DEF k, f
    <3>2. SumOver(f, 0, 0) = 0
      BY <3>1, Sums
    <3> QED
      BY <3>2 DEF f
  <2>3. ClusterStart(0, c) = 0 + c * P + 0 + A(c)
    BY <1>0, <2>1, <2>2 DEF ClusterStart, y
  <2>4. c * P \in Nat /\ A(c) \in Nat
    BY <1>0, <1>5
  <2> QED
    BY <2>3, <2>4
<1> HIDE DEF A
<1>8. /\ output' = [output EXCEPT ![0][y] = [c \in DOMAIN @ |-> IF c = F THEN n + F * P ELSE ClusterStart(0, c)]]
  BY <1>0 DEF Copy, y
<1>9. /\ o = [c \in DOMAIN output[0][y] |-> IF c = F THEN n + F * P ELSE ClusterStart(0, c)]
      /\ \A z \in Both \ {y} : output'[0][z] = output[0][z]
  BY <1>0, <1>8 DEF Shape
<1>10. DOMAIN output[0][y] = 0 .. F
  <2>1. (F + 1) - 1 = F
    BY <1>0
  <2> QED
    BY <2>1 DEF y, F, Zero
<1>11. /\ o[F] = n + F * P /\ \A c \in 0 .. F - 1 : o[c] = c * P + A(c)
  <2>1. F \in 0 .. F /\ \A c \in 0 .. F - 1 : c \in 0 .. F /\ c # F
    BY <1>0
  <2> HIDE DEF o
  <2> QED
    BY <1>7, <1>9, <1>10, <2>1
<1> HIDE DEF o
<1>12. F * P \in Nat /\ \A c \in 0 .. F - 1 : c * P \in Nat
  BY <1>0
<1>13. \A c \in 0 .. F : o[c] \in Nat
  <2> SUFFICES ASSUME NEW c \in 0 .. F PROVE o[c] \in Nat
    OBVIOUS
  <2>1. c = F \/ c \in 0 .. F - 1
    BY <1>0
  <2>2. CASE c = F
    BY <1>11, <1>12, <2>2
  <2>3. CASE c \in 0 .. F - 1
    BY <1>5, <1>11, <1>12, <2>3
  <2> QED
    BY <2>1, <2>2, <2>3
<1>14. ASSUME NEW c \in 0 .. F - 1 PROVE o[c] + P <= o[c + 1]
  <2>1. c * P \in Nat /\ (c + 1) * P = c * P + P /\ o[c] = c * P + A(c) /\ A(c) \in Nat /\ A(c) <= n
    <3>1. c \in Nat /\ c \in 0 .. F
      BY <1>0
    <3> QED
      BY <1>0, <1>5, <1>11, <1>12, <3>1
  <2>2. CASE c + 1 = F
    BY <1>0, <1>11, <2>1, <2>2
  <2>3. CASE c + 1 # F
    <3>1. c + 1 \in 0 .. F - 1 /\ c \in 0 .. F - 2 /\ c + 1 \in 0 .. F
      BY <1>0, <2>3
    <3>2. o[c + 1] = (c + 1) * P + A(c + 1) /\ A(c) <= A(c + 1) /\ A(c + 1) \in Nat
      BY <1>5, <1>6, <1>11, <3>1
    <3> QED
      BY <1>0, <2>1, <3>2
  <2> QED
    BY <2>2, <2>3
<1> QED
  BY <1>9, <1>11, <1>13, <1>14 DEF o, y, F, P

-----------------------------------------------------------------------------
(* The tasks a partition is made into.                                     *)

(* radix_cluster's counts.                                                 *)
LEMMA TaskCounts ==
    ASSUME NEW tk \in TaskOf, NEW y \in Both
    PROVE  /\ \A c \in 0 .. FANOUT_PASS2 : Counts(tk, y)[c] \in Nat
           /\ SumBelow(Counts(tk, y), FANOUT_PASS2) <= tk[y].n
<1> DEFINE F == FANOUT_PASS2
           s == tk[y]
           P == Positions(s)
           g(q) == HASH_BIT_MODULO(Key(y, tuples[y][tk.side][q]), Bits2, Bits1)
           C == [c \in 0 .. F - 1 |-> {q \in P : g(q) = c}]
           f == Counts(tk, y)
<1>1. s.start \in Int /\ s.n \in Nat
  BY DEF TaskOf, Extent, Both
<1>2. IsFiniteSet(P) /\ Cardinality(P) = s.n
  <2> HIDE DEF s
  <2> QED
    BY <1>1, PositionsCount
<1>3. F \in Nat \ {0}
  BY Fanouts
<1>4. \A c \in 0 .. F - 1 : InCluster(y, tk.side, s, c, Bits2, Bits1) = C[c]
  BY DEF InCluster
<1>5. /\ \A c \in 0 .. F - 1 : C[c] \subseteq P
      /\ \A c, d \in 0 .. F - 1 : c # d => C[c] \cap C[d] = {}
  <2> HIDE DEF P, F, g
  <2> QED
    OBVIOUS
<1> HIDE DEF F, P, g, C
<1>6. f[F] = 0 /\ \A c \in 0 .. F - 1 : f[c] = Cardinality(C[c])
  <2>1. F \in 0 .. F /\ \A c \in 0 .. F - 1 : c \in 0 .. F /\ c # F
    BY <1>3
  <2>2. f = [c \in 0 .. F |-> IF c = F THEN 0 ELSE Cardinality(InCluster(y, tk.side, s, c, Bits2, Bits1))]
    BY DEF Counts, F
  <2> HIDE DEF f, s
  <2> QED
    BY <1>4, <2>1, <2>2
<1> HIDE DEF f
<1>7. /\ \A c \in 0 .. F - 1 : f[c] \in Nat
      /\ \A c \in 0 .. F : SumOver(f, 0, c) \in Nat /\ SumOver(f, 0, c) <= Cardinality(P)
  <2>1. F \in Nat /\ \A c \in 0 .. F - 1 : C[c] \subseteq P /\ f[c] = Cardinality(C[c])
    BY <1>3, <1>5, <1>6
  <2> QED
    BY <1>2, <1>5, <2>1, CountsSum
<1>8. \A c \in 0 .. F : f[c] \in Nat
  <2>1. \A c \in 0 .. F : c = F \/ c \in 0 .. F - 1
    BY <1>3
  <2> QED
    BY <1>6, <1>7, <2>1
<1>9. F \in 0 .. F
  BY <1>3
<1> QED
  BY <1>2, <1>7, <1>8, <1>9 DEF SumBelow, F, f, s

(* Where the clusters of a partition of n tuples are, from its start.      *)
LEMMA Places ==
    ASSUME NEW o, NEW n \in Nat, \A c \in 0 .. FANOUT_PASS2 : o[c] \in Nat,
           SumBelow(o, FANOUT_PASS2) <= n
    PROVE  /\ \A c \in 0 .. FANOUT_PASS2 :
                /\ SumBelow(o, c) + c * SMALL_PADDING_TUPLES \in Nat
                /\ SumBelow(o, c) + c * SMALL_PADDING_TUPLES <= n + PADDING_TUPLES
           /\ \A c, d \in 0 .. FANOUT_PASS2 : c <= d =>
                SumBelow(o, c) + c * SMALL_PADDING_TUPLES <= SumBelow(o, d) + d * SMALL_PADDING_TUPLES
           /\ \A c \in 0 .. FANOUT_PASS2 - 1 :
                SumBelow(o, c) + c * SMALL_PADDING_TUPLES + o[c]
                  <= SumBelow(o, c + 1) + (c + 1) * SMALL_PADDING_TUPLES
<1> DEFINE F == FANOUT_PASS2
           P == SMALL_PADDING_TUPLES
           s(c) == SumOver(o, 0, c)
<1>1. F \in Nat \ {0} /\ P \in Nat /\ PADDING_TUPLES = F * P + P
  BY Fanouts
<1> HIDE DEF F, P
<1>2. \A c \in 0 .. F - 1 : o[c] \in Nat
  <2>1. \A c \in 0 .. F : o[c] \in Nat
    BY DEF F
  <2>2. \A c \in 0 .. F - 1 : c \in 0 .. F
    BY <1>1
  <2> QED
    BY <2>1, <2>2
<1>3. /\ \A c \in 0 .. F : s(c) \in Nat
      /\ \A c \in 0 .. F - 1 : s(c + 1) = s(c) + o[c]
      /\ \A c, d \in 0 .. F : c <= d => s(c) <= s(d)
  BY <1>1, <1>2, Sums, SumsGrow
<1>4. s(F) <= n
  BY DEF SumBelow, F
<1> HIDE DEF s
<1>5. \A c, d \in 0 .. F : c <= d => /\ c * P \in Nat /\ d * P \in Nat
                                     /\ c * P <= d * P
  BY <1>1
<1>6. \A c \in 0 .. F : c \in Nat /\ c <= F /\ F \in 0 .. F
  BY <1>1
<1>7. ASSUME NEW c \in 0 .. F PROVE s(c) + c * P \in Nat /\ s(c) + c * P <= n + PADDING_TUPLES
  <2>1. s(c) \in Nat /\ s(c) <= s(F) /\ s(F) \in Nat
    BY <1>3, <1>6
  <2>2. c * P \in Nat /\ F * P \in Nat /\ c * P <= F * P
    BY <1>5, <1>6
  <2> QED
    BY <1>1, <1>4, <2>1, <2>2
<1>8. ASSUME NEW c \in 0 .. F, NEW d \in 0 .. F, c <= d PROVE s(c) + c * P <= s(d) + d * P
  <2>1. s(c) \in Nat /\ s(d) \in Nat /\ s(c) <= s(d)
    BY <1>3, <1>8
  <2>2. c * P \in Nat /\ d * P \in Nat /\ c * P <= d * P
    BY <1>5, <1>8
  <2> QED
    BY <2>1, <2>2
<1>9. ASSUME NEW c \in 0 .. F - 1 PROVE s(c) + c * P + o[c] <= s(c + 1) + (c + 1) * P
  <2>1. c \in 0 .. F /\ s(c) \in Nat /\ o[c] \in Nat /\ s(c + 1) = s(c) + o[c]
    <3>1. c \in 0 .. F
      BY <1>1
    <3> QED
      BY <1>2, <1>3, <3>1
  <2>2. c * P \in Nat /\ (c + 1) * P = c * P + P
    BY <1>1, <2>1
  <2> QED
    BY <1>1, <2>1, <2>2
<1> QED
  BY <1>7, <1>8, <1>9 DEF SumBelow, F, P, s

-----------------------------------------------------------------------------
(* Slots that are given out keep their tasks.                              *)

Kept == DOMAIN slots \subseteq DOMAIN slots' /\ \A s \in DOMAIN slots : slots'[s] = slots[s]

LEMMA LaidTypes ==
    ASSUME Laid, NEW s \in DOMAIN slots, NEW y \in Both
    PROVE  /\ slots[s][y].start \in Nat /\ slots[s][y].n \in Nat
           /\ Past(s, y) \in Nat /\ End(s, y) \in Nat /\ Past(s, y) <= End(s, y)
           /\ slots[s][y].start <= Past(s, y) /\ (IsPart(s) \/ IsJoin(s)) /\ ~ (IsPart(s) /\ IsJoin(s))
<1>1. slots[s] \in TaskOf
  BY DEF Laid
<1>2. slots[s][y].start \in Nat /\ slots[s][y].n \in Nat /\ (IsPart(s) \/ IsJoin(s))
  BY <1>1 DEF TaskOf, Extent, Both, IsPart, IsJoin
<1> QED
  BY <1>2, Fanouts DEF Past, End, IsPart, IsJoin

(* Joins are added that are inside a stretch of the region of partition p  *)
(* that was clear: all is well, and what follows the stretch is clear.     *)
LEMMA JoinsAdded ==
    ASSUME Shape, Laid, input' = input, Kept, NEW p \in DOMAIN slots, IsPart(p), NEW lo, NEW hi,
           \A y \in Both : /\ lo[y] \in Nat /\ hi[y] \in Nat /\ lo[y] <= hi[y]
                           /\ slots[p][y].start <= lo[y] /\ hi[y] <= End(p, y)
                           /\ ClearIn(slots, p, y, lo[y]),
           \A s \in DOMAIN slots' \ DOMAIN slots :
               /\ slots'[s] \in TaskOf /\ slots'[s].side = "rel"
               /\ \A y \in Both : /\ lo[y] <= slots'[s][y].start
                                  /\ slots'[s][y].start + slots'[s][y].n <= hi[y],
           \A a, b \in DOMAIN slots' \ DOMAIN slots : slots'[a].R = slots'[b].R
    PROVE  /\ Laid' /\ \A y \in Both : ClearIn(slots', p, y, hi[y])
           /\ \A a \in DOMAIN slots, y \in Both, from \in Nat :
                a # p /\ IsPart(a) /\ slots[a][y].start <= from /\ ClearIn(slots, a, y, from)
                  => ClearIn(slots', a, y, from)
<1> DEFINE New == DOMAIN slots' \ DOMAIN slots
<1>0. /\ \A s \in DOMAIN slots' : s \in DOMAIN slots \/ s \in New
      /\ \A s \in DOMAIN slots : slots'[s] = slots[s] /\ s \in DOMAIN slots'
  BY DEF Kept
<1>1. /\ \A s \in DOMAIN slots, y \in Both : Past(s, y)' = Past(s, y) /\ End(s, y)' = End(s, y)
      /\ \A s \in DOMAIN slots : (IsPart(s)' <=> IsPart(s)) /\ (IsJoin(s)' <=> IsJoin(s))
      /\ \A y \in Both : ArraySize(y)' = ArraySize(y)
  BY <1>0 DEF Past, End, IsPart, IsJoin, ArraySize
<1>2. ASSUME NEW s \in New
      PROVE  /\ slots'[s] \in TaskOf /\ IsJoin(s)' /\ ~ IsPart(s)'
             /\ \A y \in Both : /\ slots'[s][y].start \in Nat /\ slots'[s][y].n \in Nat /\ Past(s, y)' \in Nat
                                /\ Past(s, y)' = slots'[s][y].start + slots'[s][y].n
                                /\ slots'[s][y].start <= Past(s, y)'
                                /\ lo[y] <= slots'[s][y].start /\ Past(s, y)' <= hi[y]
  <2>1. slots'[s] \in TaskOf /\ slots'[s].side = "rel"
    OBVIOUS
  <2>2. \A y \in Both : slots'[s][y].start \in Nat /\ slots'[s][y].n \in Nat
    BY <2>1 DEF TaskOf, Extent, Both
  <2> QED
    BY <2>1, <2>2 DEF IsPart, IsJoin, Past
<1>3. \A s \in DOMAIN slots, y \in Both :
        /\ slots[s][y].start \in Nat /\ slots[s][y].n \in Nat
        /\ Past(s, y) \in Nat /\ End(s, y) \in Nat /\ Past(s, y) <= End(s, y)
        /\ Past(s, y) = slots[s][y].start + slots[s][y].n
        /\ End(s, y) = slots[s][y].start + slots[s][y].n + PADDING_TUPLES
  BY LaidTypes DEF Past, End
<1>4. \A y \in Both : End(p, y) <= ArraySize(y) /\ ArraySize(y) \in Int
  <2>1. \A y \in Both : ArraySize(y) \in Nat
    BY Inputs2
  <2> QED
    BY <2>1 DEF Laid
<1>5. \A s \in DOMAIN slots' : slots'[s] \in TaskOf
  BY <1>0, <1>2 DEF Laid
<1>6. ASSUME NEW s \in DOMAIN slots', NEW y \in Both
      PROVE  (IF IsPart(s)' THEN End(s, y)' ELSE Past(s, y)') <= ArraySize(y)'
  <2>1. CASE s \in DOMAIN slots
    BY <1>1, <2>1 DEF Laid
  <2>2. CASE s \in New
    <3>1. Past(s, y)' <= hi[y] /\ hi[y] <= End(p, y) /\ End(p, y) <= ArraySize(y)
      BY <1>2, <1>4, <2>2
    <3>2. Past(s, y)' \in Nat /\ hi[y] \in Nat /\ End(p, y) \in Nat
      BY <1>2, <1>3, <2>2
    <3>3. ~ IsPart(s)'
      BY <1>2, <2>2
    <3> QED
      BY <1>1, <1>4, <3>1, <3>2, <3>3
  <2> QED
    BY <1>0, <2>1, <2>2
<1>7. \A a, b \in DOMAIN slots' : a # b /\ IsPart(a)' /\ IsPart(b)' =>
        \A y \in Both : End(a, y)' <= slots'[b][y].start \/ End(b, y)' <= slots'[a][y].start
  <2>1. \A s \in DOMAIN slots' : IsPart(s)' => s \in DOMAIN slots /\ IsPart(s)
    BY <1>0, <1>1, <1>2
  <2> QED
    BY <1>0, <1>1, <2>1 DEF Laid
<1>8. ASSUME NEW a \in DOMAIN slots, NEW b \in New, IsJoin(a)
      PROVE  Past(a, "R") <= slots'[b].R.start \/ Past(b, "R")' <= slots[a].R.start
  <2>0. "R" \in Both
    BY DEF Both
  <2>1. Past(a, "R") <= lo["R"] \/ End(p, "R") <= slots[a].R.start
    BY <1>3, <1>8, <2>0 DEF ClearIn, IsJoin
  <2>2. lo["R"] <= slots'[b].R.start /\ Past(b, "R")' <= hi["R"] /\ hi["R"] <= End(p, "R")
    BY <1>2, <2>0
  <2>3. /\ slots'[b].R.start \in Nat /\ Past(b, "R")' \in Nat /\ lo["R"] \in Nat /\ hi["R"] \in Nat
        /\ End(p, "R") \in Nat /\ slots[a].R.start \in Nat /\ Past(a, "R") \in Nat
    BY <1>2, <1>3, <2>0
  <2> QED
    BY <2>1, <2>2, <2>3
<1>9. \A a, b \in DOMAIN slots' : a # b /\ IsJoin(a)' /\ IsJoin(b)' =>
         \/ slots'[a].R = slots'[b].R
         \/ Past(a, "R")' <= slots'[b].R.start \/ Past(b, "R")' <= slots'[a].R.start
  <2> SUFFICES ASSUME NEW a \in DOMAIN slots', NEW b \in DOMAIN slots', a # b, IsJoin(a)', IsJoin(b)'
               PROVE  \/ slots'[a].R = slots'[b].R
                      \/ Past(a, "R")' <= slots'[b].R.start \/ Past(b, "R")' <= slots'[a].R.start
    OBVIOUS
  <2>0. "R" \in Both
    BY DEF Both
  <2>1. CASE a \in DOMAIN slots /\ b \in DOMAIN slots
    <3>1. slots'[a] = slots[a] /\ slots'[b] = slots[b] /\ IsJoin(a) /\ IsJoin(b)
          /\ Past(a, "R")' = Past(a, "R") /\ Past(b, "R")' = Past(b, "R")
      BY <1>0, <1>1, <2>0, <2>1
    <3>2. \/ slots[a].R = slots[b].R
          \/ Past(a, "R") <= slots[b].R.start \/ Past(b, "R") <= slots[a].R.start
      BY <2>1, <3>1 DEF Laid
    <3> QED
      BY <3>1, <3>2
  <2>2. CASE a \in DOMAIN slots /\ b \in New
    <3>1. slots'[a] = slots[a] /\ IsJoin(a) /\ Past(a, "R")' = Past(a, "R")
      BY <1>0, <1>1, <2>0, <2>2
    <3> QED
      BY <1>8, <2>2, <3>1
  <2>3. CASE a \in New /\ b \in DOMAIN slots
    <3>1. slots'[b] = slots[b] /\ IsJoin(b) /\ Past(b, "R")' = Past(b, "R")
      BY <1>0, <1>1, <2>0, <2>3
    <3> QED
      BY <1>8, <2>3, <3>1
  <2>4. CASE a \in New /\ b \in New
    BY <2>4
  <2> QED
    BY <1>0, <2>1, <2>2, <2>3, <2>4
<1>10. Laid'
  BY <1>5, <1>6, <1>7, <1>9 DEF Laid
<1>11. ASSUME NEW y \in Both PROVE ClearIn(slots', p, y, hi[y])
  <2> SUFFICES ASSUME NEW b \in DOMAIN slots', slots'[b].side = "rel"
               PROVE  \/ slots'[b][y].start + slots'[b][y].n <= hi[y]
                      \/ slots'[p][y].start + slots'[p][y].n + PADDING_TUPLES <= slots'[b][y].start
    BY DEF ClearIn
  <2>1. CASE b \in New
    BY <1>2, <2>1
  <2>2. CASE b \in DOMAIN slots
    <3>1. slots'[b] = slots[b] /\ slots'[p] = slots[p]
      BY <1>0, <2>2
    <3>2. \/ slots[b][y].start + slots[b][y].n <= lo[y]
          \/ slots[p][y].start + slots[p][y].n + PADDING_TUPLES <= slots[b][y].start
      BY <2>2, <3>1 DEF ClearIn
    <3>3. slots[b][y].start \in Nat /\ slots[b][y].n \in Nat /\ lo[y] \in Nat /\ hi[y] \in Nat /\ lo[y] <= hi[y]
      BY <1>3, <2>2
    <3> QED
      BY <3>1, <3>2, <3>3
  <2> QED
    BY <1>0, <2>1, <2>2
<1>12. ASSUME NEW a \in DOMAIN slots, NEW y \in Both, NEW from \in Nat, a # p, IsPart(a),
              slots[a][y].start <= from, ClearIn(slots, a, y, from)
       PROVE  ClearIn(slots', a, y, from)
  <2> SUFFICES ASSUME NEW b \in DOMAIN slots', slots'[b].side = "rel"
               PROVE  \/ slots'[b][y].start + slots'[b][y].n <= from
                      \/ slots'[a][y].start + slots'[a][y].n + PADDING_TUPLES <= slots'[b][y].start
    BY DEF ClearIn
  <2>0. slots'[a] = slots[a]
    BY <1>0
  <2>1. CASE b \in New
    <3>1. End(a, y) <= slots[p][y].start \/ End(p, y) <= slots[a][y].start
      BY <1>12 DEF Laid
    <3>2. /\ lo[y] <= slots'[b][y].start /\ Past(b, y)' <= hi[y] /\ hi[y] <= End(p, y)
          /\ slots[p][y].start <= lo[y] /\ Past(b, y)' = slots'[b][y].start + slots'[b][y].n
      BY <1>2, <2>1
    <3>3. /\ slots'[b][y].start \in Nat /\ slots'[b][y].n \in Nat /\ Past(b, y)' \in Nat
          /\ lo[y] \in Nat /\ hi[y] \in Nat /\ End(p, y) \in Nat /\ End(a, y) \in Nat
          /\ slots[p][y].start \in Nat /\ slots[a][y].start \in Nat
          /\ End(a, y) = slots[a][y].start + slots[a][y].n + PADDING_TUPLES
      BY <1>2, <1>3, <2>1
    <3>4. CASE End(a, y) <= slots[p][y].start
      <4>1. End(a, y) <= slots'[b][y].start
        BY <3>2, <3>3, <3>4
      <4> QED
        BY <2>0, <3>3, <4>1
    <3>5. CASE End(p, y) <= slots[a][y].start
      <4>1. Past(b, y)' <= from
        BY <1>12, <3>2, <3>3, <3>5
      <4> QED
        BY <3>2, <4>1
    <3> QED
      BY <3>1, <3>4, <3>5
  <2>2. CASE b \in DOMAIN slots
    <3>1. slots'[b] = slots[b]
      BY <1>0, <2>2
    <3> QED
      BY <1>12, <2>0, <2>2, <3>1 DEF ClearIn
  <2> QED
    BY <1>0, <2>1, <2>2
<1> QED
  BY <1>10, <1>11, <1>12

(* A partition is added behind the others.                                 *)
LEMMA PartAdded ==
    ASSUME Laid, input' = input, Kept, \A s \in DOMAIN slots : IsPart(s),
           NEW a, a \notin DOMAIN slots, NEW tk \in TaskOf, tk.side = "tmp",
           DOMAIN slots' = DOMAIN slots \cup {a}, slots'[a] = tk,
           \A y \in Both : tk[y].start + tk[y].n + PADDING_TUPLES <= ArraySize(y),
           \A s \in DOMAIN slots, y \in Both : End(s, y) <= tk[y].start
    PROVE  /\ Laid' /\ \A s, y, from : ClearIn(slots', s, y, from)
           /\ \A s \in DOMAIN slots' : slots'[s].side = "tmp"
           /\ \A s \in DOMAIN slots', y \in Both :
                End(s, y)' <= tk[y].start + tk[y].n + PADDING_TUPLES
<1>1. /\ \A s \in DOMAIN slots : slots'[s] = slots[s] /\ slots'[s].side = "tmp"
      /\ \A s \in DOMAIN slots, y \in Both : End(s, y)' = End(s, y)
      /\ \A y \in Both : ArraySize(y)' = ArraySize(y)
      /\ \A y \in Both : End(a, y)' = tk[y].start + tk[y].n + PADDING_TUPLES
  BY DEF Kept, IsPart, End, Past, ArraySize
<1>2. \A s \in DOMAIN slots' : slots'[s].side = "tmp" /\ slots'[s] \in TaskOf
  BY <1>1 DEF Laid
<1>3. \A s, y, from : ClearIn(slots', s, y, from)
  BY <1>2 DEF ClearIn
<1>4. \A s \in DOMAIN slots' : IsPart(s)' /\ ~ IsJoin(s)'
  BY <1>2 DEF IsPart, IsJoin
<1>5. \A s \in DOMAIN slots', y \in Both : End(s, y)' <= ArraySize(y)'
  BY <1>1 DEF Laid
<1>6. \A b, c \in DOMAIN slots' : b # c =>
         \A y \in Both : End(b, y)' <= slots'[c][y].start \/ End(c, y)' <= slots'[b][y].start
  BY <1>1 DEF Laid
<1>7. Laid'
  BY <1>2, <1>4, <1>5, <1>6 DEF Laid
<1>8. ASSUME NEW s \in DOMAIN slots', NEW y \in Both
      PROVE  End(s, y)' <= tk[y].start + tk[y].n + PADDING_TUPLES
  <2>1. tk[y].start \in Nat /\ tk[y].n \in Nat /\ PADDING_TUPLES \in Nat
    BY Fanouts DEF TaskOf, Extent, Both
  <2>2. CASE s = a
    BY <1>1, <2>1, <2>2
  <2>3. CASE s \in DOMAIN slots
    <3>1. End(s, y) \in Nat /\ End(s, y) <= tk[y].start
      BY <2>3, LaidTypes
    <3> QED
      BY <1>1, <2>1, <2>3, <3>1
  <2> QED
    BY <2>2, <2>3
<1> QED
  BY <1>2, <1>3, <1>7, <1>8

-----------------------------------------------------------------------------
(* The tasks whose ranges are yet to be read.                              *)

(* They are queued, in hand, about to be added, or the large partition.    *)
LEMMA LiveIs ==
    ASSUME DOMAIN queue = Names
    PROVE  \A s : s \in Live <=>
             \/ \E q \in Names : s \in ToSet(L(q))
             \/ \E t \in Threads : pc[t] \in {"cluster", "chain", "reorder", "probe"} /\ s = task[t]
             \/ \E t \in Threads : pc[t] = "add" /\ s = fresh[t]
             \/ Dividing /\ s = skewtask
<1> DEFINE A == UNION {ToSet(queue[q].list) : q \in DOMAIN queue}
           B == {task[t] : t \in InHands}
           C == {fresh[t] : t \in {u \in Threads : pc[u] = "add"}}
           D == IF Dividing THEN {skewtask} ELSE {}
<1>1. \A s : s \in A <=> \E q \in Names : s \in ToSet(L(q))
  BY DEF L
<1>2. \A s : s \in B <=>
        \E t \in Threads : pc[t] \in {"cluster", "chain", "reorder", "probe"} /\ s = task[t]
  BY DEF InHands
<1>3. \A s : s \in C <=> \E t \in Threads : pc[t] = "add" /\ s = fresh[t]
  OBVIOUS
<1>4. \A s : s \in D <=> Dividing /\ s = skewtask
  OBVIOUS
<1>5. Live = A \cup B \cup C \cup D
  BY Zenon DEF Live
<1> HIDE DEF A, B, C, D
<1> QED
  BY <1>1, <1>2, <1>3, <1>4, <1>5

LEMMA LiveNow ==
    ASSUME ControlOK
    PROVE  /\ \A q \in Names : ToSet(L(q)) \subseteq Live
           /\ \A t \in Threads : pc[t] \in {"cluster", "chain", "reorder", "probe"} => task[t] \in Live
           /\ \A t \in Threads : pc[t] = "add" => fresh[t] \in Live
           /\ Dividing => skewtask \in Live
<1>1. DOMAIN queue = Names
  BY DEF ControlOK
<1> QED
  BY <1>1, LiveIs

LEMMA LiveNext ==
    ASSUME ControlOK', NEW N,
           \A q \in Names : ToSet(L(q)') \subseteq N,
           \A t \in Threads : pc'[t] \in {"cluster", "chain", "reorder", "probe"} => task'[t] \in N,
           \A t \in Threads : pc'[t] = "add" => fresh'[t] \in N,
           Dividing' => skewtask' \in N
    PROVE  Live' \subseteq N
<1>1. DOMAIN queue' = Names
  BY DEF ControlOK
<1>2. ASSUME NEW s \in Live'
      PROVE  \/ \E q \in Names : s \in ToSet(L(q)')
             \/ \E t \in Threads : pc'[t] \in {"cluster", "chain", "reorder", "probe"} /\ s = task'[t]
             \/ \E t \in Threads : pc'[t] = "add" /\ s = fresh'[t]
             \/ Dividing' /\ s = skewtask'
  <2> DEFINE A == UNION {ToSet(queue'[q].list) : q \in DOMAIN queue'}
             B == {task'[t] : t \in InHands'}
             C == {fresh'[t] : t \in {u \in Threads : pc'[u] = "add"}}
             D == IF Dividing' THEN {skewtask'} ELSE {}
  <2>1. s \in A => \E q \in Names : s \in ToSet(L(q)')
    BY <1>1 DEF L
  <2>2. s \in B =>
          \E t \in Threads : pc'[t] \in {"cluster", "chain", "reorder", "probe"} /\ s = task'[t]
    BY DEF InHands
  <2>3. s \in C => \E t \in Threads : pc'[t] = "add" /\ s = fresh'[t]
    OBVIOUS
  <2>4. s \in D => Dividing' /\ s = skewtask'
    OBVIOUS
  <2>5. s \in A \cup B \cup C \cup D
    BY Zenon DEF Live
  <2> HIDE DEF A, B, C, D
  <2> QED
    BY <2>1, <2>2, <2>3, <2>4, <2>5
<1> QED
  BY <1>2

(* A partition whose joins are being made is not among them.               *)
LEMMA ParentsNotLive ==
    ASSUME TaskInv, Kinds
    PROVE  /\ Live \subseteq DOMAIN slots
           /\ \A t \in Threads : pc[t] \in {"offer", "add"} => task[t] \in DOMAIN slots \ Live
           /\ pc[0] = "split" /\ skewtask # NoSlot => skewtask \in DOMAIN slots \ Live
<1>0. ControlOK /\ Held /\ DOMAIN queue = Names
  BY DEF TaskInv, ControlOK
<1>1. Live \subseteq DOMAIN slots
  <2>1. \A t \in Threads : /\ Working(t) => task[t] \in DOMAIN slots
                           /\ pc[t] = "add" => fresh[t] \in DOMAIN slots
    BY <1>0 DEF Held, Holds
  <2>2. \A q \in Names : ToSet(L(q)) \subseteq DOMAIN slots
    BY <1>0 DEF Held
  <2>3. Dividing => skewtask \in DOMAIN slots
    BY DEF Dividing, Kinds, SkewHeld
  <2> QED
    BY <1>0, <2>1, <2>2, <2>3, LiveIs DEF Working
<1>2. ASSUME NEW t \in Threads, pc[t] \in {"offer", "add"} PROVE task[t] \in DOMAIN slots \ Live
  <2>1. task[t] \in Holds(t)
    BY <1>2 DEF Holds, Working
  <2>2. /\ task[t] \in DOMAIN slots /\ \A q \in Names : task[t] \notin ToSet(L(q))
        /\ \A u \in Threads \ {t} : task[t] \notin Holds(u)
        /\ pc[t] = "add" => task[t] # fresh[t]
    BY <1>0, <2>1 DEF Held
  <2>3. skewtask # NoSlot => task[t] # skewtask
    BY <2>1 DEF Kinds, SkewHeld, Placed
  <2>4. \A u \in InHands : task[u] # task[t]
    <3>1. \A u \in InHands : u \in Threads \ {t} /\ task[u] \in Holds(u)
      BY <1>2 DEF InHands, Holds, Working
    <3> QED
      BY <2>2, <3>1
  <2>5. \A u \in Threads : pc[u] = "add" => fresh[u] # task[t]
    BY <2>2 DEF Holds
  <2>6. Dividing => skewtask # task[t]
    BY <2>3 DEF Dividing
  <2> QED
    BY <1>0, <2>2, <2>4, <2>5, <2>6, LiveIs DEF InHands
<1>3. ASSUME pc[0] = "split", skewtask # NoSlot PROVE skewtask \in DOMAIN slots \ Live
  <2>1. /\ skewtask \in DOMAIN slots
        /\ \A q \in Names : skewtask \notin ToSet(L(q))
        /\ \A t \in Threads : skewtask \notin Holds(t)
    BY <1>3 DEF Kinds, SkewHeld, Placed
  <2>2. ~ Dividing
    BY <1>3 DEF Dividing
  <2>3. \A u \in InHands : task[u] # skewtask
    BY <2>1 DEF InHands, Holds, Working
  <2>4. \A u \in Threads : pc[u] = "add" => fresh[u] # skewtask
    BY <2>1 DEF Holds
  <2> QED
    BY <1>0, <2>1, <2>2, <2>3, <2>4, LiveIs DEF InHands
<1> QED
  BY <1>1, <1>2, <1>3

-----------------------------------------------------------------------------
(* Where the threads are when one is at a place.                           *)

LEMMA AtWork ==
    ASSUME Together, NEW t \in Threads, pc[t] \in {"part", "cluster", "offer", "add"}
    PROVE  \A u \in Threads : pc[u] \in {"part", "cluster", "offer", "add", "skew"} \/ To(u, "skewtask")
<1>1. PICK g \in Stages, p \in {1, 2} : \A u \in Threads : At(g, p, u)
  BY DEF Together
<1>2. g = "part"
  BY <1>1 DEF At, To, Stages
<1> QED
  BY <1>1, <1>2 DEF At

LEMMA AtSkew ==
    ASSUME Together, NEW t \in Threads, pc[t] = "skew"
    PROVE  \A u \in Threads : \/ pc[u] \in {"part", "cluster", "offer", "add", "skew", "split"}
                              \/ To(u, "skewtask")
<1>1. PICK g \in Stages, p \in {1, 2} : \A u \in Threads : At(g, p, u)
  BY DEF Together
<1>2. g \in {"part", "split"}
  BY <1>1 DEF At, To, Stages
<1> QED
  BY <1>1, <1>2 DEF At

LEMMA AtSplit ==
    ASSUME Together, NEW t \in Threads, pc[t] = "split"
    PROVE  t = 0 /\ \A u \in Threads : u # 0 => pc[u] = "skew" \/ To(u, "skewtask")
<1>1. PICK g \in Stages, p \in {1, 2} : \A u \in Threads : At(g, p, u)
  BY DEF Together
<1>2. g = "split"
  BY <1>1 DEF At, To, Stages
<1> QED
  BY <1>1, <1>2 DEF At, To

LEMMA AtMake ==
    ASSUME Together, NEW t \in Threads, pc[t] = "make"
    PROVE  t = 0 /\ \A u \in Threads : u # 0 => pc[u] = "made" \/ To(u, "part")
<1>1. PICK g \in Stages, p \in {1, 2} : \A u \in Threads : At(g, p, u)
  BY DEF Together
<1>2. g = "make"
  BY <1>1 DEF At, To, Stages
<1> QED
  BY <1>1, <1>2 DEF At, To

LEMMA AtCopy ==
    ASSUME Together, NEW t \in Threads, pc[t] = "copy"
    PROVE  \A u \in Threads : pass[u] = pass[t] /\ InPass(u) /\ Counted(u, x[t])
<1>1. PICK g \in Stages, p \in {1, 2} : \A u \in Threads : At(g, p, u)
  BY DEF Together
<1>2. At(g, p, t)
  BY <1>1
<1>3. g \in {"copyR", "copyS"}
  BY <1>2 DEF At, To, Stages
<1> SUFFICES ASSUME NEW u \in Threads PROVE pass[u] = pass[t] /\ InPass(u) /\ Counted(u, x[t])
  OBVIOUS
<1>4. At(g, p, u)
  BY <1>1
<1>5. CASE g = "copyR"
  <2>1. pass[t] = p /\ x[t] = "R" /\ pass[u] = p
    BY <1>2, <1>4, <1>5 DEF At, To
  <2>2. (x[u] = "R" /\ pc[u] = "copy") \/ (x[u] = "S" /\ (pc[u] = "hist" \/ To(u, "copy")))
    BY <1>4, <1>5 DEF At
  <2> QED
    BY <2>1, <2>2 DEF InPass, Counted, To
<1>6. CASE g = "copyS"
  <2>1. pass[t] = p /\ x[t] = "S" /\ pass[u] = p /\ x[u] = "S"
    BY <1>2, <1>4, <1>6 DEF At
  <2>2. \/ pc[u] = "copy"
        \/ pc[u] = "barrier" /\ after[u] \in {"make", "split", "made", "skew"}
    BY <1>4, <1>6 DEF At, To
  <2> QED
    BY <2>1, <2>2 DEF InPass, Counted, To
<1> QED
  BY <1>3, <1>5, <1>6

LEMMA AtDecide ==
    ASSUME Together, NEW t \in Threads, pc[t] = "skewtask"
    PROVE  \A u \in Threads : pc[u] \in {"skewtask", "move"} \/ To(u, "join") \/ To(u, "hist")
<1>1. PICK g \in Stages, p \in {1, 2} : \A u \in Threads : At(g, p, u)
  BY DEF Together
<1>2. g = "decide"
  BY <1>1 DEF At, To, Stages
<1> QED
  BY <1>1, <1>2 DEF At

-----------------------------------------------------------------------------
(* Steps that leave slots, queues and the large partition alone.           *)

LEMMA SlotsStay ==
    ASSUME slots' = slots, input' = input
    PROVE  /\ Laid => Laid' /\ \A s, y : End(s, y)' = End(s, y)
           /\ \A s : (IsPart(s)' <=> IsPart(s))
           /\ \A s, y, from : ClearIn(slots', s, y, from) <=> ClearIn(slots, s, y, from)
BY DEF Laid, IsPart, IsJoin, End, Past, ArraySize

(* A thread that is making joins keeps to it when another makes a step.    *)
LEMMA OffersStay ==
    ASSUME Offering, NEW u \in Threads, Kept, task[u] \in DOMAIN slots \/ slots' = slots,
           pc'[u] = pc[u], task'[u] = task[u], i'[u] = i[u], output'[u] = output[u],
           pc[u] \in {"offer", "add"} =>
             \A y \in Both : ClearIn(slots, task[u], y, Reached(u, y))
                               => ClearIn(slots', task[u], y, Reached(u, y))
    PROVE  Offers(u)'
<1>1. Offers(u)
  BY DEF Offering
<1>2. slots'[task[u]] = slots[task[u]]
  BY DEF Kept
<1>3. \A y : Reached(u, y)' = Reached(u, y)
  BY <1>2 DEF Reached
<1>4. pc[u] \in {"offer", "add"} =>
        /\ i[u] <= FANOUT_PASS2 /\ (pc[u] = "add" => i[u] < FANOUT_PASS2)
        /\ \A y \in Both :
             /\ \A c \in 0 .. FANOUT_PASS2 : output[u][y][c] \in Nat
             /\ SumBelow(output[u][y], FANOUT_PASS2) <= slots[task[u]][y].n
             /\ ClearIn(slots', task[u], y, Reached(u, y))
  BY <1>1 DEF Offers, Clear
<1> QED
  BY <1>2, <1>3, <1>4 DEF Offers, Clear

LEMMA QuietRanges ==
    ASSUME TaskInv, RangeInv, ControlOK', NEW t \in Threads,
           UNCHANGED <<input, slots, queue, skewtask>>,
           \A u \in Threads \ {t} :
               /\ pc'[u] = pc[u] /\ after'[u] = after[u] /\ pass'[u] = pass[u]
               /\ task'[u] = task[u] /\ fresh'[u] = fresh[u] /\ i'[u] = i[u] /\ output'[u] = output[u],
           pc'[t] \notin {"cluster", "offer", "add"},
           pc'[t] \in {"chain", "reorder", "probe"} =>
               pc[t] \in {"chain", "reorder", "probe"} /\ task'[t] = task[t],
           Early(t)' => Early(t),
           t = 0 =>
               /\ pc'[0] \notin {"make", "split"}
               /\ pc[0] \in {"skew", "split"} => pc'[0] \in {"skew", "split"}
               /\ InPass(0)' /\ pass'[0] = 1 => InPass(0) /\ pass[0] = 1
    PROVE  RangesOK'
<1>0. ControlOK /\ Held /\ Laid /\ Unread /\ Kinds /\ Offering /\ Splitting /\ Partitions
  BY DEF TaskInv, RangeInv, RangesOK
<1>1. /\ Laid' /\ \A s : (IsPart(s)' <=> IsPart(s))
      /\ \A s, y : End(s, y)' = End(s, y)
      /\ \A s, y, from : ClearIn(slots', s, y, from) <=> ClearIn(slots, s, y, from)
  BY <1>0, SlotsStay
<1>2. \A q : L(q)' = L(q)
  BY DEF L
<1>3. Live' \subseteq Live
  <2>1. Dividing' => Dividing
    BY ZeroIsThread DEF Dividing
  <2> QED
    BY <1>0, <1>2, <2>1, LiveNow, LiveNext
<1>4. Unread'
  BY <1>0, <1>1, <1>3 DEF Unread, Clear
<1>5. Offering'
  <2> SUFFICES ASSUME NEW u \in Threads PROVE Offers(u)'
    BY DEF Offering
  <2>1. CASE u = t
    BY <2>1 DEF Offers
  <2>2. CASE u # t
    BY <1>0, <1>1, <2>2, OffersStay DEF Kept
  <2> QED
    BY <2>1, <2>2
<1>6. Splitting'
  <2>1. CASE t = 0
    BY <2>1 DEF Splitting
  <2>2. CASE t # 0
    <3>1. pc'[0] = pc[0] /\ i'[0] = i[0] /\ output'[0] = output[0]
      BY <2>2, ZeroIsThread
    <3> QED
      BY <1>0, <1>1, <3>1 DEF Splitting, Clear
  <2> QED
    BY <2>1, <2>2
<1>7. Partitions'
  <2>1. CASE t = 0
    BY <1>0, <2>1 DEF Partitions
  <2>2. CASE t # 0
    <3>1. /\ pc'[0] = pc[0] /\ after'[0] = after[0] /\ pass'[0] = pass[0] /\ i'[0] = i[0]
          /\ output'[0] = output[0]
      BY <2>2, ZeroIsThread
    <3>2. InPass(0)' <=> InPass(0)
      BY <3>1 DEF InPass
    <3> QED
      BY <1>0, <1>1, <3>1, <3>2 DEF Partitions
  <2> QED
    BY <2>1, <2>2
<1>8. Kinds'
  <2>1. \A u \in Threads : Holds(u)' \subseteq Holds(u)
    <3> SUFFICES ASSUME NEW u \in Threads PROVE Holds(u)' \subseteq Holds(u)
      OBVIOUS
    <3>1. CASE u = t
      BY <3>1 DEF Holds, Working
    <3>2. CASE u # t
      BY <3>2 DEF Holds, Working
    <3> QED
      BY <3>1, <3>2
  <2>2. \A u \in Threads : Early(u)' => Early(u)
    <3> SUFFICES ASSUME NEW u \in Threads, u # t PROVE Early(u)' => Early(u)
      OBVIOUS
    <3> QED
      BY DEF Early
  <2>3. \A u \in Threads : pc'[u] \in {"cluster", "offer", "add"} =>
            pc[u] \in {"cluster", "offer", "add"} /\ task'[u] = task[u]
    OBVIOUS
  <2>4. \A s \in ToSet(L("skew")') : IsPart(s)'
    BY <1>0, <1>1, <1>2 DEF Kinds
  <2>5. (\E u \in Threads : Early(u)') => \A s \in ToSet(L("part")') : IsPart(s)'
    BY <1>0, <1>1, <1>2, <2>2 DEF Kinds
  <2>6. \A u \in Threads : pc'[u] \in {"cluster", "offer", "add"} => slots'[task'[u]].side = "tmp"
    BY <1>0, <2>3 DEF Kinds, IsPart
  <2>7. SkewHeld'
    BY <1>0, <1>1, <1>2, <2>1 DEF Kinds, SkewHeld, Placed
  <2> QED
    BY <2>4, <2>5, <2>6, <2>7 DEF Kinds, IsPart
<1> QED
  BY <1>1, <1>4, <1>5, <1>6, <1>7, <1>8 DEF RangesOK

-----------------------------------------------------------------------------
(* Steps that give out no slot.                                            *)

(* What a step of another thread leaves of the first thread's loops.       *)
LEMMA ZeroStays ==
    ASSUME RangesOK, slots' = slots, skewtask' = skewtask, NEW t \in Threads, t # 0,
           pc'[0] = pc[0], after'[0] = after[0], pass'[0] = pass[0], i'[0] = i[0], output'[0] = output[0]
    PROVE  Splitting' /\ Partitions'
<1>1. InPass(0)' <=> InPass(0)
  BY DEF InPass
<1>2. /\ \A s : (IsPart(s)' <=> IsPart(s))
      /\ \A s, y : End(s, y)' = End(s, y)
  BY DEF IsPart, End, Past
<1> QED
  BY <1>1, <1>2 DEF RangesOK, Splitting, Partitions, Clear

LEMMA SlotsKept ==
    ASSUME TaskInv, RangeInv, TaskInv', slots' = slots, input' = input, NEW t \in Threads,
           \A u \in Threads \ {t} :
               /\ pc'[u] = pc[u] /\ after'[u] = after[u] /\ pass'[u] = pass[u]
               /\ task'[u] = task[u] /\ fresh'[u] = fresh[u] /\ i'[u] = i[u] /\ output'[u] = output[u],
           \A q \in Names : ToSet(L(q)') \subseteq Live,
           pc'[t] \in {"cluster", "chain", "reorder", "probe"} => task'[t] \in Live,
           pc'[t] = "add" => fresh'[t] \in Live,
           Dividing' => skewtask' \in Live,
           ToSet(L("skew")') \subseteq ToSet(L("skew")),
           Early(t)' => Early(t),
           (\E u \in Threads : Early(u)) => ToSet(L("part")') \subseteq ToSet(L("part")),
           pc'[t] \in {"cluster", "offer", "add"} => IsPart(task'[t]),
           SkewHeld', Offers(t)', Splitting', Partitions'
    PROVE  RangesOK'
<1>0. ControlOK' /\ Laid /\ Unread /\ Kinds /\ Offering
  BY DEF TaskInv, RangeInv, RangesOK
<1>1. /\ Laid' /\ \A s : (IsPart(s)' <=> IsPart(s))
      /\ \A s, y, from : ClearIn(slots', s, y, from) <=> ClearIn(slots, s, y, from)
  BY <1>0, SlotsStay
<1>2. Live' \subseteq Live
  <2>1. \A u \in Threads \ {t} : /\ pc[u] \in {"cluster", "chain", "reorder", "probe"} => task[u] \in Live
                                 /\ pc[u] = "add" => fresh[u] \in Live
    BY LiveNow DEF TaskInv
  <2>2. \A u \in Threads : pc'[u] \in {"cluster", "chain", "reorder", "probe"} => task'[u] \in Live
    BY <2>1
  <2>3. \A u \in Threads : pc'[u] = "add" => fresh'[u] \in Live
    BY <2>1
  <2> QED
    BY <1>0, <2>2, <2>3, LiveNext
<1>3. Unread'
  BY <1>0, <1>1, <1>2 DEF Unread, Clear
<1>4. Offering'
  <2> SUFFICES ASSUME NEW u \in Threads, u # t PROVE Offers(u)'
    BY DEF Offering
  <2> QED
    BY <1>0, <1>1, OffersStay DEF Kept
<1>5. Kinds'
  <2>1. \A u \in Threads \ {t} : (Early(u)' <=> Early(u))
    BY DEF Early
  <2>2. (\E u \in Threads : Early(u)') => \E u \in Threads : Early(u)
    BY <2>1
  <2>3. \A s \in ToSet(L("skew")') : IsPart(s)'
    BY <1>0, <1>1 DEF Kinds
  <2>4. (\E u \in Threads : Early(u)') => \A s \in ToSet(L("part")') : IsPart(s)'
    BY <1>0, <1>1, <2>2 DEF Kinds
  <2>5. \A u \in Threads : pc'[u] \in {"cluster", "offer", "add"} => slots'[task'[u]].side = "tmp"
    BY <1>0 DEF Kinds, IsPart
  <2> QED
    BY <2>3, <2>4, <2>5 DEF Kinds, IsPart
<1> QED
  BY <1>1, <1>3, <1>4, <1>5 DEF RangesOK

(* The large partition stays out of the queues and the threads' hands.     *)
LEMMA SkewStays ==
    ASSUME SkewHeld, Kept, skewtask' = skewtask,
           \A q \in Names : skewtask \in ToSet(L(q)') => Placed(skewtask) \/ skewtask \notin DOMAIN slots,
           \A u \in Threads : skewtask \in Holds(u)' => Placed(skewtask) \/ skewtask \notin DOMAIN slots
    PROVE  SkewHeld'
BY DEF SkewHeld, Placed, IsPart, Kept

(* The head of a queue is taken.                                           *)
LEMMA Taken ==
    ASSUME TaskInv, NEW q \in Names, L(q) # <<>>, queue' = [queue EXCEPT ![q].list = Tail(@)]
    PROVE  /\ Head(L(q)) \in ToSet(L(q))
           /\ \A r \in Names : ToSet(L(r)') \subseteq ToSet(L(r)) /\ Head(L(q)) \notin ToSet(L(r)')
           /\ \A t \in Threads : Head(L(q)) \notin Holds(t)
<1>0. ControlOK /\ Held
  BY DEF TaskInv
<1>1. queue[q] \in TaskQueue /\ L(q) \in Seq(SlotName)
  BY <1>0 DEF ControlOK, TaskQueue, L
<1>2. /\ ToSet(L(q)) = {Head(L(q))} \cup ToSet(Tail(L(q)))
      /\ Distinct(L(q)) => Distinct(Tail(L(q))) /\ Head(L(q)) \notin ToSet(Tail(L(q)))
  BY <1>1, HeadTaken
<1>3. L(q)' = Tail(L(q)) /\ \A r \in Names \ {q} : L(r)' = L(r)
  BY <1>0, <1>1 DEF ControlOK, TaskQueue, L
<1> DEFINE h == Head(L(q))
<1>4. Distinct(L(q)) /\ \A r \in Names \ {q} : ToSet(L(q)) \cap ToSet(L(r)) = {}
  BY <1>0 DEF Held
<1>5. \A t \in Threads : Holds(t) \cap ToSet(L(q)) = {}
  BY <1>0 DEF Held
<1> HIDE DEF h
<1>6. \A r \in Names : ToSet(L(r)') \subseteq ToSet(L(r)) /\ h \notin ToSet(L(r)')
  <2> SUFFICES ASSUME NEW r \in Names
               PROVE  ToSet(L(r)') \subseteq ToSet(L(r)) /\ h \notin ToSet(L(r)')
    OBVIOUS
  <2>1. CASE r = q
    BY <1>2, <1>3, <1>4, <2>1 DEF h
  <2>2. CASE r # q
    BY <1>2, <1>3, <1>4, <2>2 DEF h
  <2> QED
    BY <2>1, <2>2
<1> QED
  BY <1>2, <1>5, <1>6 DEF h

LEMMA SlotIsSome == \A s \in SlotName : s # NoSlot
<1> SUFFICES ASSUME NEW s \in SlotName PROVE s # NoSlot
  OBVIOUS
<1>1. PICK q \in Names, b \in Nat, c \in Nat : s = <<q, b, c>>
  BY DEF SlotName
<1>2. Len(<<q, b, c>>) = 3 /\ Len(<<>>) = 0
  OBVIOUS
<1> QED
  BY <1>1, <1>2 DEF NoSlot

LEMMA TakePartRanges ==
    ASSUME TaskInv, RangeInv, TaskInv', NEW t \in Threads, input' = input, TakePart(t)
    PROVE  RangesOK'
<1>0. /\ ControlOK /\ ControlOK' /\ Held /\ Kinds /\ RangesOK
      /\ "part" \in Names /\ "skew" \in Names
  BY DEF TaskInv, RangeInv, RangesOK, Names
<1>1. PICK s \in DOMAIN slots \cup {NoSlot} :
         /\ GetTask("part", s) /\ task' = [task EXCEPT ![t] = s]
         /\ Goto(t, IF s = NoSlot THEN "skew" ELSE "cluster")
  BY DEF TakePart
<1>2. /\ pc[t] = "part" /\ UNCHANGED <<slots, skewtask, fresh, i, output, hist, pass, x, after>>
      /\ pc' = [pc EXCEPT ![t] = IF s = NoSlot THEN "skew" ELSE "cluster"]
  BY <1>1 DEF TakePart, Goto, partition
<1>3. /\ pc'[t] = (IF s = NoSlot THEN "skew" ELSE "cluster") /\ task'[t] = s
      /\ \A u \in Threads \ {t} :
           /\ pc'[u] = pc[u] /\ after'[u] = after[u] /\ pass'[u] = pass[u]
           /\ task'[u] = task[u] /\ fresh'[u] = fresh[u] /\ i'[u] = i[u] /\ output'[u] = output[u]
  BY <1>0, <1>1, <1>2 DEF ControlOK
<1>4. Early(t)
  BY <1>2 DEF Early
<1>5. CASE queue' = queue /\ s = NoSlot
  <2>1. t = 0 =>
           /\ pc'[0] \notin {"make", "split"}
           /\ pc[0] \in {"skew", "split"} => pc'[0] \in {"skew", "split"}
           /\ InPass(0)' /\ pass'[0] = 1 => InPass(0) /\ pass[0] = 1
    BY <1>2, <1>3, <1>5 DEF InPass
  <2>2. pc'[t] = "skew"
    BY <1>3, <1>5
  <2> QED
    BY <1>0, <1>2, <1>3, <1>4, <1>5, <2>1, <2>2, QuietRanges
<1>6. CASE L("part") # <<>> /\ s = Head(L("part")) /\ queue' = [queue EXCEPT !["part"].list = Tail(@)]
  <2>1. /\ s \in ToSet(L("part"))
        /\ \A r \in Names : ToSet(L(r)') \subseteq ToSet(L(r))
    BY <1>0, <1>6, Taken
  <2>2. s \in DOMAIN slots /\ s # NoSlot
    <3>1. s \in DOMAIN slots
      BY <1>0, <2>1 DEF Held
    <3>2. s \in SlotName
      BY <1>0, <3>1 DEF ControlOK
    <3> QED
      BY <3>1, <3>2, SlotIsSome
  <2>3. pc'[t] = "cluster"
    BY <1>3, <2>2
  <2>4. s \in Live /\ \A q \in Names : ToSet(L(q)') \subseteq Live
    BY <1>0, <2>1, LiveNow
  <2>5. IsPart(s)
    BY <1>0, <1>4, <2>1 DEF Kinds
  <2>6. Dividing' => skewtask' \in Live
    <3>1. Dividing' => Dividing
      BY <1>2, <1>3, ZeroIsThread DEF Dividing
    <3> QED
      BY <1>0, <1>2, <3>1, LiveNow
  <2>7. SkewHeld'
    <3>1. \A u \in Threads : Holds(u)' \subseteq Holds(u) \cup {s}
      BY <1>3, <2>3 DEF Holds, Working
    <3>2. SkewHeld /\ Kept
      BY <1>0, <1>2 DEF Kinds, Kept
    <3>3. \A r : r \in ToSet(L("part")) => Placed(r)
      BY <1>0 DEF Placed
    <3>4. \A u \in Threads : skewtask \in Holds(u)' => Placed(skewtask)
      BY <2>1, <3>1, <3>3 DEF Placed
    <3>5. \A q \in Names : skewtask \in ToSet(L(q)') => Placed(skewtask)
      BY <2>1 DEF Placed
    <3> QED
      BY <1>2, <3>2, <3>4, <3>5, SkewStays
  <2>8. Offers(t)'
    BY <2>3 DEF Offers
  <2>9. Splitting' /\ Partitions'
    <3>1. CASE t = 0
      BY <1>2, <2>3, <3>1 DEF Splitting, Partitions, InPass
    <3>2. CASE t # 0
      BY <1>0, <1>2, <1>3, <3>2, ZeroIsThread, ZeroStays
    <3> QED
      BY <3>1, <3>2
  <2> QED
    BY <1>0, <1>2, <1>3, <1>4, <2>1, <2>3, <2>4, <2>5, <2>6, <2>7, <2>8, <2>9, SlotsKept
<1> QED
  BY <1>1, <1>5, <1>6 DEF GetTask, L

LEMMA TakeJoinRanges ==
    ASSUME TaskInv, RangeInv, TaskInv', NEW t \in Threads, input' = input, TakeJoin(t)
    PROVE  RangesOK'
<1>0. /\ ControlOK /\ ControlOK' /\ Held /\ Kinds /\ RangesOK
      /\ "join" \in Names /\ "skew" \in Names /\ "part" \in Names
  BY DEF TaskInv, RangeInv, RangesOK, Names
<1>1. PICK s \in DOMAIN slots \cup {NoSlot} :
         /\ GetTask("join", s) /\ task' = [task EXCEPT ![t] = s]
         /\ IF s = NoSlot THEN Arrive(t, "end")
            ELSE Goto(t, IF input.join = "PRO" THEN "chain" ELSE "reorder")
  BY DEF TakeJoin
<1>2. /\ pc[t] = "join" /\ UNCHANGED <<slots, skewtask, fresh, output, hist, pass, x>>
      /\ i' = [i EXCEPT ![t] = 0]
  BY <1>1 DEF TakeJoin, partition
<1>3. /\ IF s = NoSlot THEN pc'[t] = "barrier" /\ after'[t] = "end" ELSE pc'[t] \in {"chain", "reorder"}
      /\ task'[t] = s
      /\ \A u \in Threads \ {t} :
           /\ pc'[u] = pc[u] /\ after'[u] = after[u] /\ pass'[u] = pass[u]
           /\ task'[u] = task[u] /\ fresh'[u] = fresh[u] /\ i'[u] = i[u] /\ output'[u] = output[u]
  <2>1. i \in [Threads -> Nat]
    BY DEF RangeInv, Shape
  <2> QED
    BY <1>0, <1>1, <1>2, <2>1 DEF ControlOK, Arrive, Goto
<1>4. ~ Early(t)'
  BY <1>3 DEF Early
<1>5. CASE queue' = queue /\ s = NoSlot
  <2>1. t = 0 =>
           /\ pc'[0] \notin {"make", "split"}
           /\ pc[0] \in {"skew", "split"} => pc'[0] \in {"skew", "split"}
           /\ InPass(0)' /\ pass'[0] = 1 => InPass(0) /\ pass[0] = 1
    BY <1>2, <1>3, <1>5 DEF InPass
  <2>2. pc'[t] = "barrier"
    BY <1>3, <1>5
  <2> QED
    BY <1>0, <1>2, <1>3, <1>4, <1>5, <2>1, <2>2, QuietRanges
<1>6. CASE L("join") # <<>> /\ s = Head(L("join")) /\ queue' = [queue EXCEPT !["join"].list = Tail(@)]
  <2>1. /\ s \in ToSet(L("join"))
        /\ \A r \in Names : ToSet(L(r)') \subseteq ToSet(L(r))
    BY <1>0, <1>6, Taken
  <2>2. s \in DOMAIN slots /\ s # NoSlot
    <3>1. s \in DOMAIN slots
      BY <1>0, <2>1 DEF Held
    <3>2. s \in SlotName
      BY <1>0, <3>1 DEF ControlOK
    <3> QED
      BY <3>1, <3>2, SlotIsSome
  <2>3. pc'[t] \in {"chain", "reorder"}
    BY <1>3, <2>2
  <2>4. s \in Live /\ \A q \in Names : ToSet(L(q)') \subseteq Live
    BY <1>0, <2>1, LiveNow
  <2>6. Dividing' => skewtask' \in Live
    <3>1. Dividing' => Dividing
      BY <1>2, <1>3, ZeroIsThread DEF Dividing
    <3> QED
      BY <1>0, <1>2, <3>1, LiveNow
  <2>7. SkewHeld'
    <3>1. \A u \in Threads : Holds(u)' \subseteq Holds(u) \cup {s}
      BY <1>3, <2>3 DEF Holds, Working
    <3>2. SkewHeld /\ Kept
      BY <1>0, <1>2 DEF Kinds, Kept
    <3>3. \A r : r \in ToSet(L("join")) => Placed(r)
      BY <1>0 DEF Placed
    <3>4. \A u \in Threads : skewtask \in Holds(u)' => Placed(skewtask)
      BY <2>1, <3>1, <3>3 DEF Placed
    <3>5. \A q \in Names : skewtask \in ToSet(L(q)') => Placed(skewtask)
      BY <2>1 DEF Placed
    <3> QED
      BY <1>2, <3>2, <3>4, <3>5, SkewStays
  <2>8. Offers(t)'
    BY <2>3 DEF Offers
  <2>9. Splitting' /\ Partitions'
    <3>1. CASE t = 0
      BY <1>2, <2>3, <3>1 DEF Splitting, Partitions, InPass
    <3>2. CASE t # 0
      BY <1>0, <1>2, <1>3, <3>2, ZeroIsThread, ZeroStays
    <3> QED
      BY <3>1, <3>2
  <2> QED
    BY <1>0, <1>2, <1>3, <1>4, <2>1, <2>3, <2>4, <2>6, <2>7, <2>8, <2>9, SlotsKept
<1> QED
  BY <1>1, <1>5, <1>6 DEF GetTask, L

-----------------------------------------------------------------------------
(* Threads partition, and make joins of what they have partitioned.        *)

LEMMA AddedTo ==
    ASSUME ControlOK, NEW q \in Names, NEW a \in SlotName, queue' = [queue EXCEPT ![q] = add(@, a)]
    PROVE  /\ ToSet(L(q)') = {a} \cup ToSet(L(q)) /\ \A r \in Names \ {q} : L(r)' = L(r)
<1>1. queue[q] \in TaskQueue /\ L(q) \in Seq(SlotName)
  BY DEF ControlOK, TaskQueue, L
<1> DEFINE l == <<a>> \o L(q)
<1>2. l \in Seq(SlotName) /\ ToSet(l) = {a} \cup ToSet(L(q))
  BY <1>1, FrontAdded
<1> HIDE DEF l
<1> DEFINE new == [queue[q] EXCEPT !.list = l]
<1>3. new.list = l
  BY <1>1, <1>2, WithList
<1>4. queue' = [queue EXCEPT ![q] = new]
  BY DEF add, l, L
<1> HIDE DEF new
<1>5. L(q)' = l /\ \A r \in Names \ {q} : L(r)' = L(r)
  BY <1>3, <1>4 DEF L, ControlOK
<1> QED
  BY <1>2, <1>5

LEMMA ClusterRanges ==
    ASSUME TaskInv, RangeInv, TaskInv', NEW t \in Threads, input' = input, radix_cluster(t)
    PROVE  RangesOK'
<1>0. /\ ControlOK /\ ControlOK' /\ Held /\ Laid /\ Unread /\ Kinds /\ RangesOK
      /\ "part" \in Names /\ "skew" \in Names
  BY DEF TaskInv, RangeInv, RangesOK, Names
<1> DEFINE tk == slots[task[t]]
<1>1. /\ pc[t] = "cluster" /\ pc' = [pc EXCEPT ![t] = "offer"] /\ i' = [i EXCEPT ![t] = 0]
      /\ output' = [output EXCEPT ![t] = [y \in {"R", "S"} |-> Counts(tk, y)]]
      /\ UNCHANGED <<after, pass, queue, slots, skewtask, task, fresh>>
  BY DEF radix_cluster, Goto, queues
<1>2. /\ pc'[t] = "offer" /\ i'[t] = 0 /\ \A y \in Both : output'[t][y] = Counts(tk, y)
      /\ \A u \in Threads \ {t} :
           /\ pc'[u] = pc[u] /\ after'[u] = after[u] /\ pass'[u] = pass[u]
           /\ task'[u] = task[u] /\ fresh'[u] = fresh[u] /\ i'[u] = i[u] /\ output'[u] = output[u]
  <2>1. i \in [Threads -> Nat] /\ DOMAIN output = Threads
    BY DEF RangeInv, Shape
  <2> HIDE DEF tk
  <2> QED
    BY <1>0, <1>1, <2>1 DEF ControlOK, Both
<1>3. task[t] \in Live /\ IsPart(task[t]) /\ task[t] \in Holds(t) /\ task[t] \in DOMAIN slots
  BY <1>0, <1>1, LiveNow DEF Kinds, Holds, Working, Held
<1>4. tk \in TaskOf
  BY <1>0, <1>3 DEF Laid
<1>5. \A q : L(q)' = L(q)
  BY <1>1 DEF L
<1>6. \A q \in Names : ToSet(L(q)') \subseteq Live
  BY <1>0, <1>5, LiveNow
<1>7. Dividing' => skewtask' \in Live
  <2>1. Dividing' => Dividing
    BY <1>1, <1>2, ZeroIsThread DEF Dividing
  <2> QED
    BY <1>0, <1>1, <2>1, LiveNow
<1>8. SkewHeld'
  <2>1. \A u \in Threads : Holds(u)' \subseteq Holds(u)
    BY <1>1, <1>2 DEF Holds, Working
  <2>2. SkewHeld /\ Kept
    BY <1>0, <1>1 DEF Kinds, Kept
  <2>3. /\ \A u \in Threads : skewtask \in Holds(u)' => Placed(skewtask)
        /\ \A q \in Names : skewtask \in ToSet(L(q)') => Placed(skewtask)
    BY <1>5, <2>1 DEF Placed
  <2> QED
    BY <1>1, <2>2, <2>3, SkewStays
<1>9. Offers(t)'
  <2>1. ASSUME NEW y \in Both
        PROVE  /\ \A c \in 0 .. FANOUT_PASS2 : output'[t][y][c] \in Nat
               /\ SumBelow(output'[t][y], FANOUT_PASS2) <= slots[task[t]][y].n
               /\ SumBelow(output'[t][y], 0) = 0
    <3> DEFINE f == Counts(tk, y)
               k == 0
    <3>1. /\ \A c \in 0 .. FANOUT_PASS2 : f[c] \in Nat
          /\ SumBelow(f, FANOUT_PASS2) <= tk[y].n
      BY <1>4, TaskCounts
    <3>2. output'[t][y] = f
      BY <1>2
    <3> HIDE DEF f
    <3>3. k \in Nat /\ \A j \in 0 .. k - 1 : f[j] \in Nat
      OBVIOUS
    <3> HIDE DEF k
    <3>4. SumBelow(f, 0) = 0
      BY <3>3, Sums DEF SumBelow
    <3> QED
      BY <3>1, <3>2, <3>4
  <2>2. task'[t] = task[t] /\ slots' = slots
    BY <1>1
  <2>3. ASSUME NEW y \in Both PROVE Reached(t, y)' = slots[task[t]][y].start
    <3>1. Reached(t, y)' = slots[task[t]][y].start + SumBelow(output'[t][y], 0) + 0 * SMALL_PADDING_TUPLES
      BY <1>2, <2>2 DEF Reached
    <3>2. slots[task[t]][y].start \in Nat
      BY <1>0, <1>3, LaidTypes
    <3> DEFINE e == slots[task[t]][y].start
    <3> HIDE DEF e
    <3>3. 0 * SMALL_PADDING_TUPLES = 0
      BY Fanouts
    <3> QED
      BY <2>1, <3>1, <3>2, <3>3
  <2>4. \A y \in Both : ClearIn(slots, task[t], y, slots[task[t]][y].start)
    BY <1>0, <1>3 DEF Unread, Clear
  <2>5. 0 <= FANOUT_PASS2
    BY Fanouts
  <2> QED
    BY <1>2, <2>1, <2>2, <2>3, <2>4, <2>5 DEF Offers, Clear
<1>10. Splitting' /\ Partitions'
  <2>1. CASE t = 0
    BY <1>2, <2>1 DEF Splitting, Partitions, InPass
  <2>2. CASE t # 0
    BY <1>0, <1>1, <1>2, <2>2, ZeroIsThread, ZeroStays
  <2> QED
    BY <2>1, <2>2
<1>11. Early(t)
  BY <1>1 DEF Early
<1>12. task'[t] = task[t] /\ slots' = slots /\ skewtask' = skewtask
  BY <1>1
<1> HIDE DEF tk
<1> QED
  BY <1>0, <1>2, <1>3, <1>5, <1>6, <1>7, <1>8, <1>9, <1>10, <1>11, <1>12, SlotsKept

LEMMA AddRanges ==
    ASSUME TaskInv, RangeInv, TaskInv', NEW t \in Threads, input' = input, task_queue_add_atomic(t)
    PROVE  RangesOK'
<1>0. /\ ControlOK /\ ControlOK' /\ Held /\ Kinds /\ RangesOK /\ Offering
      /\ "part" \in Names /\ "skew" \in Names /\ "join" \in Names
  BY DEF TaskInv, RangeInv, RangesOK, Names
<1>1. /\ pc[t] = "add" /\ pc' = [pc EXCEPT ![t] = "offer"] /\ i' = [i EXCEPT ![t] = @ + 1]
      /\ queue' = [queue EXCEPT !["join"] = add(@, fresh[t])]
      /\ UNCHANGED <<after, pass, output, slots, skewtask, task, fresh>>
  BY DEF task_queue_add_atomic, Goto, partition
<1>2. /\ pc'[t] = "offer" /\ i'[t] = i[t] + 1
      /\ \A u \in Threads \ {t} :
           /\ pc'[u] = pc[u] /\ after'[u] = after[u] /\ pass'[u] = pass[u]
           /\ task'[u] = task[u] /\ fresh'[u] = fresh[u] /\ i'[u] = i[u] /\ output'[u] = output[u]
  <2>1. i \in [Threads -> Nat]
    BY DEF RangeInv, Shape
  <2> QED
    BY <1>0, <1>1, <2>1 DEF ControlOK
<1>3. fresh[t] \in Holds(t) /\ fresh[t] \in SlotName /\ fresh[t] \in Live
  <2>1. fresh[t] \in Holds(t)
    BY <1>1 DEF Holds
  <2>2. fresh[t] \in DOMAIN slots
    BY <1>0, <2>1 DEF Held
  <2> QED
    BY <1>0, <1>1, <2>1, <2>2, LiveNow DEF ControlOK
<1>4. ToSet(L("join")') = {fresh[t]} \cup ToSet(L("join")) /\ \A r \in Names \ {"join"} : L(r)' = L(r)
  BY <1>0, <1>1, <1>3, AddedTo
<1>5. \A q \in Names : ToSet(L(q)') \subseteq Live
  BY <1>0, <1>3, <1>4, LiveNow
<1>6. L("skew")' = L("skew") /\ L("part")' = L("part")
  BY <1>0, <1>4
<1>7. Dividing' => skewtask' \in Live
  <2>1. Dividing' => Dividing
    BY <1>1, <1>2, ZeroIsThread DEF Dividing
  <2> QED
    BY <1>0, <1>1, <2>1, LiveNow
<1>8. SkewHeld'
  <2>1. \A u \in Threads : Holds(u)' \subseteq Holds(u)
    BY <1>1, <1>2 DEF Holds, Working
  <2>2. SkewHeld /\ Kept
    BY <1>0, <1>1 DEF Kinds, Kept
  <2>3. \A u \in Threads : skewtask \in Holds(u)' => Placed(skewtask)
    BY <2>1 DEF Placed
  <2>4. \A q \in Names : skewtask \in ToSet(L(q)') => Placed(skewtask)
    BY <1>3, <1>4 DEF Placed
  <2> QED
    BY <1>1, <2>2, <2>3, <2>4, SkewStays
<1>9. Offers(t)'
  <2>1. task'[t] = task[t] /\ slots' = slots /\ output'[t] = output[t]
    BY <1>1
  <2>2. \A y : Reached(t, y)' = Reached(t, y)
    BY <1>1, <1>2, <2>1 DEF Reached
  <2>3. /\ i[t] < FANOUT_PASS2
        /\ \A y \in Both :
             /\ \A c \in 0 .. FANOUT_PASS2 : output[t][y][c] \in Nat
             /\ SumBelow(output[t][y], FANOUT_PASS2) <= slots[task[t]][y].n
             /\ ClearIn(slots, task[t], y, Reached(t, y))
    BY <1>0, <1>1 DEF Offering, Offers, Clear
  <2>4. i[t] + 1 <= FANOUT_PASS2
    <3>1. i[t] \in Nat /\ FANOUT_PASS2 \in Nat
      BY Fanouts DEF RangeInv, Shape
    <3> QED
      BY <2>3, <3>1
  <2> QED
    BY <1>2, <2>1, <2>2, <2>3, <2>4 DEF Offers, Clear
<1>10. Splitting' /\ Partitions'
  <2>1. CASE t = 0
    BY <1>2, <2>1 DEF Splitting, Partitions, InPass
  <2>2. CASE t # 0
    BY <1>0, <1>1, <1>2, <2>2, ZeroIsThread, ZeroStays
  <2> QED
    BY <2>1, <2>2
<1>11. Early(t) /\ IsPart(task'[t])
  BY <1>0, <1>1 DEF Early, Kinds
<1>12. slots' = slots /\ skewtask' = skewtask
  BY <1>1
<1> QED
  BY <1>0, <1>2, <1>5, <1>6, <1>7, <1>8, <1>9, <1>10, <1>11, <1>12, SlotsKept

(* How far a thread has come is inside the region of its partition.        *)
LEMMA ReachedInside ==
    ASSUME TaskInv, RangeInv, NEW u \in Threads, pc[u] \in {"offer", "add"}, NEW y \in Both
    PROVE  /\ task[u] \in DOMAIN slots /\ IsPart(task[u])
           /\ Reached(u, y) \in Nat /\ slots[task[u]][y].start <= Reached(u, y)
           /\ Reached(u, y) <= End(task[u], y)
<1>0. Held /\ Laid /\ Kinds /\ Offering
  BY DEF TaskInv, RangeInv, RangesOK
<1>1. task[u] \in DOMAIN slots /\ IsPart(task[u])
  BY <1>0 DEF Held, Holds, Working, Kinds
<1> DEFINE s == slots[task[u]][y]
           o == output[u][y]
           c == IF pc[u] = "add" THEN i[u] + 1 ELSE i[u]
<1>2. s.start \in Nat /\ s.n \in Nat /\ End(task[u], y) = s.start + s.n + PADDING_TUPLES
  BY <1>0, <1>1, LaidTypes DEF End, Past
<1>3. c \in 0 .. FANOUT_PASS2 /\ 0 \in 0 .. FANOUT_PASS2
  <2>1. i[u] \in Nat /\ i[u] <= FANOUT_PASS2 /\ (pc[u] = "add" => i[u] < FANOUT_PASS2)
    BY <1>0 DEF RangeInv, Shape, Offering, Offers
  <2> QED
    BY <2>1, Fanouts
<1>4. /\ \A d \in 0 .. FANOUT_PASS2 : o[d] \in Nat
      /\ SumBelow(o, FANOUT_PASS2) <= s.n
  BY <1>0 DEF Offering, Offers
<1>5. Reached(u, y) = s.start + SumBelow(o, c) + c * SMALL_PADDING_TUPLES
  BY DEF Reached
<1> HIDE DEF s, o, c
<1> DEFINE at == SumBelow(o, c) + c * SMALL_PADDING_TUPLES
<1>6. at \in Nat /\ at <= s.n + PADDING_TUPLES
  BY <1>2, <1>3, <1>4, Places
<1>7. SumBelow(o, c) \in Int /\ c * SMALL_PADDING_TUPLES \in Int
  <2>1. c \in Nat /\ \A k \in 0 .. FANOUT_PASS2 - 1 : o[k] \in Nat
    <3>1. \A k \in 0 .. FANOUT_PASS2 - 1 : k \in 0 .. FANOUT_PASS2
      BY Fanouts
    <3> QED
      BY <1>3, <1>4, <3>1
  <2>2. SumBelow(o, c) \in Nat
    BY <1>3, <2>1, Fanouts, Sums DEF SumBelow
  <2> QED
    BY <2>1, <2>2, Fanouts
<1>8. Reached(u, y) = s.start + at
  BY <1>2, <1>5, <1>7
<1> HIDE DEF at
<1>9. Reached(u, y) \in Nat /\ s.start <= Reached(u, y) /\ Reached(u, y) <= End(task[u], y)
  BY <1>2, <1>6, <1>8, Fanouts
<1> QED
  BY <1>1, <1>9 DEF s

-----------------------------------------------------------------------------
(* Joins are made of a partition.                                          *)

LEMMA JoinsMade ==
    ASSUME TaskInv, RangeInv, input' = input, Kept, NEW p \in DOMAIN slots \ Live, IsPart(p),
           NEW lo, NEW hi,
           \A y \in Both : /\ lo[y] \in Nat /\ hi[y] \in Nat /\ lo[y] <= hi[y]
                           /\ slots[p][y].start <= lo[y] /\ hi[y] <= End(p, y)
                           /\ ClearIn(slots, p, y, lo[y]),
           \A s \in DOMAIN slots' \ DOMAIN slots :
               /\ slots'[s] \in TaskOf /\ slots'[s].side = "rel"
               /\ \A y \in Both : /\ lo[y] <= slots'[s][y].start
                                  /\ slots'[s][y].start + slots'[s][y].n <= hi[y],
           \A a, b \in DOMAIN slots' \ DOMAIN slots : slots'[a].R = slots'[b].R,
           Live' \subseteq Live \cup (DOMAIN slots' \ DOMAIN slots)
    PROVE  /\ Laid' /\ Unread' /\ \A y \in Both : ClearIn(slots', p, y, hi[y])
           /\ \A u \in Threads : pc[u] \in {"offer", "add"} /\ task[u] # p =>
                \A y \in Both : ClearIn(slots, task[u], y, Reached(u, y))
                                  => ClearIn(slots', task[u], y, Reached(u, y))
<1>0. Shape /\ Laid /\ Unread /\ Kinds
  BY DEF RangeInv, RangesOK
<1>1. /\ Laid' /\ \A y \in Both : ClearIn(slots', p, y, hi[y])
      /\ \A a \in DOMAIN slots, y \in Both, from \in Nat :
           a # p /\ IsPart(a) /\ slots[a][y].start <= from /\ ClearIn(slots, a, y, from)
             => ClearIn(slots', a, y, from)
  <2>1. p \in DOMAIN slots
    OBVIOUS
  <2> QED
    BY <1>0, <2>1, JoinsAdded
<1>2. Unread'
  <2> SUFFICES ASSUME NEW a \in Live', NEW y \in Both, IsPart(a)'
               PROVE  ClearIn(slots', a, y, slots'[a][y].start)
    BY DEF Unread, Clear
  <2>1. a \in Live
    <3>1. a \in DOMAIN slots' \ DOMAIN slots => slots'[a].side = "rel"
      OBVIOUS
    <3> QED
      BY <3>1 DEF IsPart
  <2>2. a \in DOMAIN slots /\ a # p
    BY <1>0, <2>1, ParentsNotLive
  <2>3. slots'[a] = slots[a]
    BY <2>2 DEF Kept
  <2>4. IsPart(a) /\ slots[a][y].start \in Nat
    BY <1>0, <2>2, <2>3, LaidTypes DEF IsPart
  <2>5. ClearIn(slots, a, y, slots[a][y].start)
    BY <1>0, <2>1, <2>4 DEF Unread, Clear
  <2>6. slots[a][y].start <= slots[a][y].start
    BY <2>4
  <2> QED
    BY <1>1, <2>2, <2>3, <2>4, <2>5, <2>6
<1>3. ASSUME NEW u \in Threads, pc[u] \in {"offer", "add"}, task[u] # p, NEW y \in Both,
             ClearIn(slots, task[u], y, Reached(u, y))
      PROVE  ClearIn(slots', task[u], y, Reached(u, y))
  <2>1. /\ task[u] \in DOMAIN slots /\ IsPart(task[u])
        /\ Reached(u, y) \in Nat /\ slots[task[u]][y].start <= Reached(u, y)
    BY <1>3, ReachedInside
  <2> QED
    BY <1>1, <1>3, <2>1
<1> QED
  BY <1>1, <1>2, <1>3

(* The least of a set of loop indices.                                     *)
LEMMA LeastIn == ASSUME NEW T \in SUBSET Nat, T # {} PROVE Min(T) \in T
<1>1. \E e \in T : \A y \in T : e <= y
  BY NatLeast
<1> QED
  BY <1>1 DEF Min

LEMMA OfferRanges ==
    ASSUME TaskInv, RangeInv, TaskInv', NEW t \in Threads, input' = input, Offer(t)
    PROVE  RangesOK'
<1> DEFINE rest == {c \in i[t] .. FANOUT_PASS2 - 1 : Joinable(Offered(t, c))}
           m == Min(rest)
           a == get_slot(queue["join"], "join").slot
           p == task[t]
           o == Offered(t, m)
           nk == [R |-> o.R, S |-> o.S, side |-> "rel"]
<1>0. /\ ControlOK /\ ControlOK' /\ GivenOut /\ Held /\ Together
      /\ Laid /\ Unread /\ Kinds /\ Offering /\ RangesOK /\ Shape
      /\ "part" \in Names /\ "skew" \in Names /\ "join" \in Names
  BY DEF TaskInv, RangeInv, RangesOK, Names
<1>1. pc[t] = "offer" /\ UNCHANGED <<output, hist, pass, x, tuples, skewtask, task, after>>
  BY DEF Offer, partition, Goto
<1>2. CASE rest = {}
  <2>1. pc' = [pc EXCEPT ![t] = "part"] /\ UNCHANGED <<queue, slots, i, fresh>>
    BY <1>2 DEF Offer, Goto
  <2>2. /\ pc'[t] = "part"
        /\ \A u \in Threads \ {t} : pc'[u] = pc[u]
    BY <1>0, <2>1 DEF ControlOK
  <2>3. Early(t)
    BY <1>1 DEF Early
  <2>4. ~ (InPass(t)')
    BY <2>2 DEF InPass
  <2> QED
    BY <1>0, <1>1, <2>1, <2>2, <2>3, <2>4, QuietRanges
<1>3. CASE rest # {}
  <2>1. /\ i' = [i EXCEPT ![t] = m] /\ slots' = Holding(a, nk) /\ fresh' = [fresh EXCEPT ![t] = a]
        /\ queue' = [queue EXCEPT !["join"] = get_slot(queue["join"], "join").queue]
        /\ pc' = [pc EXCEPT ![t] = "add"]
    BY <1>3 DEF Offer, Goto
  <2>2. /\ i[t] \in Nat /\ i[t] <= FANOUT_PASS2 /\ FANOUT_PASS2 \in Nat /\ i \in [Threads -> Nat]
        /\ \A y \in Both :
             /\ \A c \in 0 .. FANOUT_PASS2 : output[t][y][c] \in Nat
             /\ SumBelow(output[t][y], FANOUT_PASS2) <= slots[p][y].n
             /\ ClearIn(slots, p, y, Reached(t, y))
    BY <1>0, <1>1, Fanouts DEF Shape, Offering, Offers, Clear
  <2>3. m \in i[t] .. FANOUT_PASS2 - 1
    <3>1. rest \in SUBSET Nat
      BY <2>2
    <3> HIDE DEF rest
    <3>2. m \in rest
      BY <1>3, <3>1, LeastIn
    <3> QED
      BY <3>2 DEF rest
  <2>4. /\ m \in Nat /\ i[t] \in 0 .. FANOUT_PASS2 /\ m \in 0 .. FANOUT_PASS2 /\ m + 1 \in 0 .. FANOUT_PASS2
        /\ i[t] <= m /\ m < FANOUT_PASS2 /\ m \in 0 .. FANOUT_PASS2 - 1
    BY <2>2, <2>3
  <2>5. p \in DOMAIN slots \ Live /\ IsPart(p) /\ p \in Holds(t)
    BY <1>0, <1>1, ParentsNotLive DEF Kinds, Holds, Working
  <2>6. a \notin DOMAIN slots /\ a \in SlotName /\ \A r \in Names : L(r)' = L(r)
    <3> DEFINE q == "join"
               D == DOMAIN slots
               g == get_slot(queue[q], q)
    <3>1. q \in Names /\ q = "join" /\ queue[q] \in TaskQueue /\ D \in SUBSET SlotName
          /\ \A s \in D : s[1] = q => Behind(s, queue[q])
      BY <1>0 DEF ControlOK, GivenOut
    <3>2. queue' = [queue EXCEPT ![q] = g.queue] /\ a = g.slot
      BY <2>1
    <3> HIDE DEF q, D, a
    <3>3. g.slot \in SlotName \ D /\ g.queue.list = queue[q].list
      BY <3>1, NewSlot
    <3> HIDE DEF g
    <3>4. \A r \in Names : L(r)' = L(r)
      BY <1>0, <3>1, <3>2, <3>3 DEF L, ControlOK
    <3> QED
      BY <3>2, <3>3, <3>4 DEF D
  <2> HIDE DEF a, m, rest
  <2>7. DOMAIN slots' = DOMAIN slots \cup {a} /\ slots'[a] = nk /\ Kept
    <3> HIDE DEF nk
    <3> QED
      BY <2>1, <2>6 DEF Holding, Kept
  <2>8. \A y \in Both : /\ nk[y].start = slots[p][y].start + SumBelow(output[t][y], m) + m * SMALL_PADDING_TUPLES
                        /\ nk[y].n = output[t][y][m]
    BY DEF Offered, Both
  <2> DEFINE at(y, c) == SumBelow(output[t][y], c) + c * SMALL_PADDING_TUPLES
             lo == [y \in Both |-> slots[p][y].start + at(y, i[t])]
             hi == [y \in Both |-> slots[p][y].start + at(y, m + 1)]
  <2>9. ASSUME NEW y \in Both
        PROVE  /\ at(y, i[t]) \in Nat /\ at(y, m) \in Nat /\ at(y, m + 1) \in Nat
               /\ at(y, i[t]) <= at(y, m) /\ at(y, m) + output[t][y][m] <= at(y, m + 1)
               /\ at(y, m + 1) <= slots[p][y].n + PADDING_TUPLES /\ output[t][y][m] \in Nat
               /\ \A c \in 0 .. FANOUT_PASS2 : SumBelow(output[t][y], c) \in Nat /\ c * SMALL_PADDING_TUPLES \in Nat
    <3> DEFINE f == output[t][y]
               n == slots[p][y].n
    <3>1. n \in Nat
      BY <1>0, <2>5, LaidTypes
    <3>2. (\A c \in 0 .. FANOUT_PASS2 : f[c] \in Nat) /\ SumBelow(f, FANOUT_PASS2) <= n
      BY <2>2
    <3> HIDE DEF f, n
    <3>3. /\ \A c \in 0 .. FANOUT_PASS2 :
                /\ SumBelow(f, c) + c * SMALL_PADDING_TUPLES \in Nat
                /\ SumBelow(f, c) + c * SMALL_PADDING_TUPLES <= n + PADDING_TUPLES
          /\ \A c, d \in 0 .. FANOUT_PASS2 : c <= d =>
                SumBelow(f, c) + c * SMALL_PADDING_TUPLES <= SumBelow(f, d) + d * SMALL_PADDING_TUPLES
          /\ \A c \in 0 .. FANOUT_PASS2 - 1 :
                SumBelow(f, c) + c * SMALL_PADDING_TUPLES + f[c]
                  <= SumBelow(f, c + 1) + (c + 1) * SMALL_PADDING_TUPLES
      BY <3>1, <3>2, Places
    <3>4. \A c \in 0 .. FANOUT_PASS2 : SumBelow(f, c) \in Nat /\ c * SMALL_PADDING_TUPLES \in Nat
      <4>1. \A k \in 0 .. FANOUT_PASS2 - 1 : f[k] \in Nat
        <5>1. \A k \in 0 .. FANOUT_PASS2 - 1 : k \in 0 .. FANOUT_PASS2
          BY Fanouts
        <5> QED
          BY <3>2, <5>1
      <4>2. \A c \in 0 .. FANOUT_PASS2 : SumBelow(f, c) \in Nat
        BY <4>1, Fanouts, Sums DEF SumBelow
      <4>3. \A c \in 0 .. FANOUT_PASS2 : c * SMALL_PADDING_TUPLES \in Nat
        BY Fanouts
      <4> QED
        BY <4>2, <4>3
    <3> QED
      BY <2>4, <3>2, <3>3, <3>4 DEF f, n
  <2>10. ASSUME NEW y \in Both
         PROVE  /\ lo[y] \in Nat /\ hi[y] \in Nat /\ lo[y] <= hi[y]
                /\ slots[p][y].start <= lo[y] /\ hi[y] <= End(p, y)
                /\ ClearIn(slots, p, y, lo[y])
                /\ lo[y] <= nk[y].start /\ nk[y].start + nk[y].n <= hi[y]
                /\ nk[y].start \in Nat /\ nk[y].n \in Nat
    <3>1. /\ slots[p][y].start \in Nat /\ slots[p][y].n \in Nat
          /\ End(p, y) = slots[p][y].start + slots[p][y].n + PADDING_TUPLES
      BY <1>0, <2>5, LaidTypes DEF End, Past
    <3>2. Reached(t, y) = slots[p][y].start + SumBelow(output[t][y], i[t]) + i[t] * SMALL_PADDING_TUPLES
      BY <1>1 DEF Reached
    <3>3. /\ SumBelow(output[t][y], i[t]) \in Nat /\ i[t] * SMALL_PADDING_TUPLES \in Nat
          /\ SumBelow(output[t][y], m) \in Nat /\ m * SMALL_PADDING_TUPLES \in Nat
      BY <2>4, <2>9
    <3>4. lo[y] = Reached(t, y)
      BY <3>1, <3>2, <3>3
    <3>5. nk[y].start = slots[p][y].start + at(y, m) /\ nk[y].n = output[t][y][m]
      BY <2>8, <3>1, <3>3
    <3>6. lo[y] = slots[p][y].start + at(y, i[t]) /\ hi[y] = slots[p][y].start + at(y, m + 1)
      OBVIOUS
    <3>7. ClearIn(slots, p, y, lo[y])
      BY <2>2, <3>4
    <3> HIDE DEF lo, hi, at, nk
    <3> QED
      BY <2>9, <3>1, <3>5, <3>6, <3>7, Fanouts
  <2>11. nk \in TaskOf /\ nk.side = "rel"
    <3>1. \A y \in Both : Offered(t, m)[y] \in Extent
      <4> SUFFICES ASSUME NEW y \in Both PROVE Offered(t, m)[y] \in Extent
        OBVIOUS
      <4>1. /\ Offered(t, m)[y] = [start |-> nk[y].start, n |-> nk[y].n]
        BY <2>8 DEF Offered, Both
      <4>2. nk[y].start \in Nat /\ nk[y].n \in Nat
        BY <2>10
      <4> HIDE DEF nk
      <4> QED
        BY <4>1, <4>2 DEF Extent
    <3>2. o.R = Offered(t, m)["R"] /\ o.S = Offered(t, m)["S"]
      OBVIOUS
    <3> HIDE DEF o
    <3> QED
      BY <3>1, <3>2 DEF TaskOf, Both
  <2> HIDE DEF nk
  <2>12. /\ pc'[t] = "add" /\ i'[t] = m /\ fresh'[t] = a
         /\ \A u \in Threads \ {t} :
              /\ pc'[u] = pc[u] /\ after'[u] = after[u] /\ pass'[u] = pass[u]
              /\ task'[u] = task[u] /\ fresh'[u] = fresh[u] /\ i'[u] = i[u] /\ output'[u] = output[u]
    BY <1>0, <1>1, <2>1, <2>2 DEF ControlOK
  <2>13. Live' \subseteq Live \cup {a}
    <3>1. /\ \A q \in Names : ToSet(L(q)) \subseteq Live
          /\ \A u \in Threads : pc[u] \in {"cluster", "chain", "reorder", "probe"} => task[u] \in Live
          /\ \A u \in Threads : pc[u] = "add" => fresh[u] \in Live
          /\ Dividing => skewtask \in Live
      BY <1>0, LiveNow
    <3> DEFINE N == Live \cup {a}
    <3>2. \A q \in Names : ToSet(L(q)') \subseteq N
      BY <2>6, <3>1
    <3>3. \A u \in Threads : pc'[u] \in {"cluster", "chain", "reorder", "probe"} => task'[u] \in N
      BY <2>12, <3>1
    <3>4. \A u \in Threads : pc'[u] = "add" => fresh'[u] \in N
      BY <2>12, <3>1
    <3>5. Dividing' => skewtask' \in N
      <4>1. Dividing' => Dividing
        BY <1>1, <2>12, ZeroIsThread DEF Dividing
      <4> QED
        BY <1>1, <3>1, <4>1
    <3> HIDE DEF N
    <3>6. Live' \subseteq N
      BY <1>0, <3>2, <3>3, <3>4, <3>5, LiveNext
    <3> QED
      BY <3>6 DEF N
  <2>14. /\ Laid' /\ Unread' /\ \A y \in Both : ClearIn(slots', p, y, hi[y])
         /\ \A u \in Threads : pc[u] \in {"offer", "add"} /\ task[u] # p =>
              \A y \in Both : ClearIn(slots, task[u], y, Reached(u, y))
                                => ClearIn(slots', task[u], y, Reached(u, y))
    <3>1. DOMAIN slots' \ DOMAIN slots = {a}
      BY <2>6, <2>7
    <3>2. \A s \in DOMAIN slots' \ DOMAIN slots :
               /\ slots'[s] \in TaskOf /\ slots'[s].side = "rel"
               /\ \A y \in Both : /\ lo[y] <= slots'[s][y].start
                                  /\ slots'[s][y].start + slots'[s][y].n <= hi[y]
      BY <2>7, <2>10, <2>11, <3>1
    <3>3. \A b, c \in DOMAIN slots' \ DOMAIN slots : slots'[b].R = slots'[c].R
      BY <3>1
    <3>4. Live' \subseteq Live \cup (DOMAIN slots' \ DOMAIN slots)
      BY <2>13, <3>1
    <3> HIDE DEF lo, hi, p
    <3> QED
      BY <2>5, <2>7, <2>10, <3>2, <3>3, <3>4, JoinsMade
  <2>15. Offering'
    <3> SUFFICES ASSUME NEW u \in Threads PROVE Offers(u)'
      BY DEF Offering
    <3>1. CASE u # t
      <4>1. pc[u] \in {"offer", "add"} => task[u] # p /\ task[u] \in DOMAIN slots
        BY <1>0, <2>5, <3>1 DEF Held, Holds, Working
      <4>2. pc[u] \in {"offer", "add"} =>
               \A y \in Both : ClearIn(slots, task[u], y, Reached(u, y))
                                 => ClearIn(slots', task[u], y, Reached(u, y))
        BY <2>14, <4>1
      <4>3. CASE pc[u] \in {"offer", "add"}
        <5>1. u \in Threads \ {t}
          BY <3>1
        <5>2. pc'[u] = pc[u] /\ task'[u] = task[u] /\ i'[u] = i[u] /\ output'[u] = output[u]
          BY <2>12, <5>1
        <5> QED
          BY <1>0, <2>7, <4>1, <4>2, <4>3, <5>2, OffersStay
      <4>4. CASE pc[u] \notin {"offer", "add"}
        BY <2>12, <3>1, <4>4 DEF Offers
      <4> QED
        BY <4>3, <4>4
    <3>2. CASE u = t
      <4>1. task'[t] = p /\ slots'[p] = slots[p] /\ output'[t] = output[t]
        BY <1>1, <2>5, <2>7 DEF Kept
      <4>2. ASSUME NEW y \in Both PROVE Reached(t, y)' = hi[y]
        <5>1. Reached(t, y)' = slots[p][y].start + SumBelow(output[t][y], m + 1) + (m + 1) * SMALL_PADDING_TUPLES
          BY <2>12, <4>1 DEF Reached
        <5>2. slots[p][y].start \in Nat
          BY <1>0, <2>5, LaidTypes
        <5>3. SumBelow(output[t][y], m + 1) \in Nat /\ (m + 1) * SMALL_PADDING_TUPLES \in Nat
          BY <2>4, <2>9
        <5>4. hi[y] = slots[p][y].start + (SumBelow(output[t][y], m + 1) + (m + 1) * SMALL_PADDING_TUPLES)
          OBVIOUS
        <5> HIDE DEF hi
        <5> QED
          BY <5>1, <5>2, <5>3, <5>4
      <4>3. \A y \in Both : ClearIn(slots', p, y, Reached(t, y)')
        BY <2>14, <4>2
      <4>4. m <= FANOUT_PASS2 /\ m < FANOUT_PASS2
        BY <2>2, <2>4
      <4> QED
        BY <2>2, <2>12, <3>2, <4>1, <4>3, <4>4 DEF Offers, Clear
    <3> QED
      BY <3>1, <3>2
  <2>16. pc[0] \notin {"make", "split"} /\ ~ InPass(0) /\ pc'[0] \notin {"make", "split"} /\ ~ (InPass(0)')
    <3>1. pc[0] \in {"part", "cluster", "offer", "add", "skew"} \/ To(0, "skewtask")
      BY <1>0, <1>1, AtWork, ZeroIsThread
    <3>2. pc'[0] \in {"part", "cluster", "offer", "add", "skew"} \/ (pc'[0] = "barrier" /\ after'[0] = "skewtask")
      BY <1>1, <2>12, <3>1, ZeroIsThread DEF To
    <3> QED
      BY <3>1, <3>2 DEF InPass, To
  <2>17. Splitting' /\ Partitions'
    BY <2>16 DEF Splitting, Partitions
  <2>18. Kinds'
    <3>1. \A u \in Threads : Early(u)' => \E w \in Threads : Early(w)
      BY <1>1 DEF Early
    <3>2. \A s \in DOMAIN slots : IsPart(s)' <=> IsPart(s)
      BY <2>7 DEF Kept, IsPart
    <3>3. \A q \in Names : ToSet(L(q)) \subseteq DOMAIN slots
      BY <1>0 DEF Held
    <3>4. \A u \in Threads : pc'[u] \in {"cluster", "offer", "add"} =>
            task'[u] = task[u] /\ IsPart(task[u]) /\ task[u] \in DOMAIN slots
      <4> SUFFICES ASSUME NEW u \in Threads, pc'[u] \in {"cluster", "offer", "add"}
                   PROVE  task'[u] = task[u] /\ IsPart(task[u]) /\ task[u] \in DOMAIN slots
        OBVIOUS
      <4>1. pc[u] \in {"cluster", "offer", "add"} /\ task'[u] = task[u]
        BY <1>1, <2>12
      <4>2. task[u] \in Holds(u)
        BY <4>1 DEF Holds, Working
      <4> QED
        BY <1>0, <4>1, <4>2 DEF Kinds, Held
    <3>5. SkewHeld'
      <4>1. \A u \in Threads : Holds(u)' \subseteq Holds(u) \cup {a}
        BY <1>1, <2>12 DEF Holds, Working
      <4>2. \A u \in Threads : skewtask \in Holds(u)' => Placed(skewtask) \/ skewtask \notin DOMAIN slots
        BY <2>6, <4>1 DEF Placed
      <4>3. \A q \in Names : skewtask \in ToSet(L(q)') => Placed(skewtask) \/ skewtask \notin DOMAIN slots
        BY <2>6 DEF Placed
      <4>4. SkewHeld
        BY <1>0 DEF Kinds
      <4> QED
        BY <1>1, <2>7, <4>2, <4>3, <4>4, SkewStays
    <3>6. \A s \in ToSet(L("skew")') : IsPart(s)'
      BY <1>0, <2>6, <3>2, <3>3 DEF Kinds
    <3>7. (\E u \in Threads : Early(u)') => \A s \in ToSet(L("part")') : IsPart(s)'
      BY <1>0, <2>6, <3>1, <3>2, <3>3 DEF Kinds
    <3>8. \A u \in Threads : pc'[u] \in {"cluster", "offer", "add"} => slots'[task'[u]].side = "tmp"
      BY <3>2, <3>4 DEF IsPart
    <3> QED
      BY <3>5, <3>6, <3>7, <3>8 DEF Kinds, IsPart
  <2> QED
    BY <2>14, <2>15, <2>17, <2>18 DEF RangesOK
<1> QED
  BY <1>2, <1>3

-----------------------------------------------------------------------------
(* The first thread makes the tasks.                                       *)

LEMMA TaskAdded ==
    ASSUME ControlOK, GivenOut, NEW q \in Names, NEW tk, AddTask(q, tk)
    PROVE  \E a \in SlotName \ DOMAIN slots :
             /\ DOMAIN slots' = DOMAIN slots \cup {a} /\ slots'[a] = tk /\ Kept
             /\ ToSet(L(q)') = {a} \cup ToSet(L(q)) /\ \A r \in Names \ {q} : L(r)' = L(r)
<1> DEFINE g == get_slot(queue[q], q)
           D == DOMAIN slots
           a == g.slot
<1>1. /\ queue[q] \in TaskQueue /\ D \in SUBSET SlotName
      /\ \A s \in D : s[1] = q => Behind(s, queue[q])
  BY DEF ControlOK, GivenOut
<1> HIDE DEF D
<1>2. a \in SlotName \ D /\ g.queue \in TaskQueue /\ g.queue.list = queue[q].list
  BY <1>1, NewSlot
<1>3. queue' = [queue EXCEPT ![q] = add(g.queue, a)] /\ slots' = Holding(a, tk)
  BY DEF AddTask
<1> HIDE DEF g, a
<1>4. DOMAIN slots' = DOMAIN slots \cup {a} /\ slots'[a] = tk /\ Kept
  BY <1>2, <1>3 DEF Holding, Kept, D
<1>5. L(q) \in Seq(SlotName) /\ g.queue.list = L(q)
  BY <1>1, <1>2 DEF TaskQueue, L
<1> DEFINE l == <<a>> \o L(q)
<1>6. l \in Seq(SlotName) /\ ToSet(l) = {a} \cup ToSet(L(q))
  BY <1>2, <1>5, FrontAdded
<1>7. add(g.queue, a) = [g.queue EXCEPT !.list = l]
  BY <1>5 DEF add
<1> HIDE DEF l
<1>8. add(g.queue, a).list = l
  BY <1>2, <1>6, <1>7, WithList
<1>9. L(q)' = l /\ \A r \in Names \ {q} : L(r)' = L(r)
  BY <1>3, <1>8 DEF L, ControlOK
<1> QED
  BY <1>2, <1>4, <1>6, <1>9 DEF D

(* What is clear from a position on is clear from a later one on.          *)
LEMMA ClearLater ==
    ASSUME Laid, NEW s \in DOMAIN slots, NEW y \in Both, NEW p \in Nat, NEW r \in Nat, p <= r,
           ClearIn(slots, s, y, p)
    PROVE  ClearIn(slots, s, y, r)
<1> SUFFICES ASSUME NEW b \in DOMAIN slots, slots[b].side = "rel"
             PROVE  \/ slots[b][y].start + slots[b][y].n <= r
                    \/ slots[s][y].start + slots[s][y].n + PADDING_TUPLES <= slots[b][y].start
  BY DEF ClearIn
<1>1. \/ slots[b][y].start + slots[b][y].n <= p
      \/ slots[s][y].start + slots[s][y].n + PADDING_TUPLES <= slots[b][y].start
  BY DEF ClearIn
<1>2. slots[b][y].start \in Nat /\ slots[b][y].n \in Nat
  BY LaidTypes
<1> QED
  BY <1>1, <1>2

LEMMA PartedGrows ==
    ASSUME NEW y, NEW F \in Nat, NEW P \in Nat, NEW n \in Nat, Parted(y, F, P, n), NEW c \in 0 .. F
    PROVE  output[0][y][c] <= n + F * P
<1> DEFINE o == output[0][y]
           T == {k \in Nat : k <= F => o[F - k] <= o[F]}
<1>1. /\ \A d \in 0 .. F : o[d] \in Nat
      /\ \A d \in 0 .. F - 1 : o[d] + P <= o[d + 1]
      /\ o[F] = n + F * P
  BY DEF Parted
<1> HIDE DEF o
<1>2. 0 \in T
  <2>1. F - 0 = F /\ F \in 0 .. F
    OBVIOUS
  <2> QED
    BY <1>1, <2>1
<1>3. ASSUME NEW k \in Nat, k \in T PROVE k + 1 \in T
  <2> SUFFICES ASSUME k + 1 <= F PROVE o[F - (k + 1)] <= o[F]
    OBVIOUS
  <2> DEFINE d == F - (k + 1)
  <2>1. d \in 0 .. F - 1 /\ d + 1 = F - k /\ d \in 0 .. F /\ d + 1 \in 0 .. F /\ F \in 0 .. F /\ k <= F
    OBVIOUS
  <2>2. o[F - k] <= o[F]
    BY <1>3, <2>1
  <2> HIDE DEF d
  <2>3. o[d] + P <= o[d + 1] /\ o[d] \in Nat /\ o[d + 1] \in Nat /\ o[F] \in Nat
    BY <1>1, <2>1
  <2>4. o[d] <= o[F]
    BY <2>1, <2>2, <2>3
  <2> QED
    BY <2>4 DEF d
<1> HIDE DEF T
<1>4. F - c \in T /\ F - c \in Nat
  BY <1>2, <1>3, NatInd
<1>5. F - (F - c) = c /\ F - c <= F
  OBVIOUS
<1>6. o[c] <= o[F]
  BY <1>4, <1>5 DEF T
<1> QED
  BY <1>1, <1>6 DEF o

LEMMA MakeRanges ==
    ASSUME TaskInv, RangeInv, TaskInv', NEW t \in Threads, input' = input, MakeTask(t)
    PROVE  RangesOK'
<1>0. /\ ControlOK /\ ControlOK' /\ GivenOut /\ Held /\ Held' /\ Together
      /\ Laid /\ Unread /\ Kinds /\ Offering /\ RangesOK /\ Shape /\ Outputs /\ Partitions
      /\ "part" \in Names /\ "skew" \in Names /\ "join" \in Names
  BY DEF TaskInv, RangeInv, RangesOK, Names
<1>1. /\ pc[t] = "make" /\ UNCHANGED <<output, hist, pass, x, tuples, skewtask, task, fresh>>
  BY DEF MakeTask, partition
<1>2. t = 0 /\ \A u \in Threads : u # 0 => pc[u] = "made" \/ To(u, "part")
  BY <1>0, <1>1, AtMake
<1>3. CASE i[t] = FANOUT_PASS1
  <2>1. pc' = [pc EXCEPT ![t] = "made"] /\ UNCHANGED <<after, queue, slots, i>>
    BY <1>3 DEF MakeTask, Goto
  <2>2. /\ pc'[t] = "made"
        /\ \A u \in Threads \ {t} : pc'[u] = pc[u]
    BY <1>0, <2>1 DEF ControlOK
  <2>3. Early(t)
    BY <1>1 DEF Early
  <2>4. ~ (InPass(t)')
    BY <2>2 DEF InPass
  <2> QED
    BY <1>0, <1>1, <1>2, <2>1, <2>2, <2>3, <2>4, QuietRanges
<1>4. CASE i[t] # FANOUT_PASS1
  <2> DEFINE c == i[0]
             R == Partition("R", c, PADDING_TUPLES)
             S == Partition("S", c, PADDING_TUPLES)
             tk == [R |-> R, S |-> S, side |-> "tmp"]
  <2>1. /\ \/ AddTask("skew", tk) \/ AddTask("part", tk)
           \/ UNCHANGED <<queue, slots>>
        /\ i' = [i EXCEPT ![0] = @ + 1] /\ UNCHANGED <<pc, after>>
    BY <1>2, <1>4 DEF MakeTask
  <2>2. /\ c \in 0 .. FANOUT_PASS1 - 1 /\ c + 1 \in 0 .. FANOUT_PASS1 /\ c \in 0 .. FANOUT_PASS1
        /\ i'[0] = c + 1 /\ c + 1 <= FANOUT_PASS1
        /\ \A s \in DOMAIN slots : IsPart(s) /\ \A y \in Both : End(s, y) <= output[0][y][c]
        /\ FANOUT_PASS1 \in Nat /\ PADDING_TUPLES \in Nat
    <3>1. /\ c <= FANOUT_PASS1 /\ c \in Nat /\ FANOUT_PASS1 \in Nat /\ c # FANOUT_PASS1 /\ PADDING_TUPLES \in Nat
          /\ i \in [Threads -> Nat] /\ 0 \in Threads
      BY <1>0, <1>1, <1>2, <1>4, Fanouts DEF Partitions, Shape
    <3>2. i'[0] = c + 1
      BY <2>1, <3>1
    <3>3. \A s \in DOMAIN slots : IsPart(s) /\ \A y \in Both : End(s, y) <= output[0][y][c]
      BY <1>0, <1>1, <1>2 DEF Partitions
    <3> HIDE DEF c
    <3> QED
      BY <3>1, <3>2, <3>3
  <2>3. ASSUME NEW y \in Both
        PROVE  /\ Parted(y, FANOUT_PASS1, PADDING_TUPLES, Len(input[y])) /\ Len(input[y]) \in Nat
               /\ output[0][y][c] \in Nat /\ output[0][y][c + 1] \in Nat
               /\ output[0][y][c] + PADDING_TUPLES <= output[0][y][c + 1]
               /\ output[0][y][c + 1] <= ArraySize(y) /\ ArraySize(y) \in Nat
    <3>1. Making /\ pass[0] = 1
      BY <1>0, <1>1, <1>2 DEF Outputs, Making
    <3>2. Parted(y, Clusters(0), Gap(0), Amount(0, y))
      BY <1>0, <3>1 DEF Outputs
    <3>3. Clusters(0) = FANOUT_PASS1 /\ Gap(0) = PADDING_TUPLES /\ Amount(0, y) = Len(input[y])
      BY <3>1 DEF Clusters, Gap, Amount
    <3>4. Parted(y, FANOUT_PASS1, PADDING_TUPLES, Len(input[y]))
      BY <3>2, <3>3
    <3>5. Len(input[y]) \in Nat /\ ArraySize(y) \in Nat
      BY <1>0, Inputs2
    <3>6. /\ output[0][y][c] \in Nat /\ output[0][y][c + 1] \in Nat
          /\ output[0][y][c] + PADDING_TUPLES <= output[0][y][c + 1]
      BY <2>2, <3>4 DEF Parted
    <3>7. output[0][y][c + 1] <= Len(input[y]) + FANOUT_PASS1 * PADDING_TUPLES
      <4> DEFINE n == Len(input[y])
                 d == c + 1
      <4>1. d \in 0 .. FANOUT_PASS1 /\ n \in Nat /\ Parted(y, FANOUT_PASS1, PADDING_TUPLES, n)
        BY <2>2, <3>4, <3>5
      <4> HIDE DEF n, d
      <4>2. output[0][y][d] <= n + FANOUT_PASS1 * PADDING_TUPLES
        BY <2>2, <4>1, PartedGrows
      <4> QED
        BY <4>2 DEF n, d
    <3>8. FANOUT_PASS1 * PADDING_TUPLES = PADDING_TUPLES * FANOUT_PASS1
      BY <2>2
    <3> QED
      BY <3>4, <3>5, <3>6, <3>7, <3>8 DEF ArraySize
  <2> DEFINE o(y) == output[0][y][c]
             p(y) == output[0][y][c + 1]
  <2>4. ASSUME NEW y \in Both
        PROVE  /\ tk[y].start = o(y) /\ tk[y].n = p(y) - o(y) - PADDING_TUPLES
               /\ tk[y] \in Extent
               /\ tk[y].start + tk[y].n + PADDING_TUPLES = p(y)
    <3>1. tk[y] = [start |-> o(y), n |-> p(y) - o(y) - PADDING_TUPLES]
      BY DEF Partition, Both
    <3>2. o(y) \in Nat /\ p(y) \in Nat /\ o(y) + PADDING_TUPLES <= p(y) /\ PADDING_TUPLES \in Nat
      BY <2>2, <2>3
    <3> HIDE DEF o, p, tk
    <3>3. p(y) - o(y) - PADDING_TUPLES \in Nat
      BY <3>2
    <3> QED
      BY <3>1, <3>2, <3>3 DEF Extent
  <2>5. tk \in TaskOf /\ tk.side = "tmp"
    <3>1. R \in Extent /\ S \in Extent
      BY <2>4 DEF Both
    <3> HIDE DEF R, S
    <3> QED
      BY <3>1 DEF TaskOf
  <2> HIDE DEF tk
  <2>6. /\ \A u \in Threads : pc'[u] \notin {"cluster", "chain", "reorder", "probe", "offer", "add"}
        /\ pc'[0] = "make"
    BY <1>1, <1>2, <2>1 DEF To
  <2>7. Offering' /\ Splitting'
    BY <2>6 DEF Offering, Offers, Splitting
  <2>8. \A u \in Threads : (Early(u)' <=> Early(u)) /\ Holds(u)' = Holds(u)
    BY <1>1, <2>1 DEF Early, Holds, Working
  <2>9. CASE UNCHANGED <<queue, slots>>
    <3>1. Partitions'
      <4>1. ~ (InPass(0)')
        BY <2>6 DEF InPass
      <4>2. \A s \in DOMAIN slots, y \in Both : End(s, y)' = End(s, y) /\ (IsPart(s)' <=> IsPart(s))
        BY <2>9 DEF End, Past, IsPart
      <4>3. ASSUME NEW s \in DOMAIN slots, NEW y \in Both PROVE End(s, y) <= output[0][y][c + 1]
        <5>1. End(s, y) \in Nat /\ End(s, y) <= output[0][y][c]
          BY <1>0, <2>2, LaidTypes
        <5> QED
          BY <2>2, <2>3, <5>1
      <4>4. \A s \in DOMAIN slots : IsPart(s)'
        BY <2>2, <2>9 DEF IsPart
      <4>5. output' = output /\ slots' = slots
        BY <1>1, <2>9
      <4> HIDE DEF c
      <4> QED
        BY <2>2, <4>1, <4>2, <4>3, <4>4, <4>5 DEF Partitions
    <3>2. \A q : L(q)' = L(q)
      BY <2>9 DEF L
    <3>3. \A u \in Threads \ {t} :
               /\ pc'[u] = pc[u] /\ after'[u] = after[u] /\ pass'[u] = pass[u]
               /\ task'[u] = task[u] /\ fresh'[u] = fresh[u] /\ i'[u] = i[u] /\ output'[u] = output[u]
      <4>1. i \in [Threads -> Nat]
        BY <1>0 DEF Shape
      <4> QED
        BY <1>1, <1>2, <2>1, <4>1
    <3>4. SkewHeld'
      BY <1>0, <1>1, <2>8, <2>9, <3>2 DEF Kinds, SkewHeld, Placed, IsPart
    <3>5. \A q \in Names : ToSet(L(q)') \subseteq Live
      BY <1>0, <3>2, LiveNow
    <3>6. Dividing' => skewtask' \in Live
      <4>1. Dividing' => Dividing
        BY <1>1, <2>1 DEF Dividing
      <4> QED
        BY <1>0, <1>1, <4>1, LiveNow
    <3>7. Offers(t)'
      BY <2>7 DEF Offering
    <3>8. slots' = slots
      BY <2>9
    <3> QED
      BY <1>0, <2>6, <2>7, <2>8, <3>1, <3>2, <3>3, <3>4, <3>5, <3>6, <3>7, <3>8, SlotsKept
  <2>10. ASSUME NEW q \in Names, AddTask(q, tk) PROVE RangesOK'
    <3>1. PICK a \in SlotName \ DOMAIN slots :
             /\ DOMAIN slots' = DOMAIN slots \cup {a} /\ slots'[a] = tk /\ Kept
             /\ ToSet(L(q)') = {a} \cup ToSet(L(q)) /\ \A r \in Names \ {q} : L(r)' = L(r)
      BY <1>0, <2>10, TaskAdded
    <3>2. /\ \A s \in DOMAIN slots : IsPart(s)
          /\ \A y \in Both : tk[y].start + tk[y].n + PADDING_TUPLES <= ArraySize(y)
          /\ \A s \in DOMAIN slots, y \in Both : End(s, y) <= tk[y].start
      BY <2>2, <2>3, <2>4
    <3>3. /\ Laid' /\ \A s, y, from : ClearIn(slots', s, y, from)
          /\ \A s \in DOMAIN slots' : slots'[s].side = "tmp"
          /\ \A s \in DOMAIN slots', y \in Both :
                End(s, y)' <= tk[y].start + tk[y].n + PADDING_TUPLES
      <4>1. a \notin DOMAIN slots
        OBVIOUS
      <4> QED
        BY <1>0, <2>5, <3>1, <3>2, <4>1, PartAdded
    <3>4. Unread'
      BY <3>3 DEF Unread, Clear
    <3>5. Partitions'
      <4>1. ~ (InPass(0)')
        BY <2>6 DEF InPass
      <4>2. \A s \in DOMAIN slots', y \in Both : End(s, y)' <= output[0][y][c + 1]
        BY <2>4, <3>3
      <4>3. output' = output /\ i'[0] = c + 1 /\ c + 1 <= FANOUT_PASS1
        BY <1>1, <2>2
      <4>4. \A s \in DOMAIN slots' : IsPart(s)'
        BY <3>3 DEF IsPart
      <4> HIDE DEF c
      <4> QED
        BY <4>1, <4>2, <4>3, <4>4 DEF Partitions
    <3>6. Kinds'
      <4>1. \A r \in Names : ToSet(L(r)') \subseteq DOMAIN slots'
        BY <1>0 DEF Held
      <4>2. SkewHeld'
        <5>1. SkewHeld
          BY <1>0 DEF Kinds
        <5>2. \A u \in Threads : skewtask \in Holds(u)' => Placed(skewtask) \/ skewtask \notin DOMAIN slots
          BY <2>8 DEF Placed
        <5>3. \A r \in Names : skewtask \in ToSet(L(r)') => Placed(skewtask) \/ skewtask \notin DOMAIN slots
          BY <3>1 DEF Placed
        <5> QED
          BY <1>1, <3>1, <5>1, <5>2, <5>3, SkewStays
      <4>3. \A s \in DOMAIN slots' : IsPart(s)'
        BY <3>3 DEF IsPart
      <4>4. /\ \A s \in ToSet(L("skew")') : IsPart(s)'
            /\ \A s \in ToSet(L("part")') : IsPart(s)'
        BY <1>0, <4>1, <4>3
      <4> QED
        BY <2>6, <4>2, <4>4 DEF Kinds
    <3> QED
      BY <2>7, <3>3, <3>4, <3>5, <3>6 DEF RangesOK
  <2> QED
    BY <1>0, <2>1, <2>9, <2>10
<1> QED
  BY <1>3, <1>4

-----------------------------------------------------------------------------
(* The first thread makes the joins of a large partition.                  *)

(* The pieces of a join have its R, and a part of its S.                   *)
LEMMA PieceInside ==
    ASSUME NEW R \in Extent, NEW S \in Extent, NEW k \in 0 .. nthreads - 1
    PROVE  /\ Piece(k, R, S) \in TaskOf /\ Piece(k, R, S).side = "rel" /\ Piece(k, R, S).R = R
           /\ S.start <= Piece(k, R, S).S.start
           /\ Piece(k, R, S).S.start + Piece(k, R, S).S.n <= S.start + S.n
<1> DEFINE n == S.n
           q == n \div nthreads
           m == IF k = nthreads - 1 THEN n - k * q ELSE q
           T == nthreads
<1>1. T \in Nat \ {0} /\ n \in Nat /\ S.start \in Nat /\ k \in Nat /\ k <= T - 1
  BY SizesAssumption DEF Extent
<1>2. Piece(k, R, S) = [R |-> R, side |-> "rel", S |-> [start |-> S.start + k * q, n |-> m]]
  BY DEF Piece
<1>3. q \in Nat /\ T * q <= n
  <2> HIDE DEF n, T
  <2>1. n \div T \in Nat /\ n % T \in 0 .. T - 1 /\ n = T * (n \div T) + (n % T)
    BY <1>1, Division
  <2> DEFINE d == n \div T
             r == n % T
  <2> HIDE DEF d, r
  <2>2. d \in Nat /\ r \in Nat /\ n = T * d + r /\ T * d \in Nat
    BY <1>1, <2>1 DEF d, r
  <2>3. T * d <= n
    BY <2>2
  <2> QED
    BY <2>2, <2>3 DEF T, d, r
<1> HIDE DEF q, n, T
<1>4. k * q \in Nat /\ (k + 1) * q = k * q + q /\ (k + 1) * q <= T * q
  BY <1>1, <1>3
<1>5. k * q + q <= n
  <2>1. T * q \in Nat
    BY <1>1, <1>3
  <2> QED
    BY <1>1, <1>3, <1>4, <2>1
<1>6. m \in Nat /\ k * q + m <= n
  BY <1>1, <1>3, <1>4, <1>5 DEF T
<1> HIDE DEF m
<1>7. S.start + k * q \in Nat /\ S.start <= S.start + k * q /\ S.start + k * q + m <= S.start + n
  BY <1>1, <1>4, <1>6
<1> QED
  BY <1>2, <1>6, <1>7 DEF TaskOf, Extent, n

(* The slots that AddPieces gives out.                                     *)
LEMMA PiecesMade ==
    ASSUME ControlOK, GivenOut, Held, NEW R, NEW S, AddPieces(R, S)
    PROVE  /\ Kept
           /\ \A s \in DOMAIN slots' \ DOMAIN slots : \E k \in 0 .. nthreads - 1 : slots'[s] = Piece(k, R, S)
           /\ ToSet(L("part")') \subseteq ToSet(L("part")) \cup (DOMAIN slots' \ DOMAIN slots)
           /\ \A r \in Names \ {"part"} : L(r)' = L(r)
<1> DEFINE A == WithPieces(R, S)
           G(k) == /\ Grown("part", A[k].queue, DOMAIN A[k].slots)
                   /\ \A s \in DOMAIN slots : A[k].slots[s] = slots[s]
                   /\ \A s \in DOMAIN A[k].slots \ DOMAIN slots :
                        \E j \in 0 .. nthreads - 1 : A[k].slots[s] = Piece(j, R, S)
           T == {k \in Nat : k <= nthreads => G(k)}
<1>1. "part" \in Names
  BY DEF Names
<1>2. 0 \in T
  <2>1. A[0].queue = queue["part"] /\ A[0].slots = slots
    BY PiecesDef
  <2> HIDE DEF A
  <2>2. Grown("part", queue["part"], DOMAIN slots)
    BY <1>1, NotGrown
  <2> QED
    BY <2>1, <2>2
<1>3. ASSUME NEW k \in Nat, k \in T PROVE k + 1 \in T
  <2> SUFFICES ASSUME k + 1 <= nthreads PROVE G(k + 1)
    OBVIOUS
  <2>1. k + 1 \in 1 .. nthreads /\ (k + 1) - 1 = k /\ k <= nthreads /\ k \in 0 .. nthreads - 1
    BY SizesAssumption
  <2>2. A[k + 1] = PieceAdded(A[k], k + 1, R, S)
    BY <2>1, PiecesDef
  <2>3. G(k)
    BY <1>3, <2>1
  <2> DEFINE g == get_slot(A[k].queue, "part")
             D == DOMAIN A[k].slots
  <2> HIDE DEF A
  <2>4. /\ A[k + 1].queue = add(g.queue, g.slot) /\ DOMAIN A[k + 1].slots = D \cup {g.slot}
        /\ A[k + 1].slots[g.slot] = Piece(k, R, S)
        /\ \A s \in D : s # g.slot => A[k + 1].slots[s] = A[k].slots[s]
    BY <2>1, <2>2 DEF PieceAdded
  <2>5. Grown("part", add(g.queue, g.slot), D \cup {g.slot})
    BY <1>1, <2>3, GrowsOne
  <2>6. g.slot \notin D /\ DOMAIN slots \subseteq D
    <3> DEFINE q == "part"
               qu == A[k].queue
    <3>1. qu \in TaskQueue /\ D \in SUBSET SlotName /\ \A s \in D : s[1] = q => Behind(s, qu)
      BY <2>3 DEF Grown
    <3>2. q \in Names
      BY <1>1
    <3>3. DOMAIN slots \subseteq D
      BY <2>3 DEF Grown
    <3>4. g.slot = get_slot(qu, q).slot
      OBVIOUS
    <3> HIDE DEF q, qu, D, g
    <3>5. get_slot(qu, q).slot \in SlotName \ D
      BY <3>1, <3>2, NewSlot
    <3> QED
      BY <3>3, <3>4, <3>5
  <2> HIDE DEF g
  <2>7. \A s \in DOMAIN slots : A[k + 1].slots[s] = slots[s]
    BY <2>3, <2>4, <2>6
  <2>8. \A s \in DOMAIN A[k + 1].slots \ DOMAIN slots :
           \E j \in 0 .. nthreads - 1 : A[k + 1].slots[s] = Piece(j, R, S)
    <3> SUFFICES ASSUME NEW s \in DOMAIN A[k + 1].slots \ DOMAIN slots
                 PROVE  \E j \in 0 .. nthreads - 1 : A[k + 1].slots[s] = Piece(j, R, S)
      OBVIOUS
    <3>1. CASE s = g.slot
      BY <2>1, <2>4, <3>1
    <3>2. CASE s # g.slot
      BY <2>3, <2>4, <3>2
    <3> QED
      BY <3>1, <3>2
  <2> QED
    BY <2>4, <2>5, <2>7, <2>8
<1> HIDE DEF T
<1>4. nthreads \in T
  BY <1>2, <1>3, NatInd, SizesAssumption
<1>5. G(nthreads)
  BY <1>4, SizesAssumption DEF T
<1>6. slots' = A[nthreads].slots /\ queue' = [queue EXCEPT !["part"] = A[nthreads].queue]
  BY DEF AddPieces
<1> HIDE DEF A
<1>7. L("part")' = A[nthreads].queue.list /\ \A r \in Names \ {"part"} : L(r)' = L(r)
  BY <1>1, <1>6 DEF L, ControlOK
<1> QED
  BY <1>5, <1>6, <1>7 DEF Grown, Kept

LEMMA SplitMakes ==
    ASSUME TaskInv, RangeInv, TaskInv', input' = input, pc[0] = "split", i[0] # FANOUT_PASS2,
           i' = [i EXCEPT ![0] = @ + 1],
           UNCHANGED <<pc, after, output, pass, x, skewtask, task, fresh>>, Kept,
           \A s \in DOMAIN slots' \ DOMAIN slots :
               /\ slots'[s] \in TaskOf /\ slots'[s].side = "rel"
               /\ \A y \in Both : /\ SkewRange(y, i[0]).start <= slots'[s][y].start
                                  /\ slots'[s][y].start + slots'[s][y].n
                                       <= SkewRange(y, i[0]).start + SkewRange(y, i[0]).n,
           \A a, b \in DOMAIN slots' \ DOMAIN slots : slots'[a].R = slots'[b].R,
           \A q \in Names : ToSet(L(q)') \subseteq ToSet(L(q)) \cup (DOMAIN slots' \ DOMAIN slots),
           L("skew")' = L("skew")
    PROVE  RangesOK'
<1> DEFINE New == DOMAIN slots' \ DOMAIN slots
           p == skewtask
           c == i[0]
           lo == [y \in Both |-> slots[p][y].start + output[0][y][c]]
           hi == [y \in Both |-> slots[p][y].start + output[0][y][c + 1]]
<1>0. /\ ControlOK /\ ControlOK' /\ Held /\ Together
      /\ Laid /\ Unread /\ Kinds /\ Offering /\ RangesOK /\ Shape /\ Outputs /\ Splitting
      /\ "part" \in Names /\ "skew" \in Names /\ "join" \in Names /\ 0 \in Threads
  BY ZeroIsThread DEF TaskInv, RangeInv, RangesOK, Names
<1>1. \A u \in Threads : u # 0 => pc[u] = "skew" \/ To(u, "skewtask")
  BY <1>0, AtSplit
<1>2. Parting /\ pass[0] = 2 /\ p # NoSlot
  BY <1>0 DEF Outputs, Parting
<1>3. p \in DOMAIN slots \ Live /\ IsPart(p)
  BY <1>0, <1>2, ParentsNotLive DEF Kinds, SkewHeld
<1>4. /\ c \in 0 .. FANOUT_PASS2 - 1 /\ c + 1 \in 0 .. FANOUT_PASS2 /\ c \in 0 .. FANOUT_PASS2
      /\ i'[0] = c + 1 /\ c + 1 <= FANOUT_PASS2
      /\ FANOUT_PASS2 \in Nat /\ SMALL_PADDING_TUPLES \in Nat
  <2>1. /\ c <= FANOUT_PASS2 /\ c \in Nat /\ FANOUT_PASS2 \in Nat /\ c # FANOUT_PASS2
        /\ SMALL_PADDING_TUPLES \in Nat /\ i \in [Threads -> Nat]
    BY <1>0, Fanouts DEF Splitting, Shape
  <2>2. i'[0] = c + 1
    BY <1>0, <2>1
  <2> HIDE DEF c
  <2> QED
    BY <2>1, <2>2
<1>5. ASSUME NEW y \in Both
      PROVE  /\ output[0][y][c] \in Nat /\ output[0][y][c + 1] \in Nat
             /\ output[0][y][c] + SMALL_PADDING_TUPLES <= output[0][y][c + 1]
             /\ output[0][y][c + 1] <= slots[p][y].n + PADDING_TUPLES
             /\ slots[p][y].start \in Nat /\ slots[p][y].n \in Nat
             /\ End(p, y) = slots[p][y].start + slots[p][y].n + PADDING_TUPLES
  <2>1. Parted(y, Clusters(0), Gap(0), Amount(0, y))
    BY <1>0, <1>2 DEF Outputs
  <2>2. Clusters(0) = FANOUT_PASS2 /\ Gap(0) = SMALL_PADDING_TUPLES /\ Amount(0, y) = slots[p][y].n
    BY <1>2 DEF Clusters, Gap, Amount
  <2>3. Parted(y, FANOUT_PASS2, SMALL_PADDING_TUPLES, slots[p][y].n)
    BY <2>1, <2>2
  <2>4. slots[p][y].start \in Nat /\ slots[p][y].n \in Nat
    BY <1>0, <1>3, LaidTypes
  <2>5. /\ output[0][y][c] \in Nat /\ output[0][y][c + 1] \in Nat
        /\ output[0][y][c] + SMALL_PADDING_TUPLES <= output[0][y][c + 1]
    BY <1>4, <2>3 DEF Parted
  <2>6. output[0][y][c + 1] <= slots[p][y].n + FANOUT_PASS2 * SMALL_PADDING_TUPLES
    <3> DEFINE n == slots[p][y].n
               d == c + 1
    <3>1. d \in 0 .. FANOUT_PASS2 /\ n \in Nat /\ Parted(y, FANOUT_PASS2, SMALL_PADDING_TUPLES, n)
      BY <1>4, <2>3, <2>4
    <3> HIDE DEF n, d
    <3>2. output[0][y][d] <= n + FANOUT_PASS2 * SMALL_PADDING_TUPLES
      BY <1>4, <3>1, PartedGrows
    <3> QED
      BY <3>2 DEF n, d
  <2>7. FANOUT_PASS2 * SMALL_PADDING_TUPLES <= PADDING_TUPLES /\ PADDING_TUPLES \in Nat
        /\ FANOUT_PASS2 * SMALL_PADDING_TUPLES \in Nat
    <3> DEFINE e == FANOUT_PASS2 * SMALL_PADDING_TUPLES
    <3>1. e \in Nat
      BY Fanouts
    <3>2. PADDING_TUPLES = e + SMALL_PADDING_TUPLES
      BY Fanouts
    <3> HIDE DEF e
    <3>3. e <= PADDING_TUPLES /\ PADDING_TUPLES \in Nat
      BY <1>4, <3>1, <3>2
    <3> QED
      BY <3>1, <3>3 DEF e
  <2>8. output[0][y][c + 1] <= slots[p][y].n + PADDING_TUPLES
    <3> DEFINE e == FANOUT_PASS2 * SMALL_PADDING_TUPLES
               b == output[0][y][c + 1]
               n == slots[p][y].n
    <3>1. e \in Nat /\ b \in Nat /\ n \in Nat /\ b <= n + e /\ e <= PADDING_TUPLES /\ PADDING_TUPLES \in Nat
      BY <2>4, <2>5, <2>6, <2>7
    <3> HIDE DEF e, b, n
    <3>2. b <= n + PADDING_TUPLES
      BY <3>1
    <3> QED
      BY <3>2 DEF b, n
  <2> QED
    BY <2>4, <2>5, <2>8 DEF End, Past
<1>6. ASSUME NEW y \in Both
      PROVE  /\ lo[y] \in Nat /\ hi[y] \in Nat /\ lo[y] <= hi[y]
             /\ slots[p][y].start <= lo[y] /\ hi[y] <= End(p, y)
             /\ ClearIn(slots, p, y, lo[y])
             /\ lo[y] = SkewRange(y, c).start
             /\ SkewRange(y, c).start + SkewRange(y, c).n <= hi[y]
  <2> DEFINE a == slots[p][y].start
             n == slots[p][y].n
             b == output[0][y][c]
             d == output[0][y][c + 1]
             l == lo[y]
             h == hi[y]
  <2>1. /\ SkewRange(y, c) = [start |-> a + b, n |-> d - b - SMALL_PADDING_TUPLES]
        /\ l = a + b /\ h = a + d
    BY DEF SkewRange, Partition
  <2>2. ClearIn(slots, p, y, a + b)
    BY <1>0 DEF Splitting, Clear
  <2>3. /\ a \in Nat /\ n \in Nat /\ b \in Nat /\ d \in Nat /\ b + SMALL_PADDING_TUPLES <= d
        /\ d <= n + PADDING_TUPLES /\ End(p, y) = a + n + PADDING_TUPLES
        /\ SMALL_PADDING_TUPLES \in Nat /\ PADDING_TUPLES \in Nat
    BY <1>4, <1>5, Fanouts
  <2> HIDE DEF a, n, b, d, l, h
  <2>4. /\ l \in Nat /\ h \in Nat /\ l <= h /\ a <= l /\ h <= End(p, y)
        /\ SkewRange(y, c).start = l /\ SkewRange(y, c).start + SkewRange(y, c).n <= h
    BY <2>1, <2>3
  <2> QED
    BY <2>1, <2>2, <2>4 DEF a, l, h
<1>7. Live' \subseteq Live \cup New
  <2>1. \A q \in Names : ToSet(L(q)) \subseteq Live
    BY <1>0, LiveNow
  <2> DEFINE N == Live \cup New
  <2>2. \A q \in Names : ToSet(L(q)') \subseteq N
    BY <2>1
  <2>3. \A u \in Threads : pc'[u] \notin {"cluster", "chain", "reorder", "probe", "add"}
    BY <1>0, <1>1 DEF To
  <2>4. ~ (Dividing')
    BY <1>0 DEF Dividing
  <2> HIDE DEF N
  <2>5. Live' \subseteq N
    BY <1>0, <2>2, <2>3, <2>4, LiveNext
  <2> QED
    BY <2>5 DEF N
<1>8. Laid' /\ Unread' /\ \A y \in Both : ClearIn(slots', p, y, hi[y])
  <2>1. \A s \in New :
               /\ slots'[s] \in TaskOf /\ slots'[s].side = "rel"
               /\ \A y \in Both : /\ lo[y] <= slots'[s][y].start
                                  /\ slots'[s][y].start + slots'[s][y].n <= hi[y]
    <3> SUFFICES ASSUME NEW s \in New
                 PROVE  /\ slots'[s] \in TaskOf /\ slots'[s].side = "rel"
                        /\ \A y \in Both : /\ lo[y] <= slots'[s][y].start
                                           /\ slots'[s][y].start + slots'[s][y].n <= hi[y]
      OBVIOUS
    <3>1. slots'[s] \in TaskOf /\ slots'[s].side = "rel"
      OBVIOUS
    <3>2. ASSUME NEW y \in Both
          PROVE  lo[y] <= slots'[s][y].start /\ slots'[s][y].start + slots'[s][y].n <= hi[y]
      <4> DEFINE sr == SkewRange(y, c)
                 st == slots'[s][y].start
                 sn == slots'[s][y].n
                 l == lo[y]
                 h == hi[y]
                 e == sr.start + sr.n
      <4>1. /\ sr.start <= st /\ st + sn <= e
        OBVIOUS
      <4>2. st \in Nat /\ sn \in Nat
        BY <3>1 DEF TaskOf, Extent, Both
      <4>3. l = sr.start /\ e <= h /\ h \in Nat /\ l \in Nat
        BY <1>6
      <4>4. e \in Int
        <5>1. sr.start \in Int /\ sr.n \in Int
          <6>1. sr.start = slots[p][y].start + output[0][y][c]
                /\ sr.n = output[0][y][c + 1] - output[0][y][c] - SMALL_PADDING_TUPLES
            BY DEF SkewRange, Partition
          <6> HIDE DEF sr, c
          <6> QED
            BY <1>4, <1>5, <6>1
        <5> QED
          BY <5>1
      <4> HIDE DEF sr, st, sn, l, h, e
      <4>5. l <= st /\ st + sn <= h
        BY <4>1, <4>2, <4>3, <4>4
      <4> QED
        BY <4>5 DEF l, h, st, sn
    <3> HIDE DEF lo, hi
    <3> QED
      BY <3>1, <3>2
  <2>2. \A a, b \in New : slots'[a].R = slots'[b].R
    OBVIOUS
  <2> HIDE DEF lo, hi, p
  <2> QED
    BY <1>3, <1>6, <1>7, <2>1, <2>2, JoinsMade
<1>9. Offering' /\ Partitions'
  <2>1. \A u \in Threads : pc'[u] \notin {"offer", "add"}
    BY <1>0, <1>1 DEF To
  <2>2. ~ (InPass(0)') /\ pc'[0] # "make"
    BY DEF InPass
  <2> QED
    BY <2>1, <2>2 DEF Offering, Offers, Partitions
<1>10. Splitting'
  <2>1. \A y \in Both : slots'[skewtask'][y].start + output'[0][y][c + 1] = hi[y]
    BY <1>3 DEF Kept
  <2>2. \A y \in Both : ClearIn(slots', skewtask', y, hi[y])
    BY <1>8
  <2> HIDE DEF c, hi
  <2> QED
    BY <1>4, <2>1, <2>2 DEF Splitting, Clear
<1>11. Kinds'
  <2>1. \A u \in Threads : ~ (Early(u)') /\ pc'[u] \notin {"cluster", "offer", "add"}
    BY <1>0, <1>1 DEF Early, To
  <2>2. SkewHeld'
    <3>1. \A u \in Threads : Holds(u)' = Holds(u)
      BY DEF Holds, Working
    <3>2. \A u \in Threads : skewtask \in Holds(u)' => Placed(skewtask) \/ skewtask \notin DOMAIN slots
      BY <3>1 DEF Placed
    <3>3. \A q \in Names : skewtask \in ToSet(L(q)') => Placed(skewtask) \/ skewtask \notin DOMAIN slots
      BY DEF Placed
    <3>4. SkewHeld
      BY <1>0 DEF Kinds
    <3> QED
      BY <3>2, <3>3, <3>4, SkewStays
  <2>3. \A s \in ToSet(L("skew")') : IsPart(s)'
    BY <1>0 DEF Kinds, IsPart, Kept, Held
  <2> QED
    BY <2>1, <2>2, <2>3 DEF Kinds
<1> QED
  BY <1>8, <1>9, <1>10, <1>11 DEF RangesOK

LEMMA SkewExtents ==
    ASSUME TaskInv, RangeInv, pc[0] = "split", i[0] # FANOUT_PASS2
    PROVE  \A y \in Both : SkewRange(y, i[0]) \in Extent
<1> SUFFICES ASSUME NEW y \in Both PROVE SkewRange(y, i[0]) \in Extent
  OBVIOUS
<1> DEFINE p == skewtask
           c == i[0]
<1>0. ControlOK /\ Laid /\ Kinds /\ Shape /\ Outputs /\ Splitting /\ 0 \in Threads
  BY ZeroIsThread DEF TaskInv, RangeInv, RangesOK
<1>1. Parting /\ pass[0] = 2 /\ p # NoSlot /\ p \in DOMAIN slots
  BY <1>0 DEF Outputs, Parting, Kinds, SkewHeld
<1>2. c \in 0 .. FANOUT_PASS2 - 1 /\ c + 1 \in 0 .. FANOUT_PASS2 /\ c \in 0 .. FANOUT_PASS2
  <2>1. c <= FANOUT_PASS2 /\ c \in Nat /\ FANOUT_PASS2 \in Nat /\ c # FANOUT_PASS2
    BY <1>0, Fanouts DEF Splitting, Shape
  <2> HIDE DEF c
  <2> QED
    BY <2>1
<1>3. Parted(y, Clusters(0), Gap(0), Amount(0, y))
  BY <1>0, <1>1 DEF Outputs
<1>4. Clusters(0) = FANOUT_PASS2 /\ Gap(0) = SMALL_PADDING_TUPLES
  BY <1>1 DEF Clusters, Gap
<1>5. /\ output[0][y][c] \in Nat /\ output[0][y][c + 1] \in Nat
      /\ output[0][y][c] + SMALL_PADDING_TUPLES <= output[0][y][c + 1]
  BY <1>2, <1>3, <1>4 DEF Parted
<1>6. slots[p][y].start \in Nat
  BY <1>0, <1>1, LaidTypes
<1> DEFINE a == slots[p][y].start
           b == output[0][y][c]
           d == output[0][y][c + 1]
<1>7. SkewRange(y, c) = [start |-> a + b, n |-> d - b - SMALL_PADDING_TUPLES]
  BY DEF SkewRange, Partition
<1>8. a + b \in Nat /\ d - b - SMALL_PADDING_TUPLES \in Nat
  <2>1. a \in Nat /\ b \in Nat /\ d \in Nat /\ SMALL_PADDING_TUPLES \in Nat /\ b + SMALL_PADDING_TUPLES <= d
    BY <1>5, <1>6, Fanouts
  <2> HIDE DEF a, b, d
  <2> QED
    BY <2>1
<1> QED
  BY <1>7, <1>8 DEF Extent

LEMMA SplitRanges ==
    ASSUME TaskInv, RangeInv, TaskInv', NEW t \in Threads, input' = input, Split(t)
    PROVE  RangesOK'
<1>0. /\ ControlOK /\ ControlOK' /\ GivenOut /\ Held /\ Together
      /\ "part" \in Names /\ "skew" \in Names /\ "join" \in Names
  BY DEF TaskInv, Names
<1>1. /\ pc[t] = "split" /\ UNCHANGED <<output, hist, pass, x, tuples, skewtask, task, fresh>>
  BY DEF Split, partition
<1>2. t = 0 /\ pc[0] = "split"
  BY <1>0, <1>1, AtSplit
<1>3. CASE i[t] = FANOUT_PASS2
  <2>1. pc' = [pc EXCEPT ![t] = "skew"] /\ UNCHANGED <<after, queue, slots, i>>
    BY <1>3 DEF Split, Goto
  <2>2. /\ pc'[t] = "skew"
        /\ \A u \in Threads \ {t} : pc'[u] = pc[u]
    BY <1>0, <2>1 DEF ControlOK
  <2>3. ~ (Early(t)') /\ ~ (InPass(t)')
    BY <2>2 DEF Early, InPass
  <2> QED
    BY <1>0, <1>1, <1>2, <2>1, <2>2, <2>3, QuietRanges
<1>4. CASE i[t] # FANOUT_PASS2
  <2> DEFINE R == SkewRange("R", i[0])
             S == SkewRange("S", i[0])
             tk == [R |-> R, S |-> S, side |-> "rel"]
  <2>1. /\ \/ AddPieces(R, S) \/ AddTask("join", tk)
           \/ UNCHANGED <<queue, slots>>
        /\ i' = [i EXCEPT ![0] = @ + 1] /\ UNCHANGED <<pc, after>>
    BY <1>2, <1>4 DEF Split
  <2>2. i[0] # FANOUT_PASS2
    BY <1>2, <1>4
  <2>3. R \in Extent /\ S \in Extent
    BY <1>2, <2>2, SkewExtents DEF Both
  <2>4. \A y \in Both : SkewRange(y, i[0]).start \in Nat /\ SkewRange(y, i[0]).n \in Nat
    BY <1>2, <2>2, SkewExtents DEF Extent
  <2>5. CASE UNCHANGED <<queue, slots>>
    <3>1. DOMAIN slots' \ DOMAIN slots = {} /\ Kept /\ \A q : L(q)' = L(q)
      BY <2>5 DEF Kept, L
    <3> HIDE DEF R, S, tk
    <3> QED
      BY <1>1, <1>2, <2>1, <2>2, <3>1, SplitMakes
  <2>6. CASE AddTask("join", tk)
    <3> DEFINE q == "join"
    <3>0. q \in Names /\ q # "skew"
      BY <1>0
    <3>1. PICK a \in SlotName \ DOMAIN slots :
             /\ DOMAIN slots' = DOMAIN slots \cup {a} /\ slots'[a] = tk /\ Kept
             /\ ToSet(L(q)') = {a} \cup ToSet(L(q)) /\ \A r \in Names \ {q} : L(r)' = L(r)
      <4>1. AddTask(q, tk)
        BY <2>6
      <4> HIDE DEF q, tk
      <4> QED
        BY <1>0, <3>0, <4>1, TaskAdded
    <3> HIDE DEF q
    <3>2. DOMAIN slots' \ DOMAIN slots = {a}
      BY <3>1
    <3>3. /\ tk \in TaskOf /\ tk.side = "rel"
          /\ \A y \in Both : tk[y] = SkewRange(y, i[0])
      BY <2>3 DEF TaskOf, Both
    <3> HIDE DEF tk, R, S
    <3>4. \A s \in DOMAIN slots' \ DOMAIN slots :
               /\ slots'[s] \in TaskOf /\ slots'[s].side = "rel"
               /\ \A y \in Both : /\ SkewRange(y, i[0]).start <= slots'[s][y].start
                                  /\ slots'[s][y].start + slots'[s][y].n
                                       <= SkewRange(y, i[0]).start + SkewRange(y, i[0]).n
      BY <2>4, <3>1, <3>2, <3>3
    <3>5. \A s, b \in DOMAIN slots' \ DOMAIN slots : slots'[s].R = slots'[b].R
      BY <3>2
    <3>6. /\ \A r \in Names : ToSet(L(r)') \subseteq ToSet(L(r)) \cup (DOMAIN slots' \ DOMAIN slots)
          /\ L("skew")' = L("skew")
      BY <1>0, <3>0, <3>1, <3>2
    <3> QED
      BY <1>1, <1>2, <2>1, <2>2, <3>1, <3>4, <3>5, <3>6, SplitMakes
  <2>7. CASE AddPieces(R, S)
    <3> HIDE DEF R, S, tk
    <3>1. /\ Kept
          /\ \A s \in DOMAIN slots' \ DOMAIN slots : \E k \in 0 .. nthreads - 1 : slots'[s] = Piece(k, R, S)
          /\ ToSet(L("part")') \subseteq ToSet(L("part")) \cup (DOMAIN slots' \ DOMAIN slots)
          /\ \A r \in Names \ {"part"} : L(r)' = L(r)
      BY <1>0, <2>7, PiecesMade
    <3>2. ASSUME NEW s \in DOMAIN slots' \ DOMAIN slots
          PROVE  /\ slots'[s] \in TaskOf /\ slots'[s].side = "rel" /\ slots'[s].R = R
                 /\ \A y \in Both : /\ SkewRange(y, i[0]).start <= slots'[s][y].start
                                    /\ slots'[s][y].start + slots'[s][y].n
                                         <= SkewRange(y, i[0]).start + SkewRange(y, i[0]).n
      <4>1. PICK k \in 0 .. nthreads - 1 : slots'[s] = Piece(k, R, S)
        BY <3>1
      <4>2. /\ slots'[s] \in TaskOf /\ slots'[s].side = "rel" /\ slots'[s].R = R
            /\ S.start <= slots'[s].S.start
            /\ slots'[s].S.start + slots'[s].S.n <= S.start + S.n
        BY <2>3, <4>1, PieceInside
      <4>3. \A y \in Both : y = "R" \/ y = "S"
        BY DEF Both
      <4>4. R = SkewRange("R", i[0]) /\ S = SkewRange("S", i[0])
        BY DEF R, S
      <4> QED
        BY <2>4, <4>2, <4>3, <4>4
    <3>3. \A s, b \in DOMAIN slots' \ DOMAIN slots : slots'[s].R = slots'[b].R
      BY <3>2
    <3>4. /\ \A r \in Names : ToSet(L(r)') \subseteq ToSet(L(r)) \cup (DOMAIN slots' \ DOMAIN slots)
          /\ L("skew")' = L("skew")
      BY <1>0, <3>1
    <3> QED
      BY <1>1, <1>2, <2>1, <2>2, <3>1, <3>2, <3>3, <3>4, SplitMakes
  <2> QED
    BY <2>1, <2>5, <2>6, <2>7
<1> QED
  BY <1>3, <1>4

-----------------------------------------------------------------------------
(* The loop over large partitions, and the barrier.                        *)

LEMMA TakeSkewRanges ==
    ASSUME TaskInv, RangeInv, TaskInv', NEW t \in Threads, input' = input, TakeSkew(t)
    PROVE  RangesOK'
<1>0. /\ ControlOK /\ ControlOK' /\ Held /\ Kinds /\ RangesOK
      /\ "part" \in Names /\ "skew" \in Names
  BY DEF TaskInv, RangeInv, RangesOK, Names
<1>1. /\ pc[t] = "skew" /\ UNCHANGED <<slots, fresh, i, output, hist, pass, x, task>>
      /\ pc' = [pc EXCEPT ![t] = "barrier"] /\ after' = [after EXCEPT ![t] = "skewtask"]
  BY DEF TakeSkew, partition, Arrive, local
<1>2. /\ pc'[t] = "barrier" /\ after'[t] = "skewtask"
      /\ \A u \in Threads \ {t} :
           /\ pc'[u] = pc[u] /\ after'[u] = after[u] /\ pass'[u] = pass[u]
           /\ task'[u] = task[u] /\ fresh'[u] = fresh[u] /\ i'[u] = i[u] /\ output'[u] = output[u]
  BY <1>0, <1>1 DEF ControlOK
<1>3. ~ (Early(t)') /\ ~ (InPass(t)') /\ Offers(t)'
  BY <1>2 DEF Early, InPass, Offers
<1>4. CASE t # 0
  <2>1. UNCHANGED <<queue, skewtask>>
    BY <1>4 DEF TakeSkew
  <2> QED
    BY <1>0, <1>1, <1>2, <1>3, <1>4, <2>1, QuietRanges
<1>5. CASE t = 0
  <2>1. PICK s \in DOMAIN slots \cup {NoSlot} : GetTask("skew", s) /\ skewtask' = s
    BY <1>5 DEF TakeSkew
  <2>2. Splitting' /\ Partitions'
    BY <1>2, <1>3, <1>5 DEF Splitting, Partitions
  <2>3. \A u \in Threads : Holds(u)' \subseteq Holds(u)
    BY <1>1, <1>2 DEF Holds, Working
  <2>4. CASE queue' = queue /\ s = NoSlot
    <3>1. \A q : L(q)' = L(q)
      BY <2>4 DEF L
    <3>2. \A q \in Names : ToSet(L(q)') \subseteq Live
      BY <1>0, <3>1, LiveNow
    <3>3. ~ (Dividing') /\ SkewHeld'
      BY <2>1, <2>4 DEF Dividing, SkewHeld
    <3> QED
      BY <1>0, <1>1, <1>2, <1>3, <2>2, <3>1, <3>2, <3>3, SlotsKept
  <2>5. CASE L("skew") # <<>> /\ s = Head(L("skew")) /\ queue' = [queue EXCEPT !["skew"].list = Tail(@)]
    <3>1. /\ s \in ToSet(L("skew"))
          /\ \A r \in Names : ToSet(L(r)') \subseteq ToSet(L(r)) /\ s \notin ToSet(L(r)')
          /\ \A u \in Threads : s \notin Holds(u)
      BY <1>0, <2>5, Taken
    <3>2. s \in Live /\ \A q \in Names : ToSet(L(q)') \subseteq Live
      BY <1>0, <3>1, LiveNow
    <3>3. s \in DOMAIN slots /\ IsPart(s)
      BY <1>0, <3>1 DEF Held, Kinds
    <3>4. SkewHeld'
      BY <1>1, <2>1, <2>3, <3>1, <3>3 DEF SkewHeld, Placed, IsPart
    <3> QED
      BY <1>0, <1>1, <1>2, <1>3, <2>1, <2>2, <3>1, <3>2, <3>4, SlotsKept
  <2> QED
    BY <2>1, <2>4, <2>5 DEF GetTask, L
<1> QED
  BY <1>4, <1>5

LEMMA MoveRanges ==
    ASSUME TaskInv, RangeInv, TaskInv', NEW t \in Threads, input' = input, Move(t)
    PROVE  RangesOK'
<1>0. /\ ControlOK /\ ControlOK' /\ Held /\ Kinds /\ RangesOK /\ Shape
      /\ "part" \in Names /\ "skew" \in Names /\ "join" \in Names
  BY DEF TaskInv, RangeInv, RangesOK, Names
<1>1. pc[t] = "move" /\ UNCHANGED <<slots, fresh, i, output, hist, pass, x, task, skewtask>>
  BY DEF Move, partition, local
<1>2. CASE queue["part"].list = <<>>
  <2>1. pc' = [pc EXCEPT ![t] = "barrier"] /\ after' = [after EXCEPT ![t] = "join"] /\ queue' = queue
    BY <1>2 DEF Move, Arrive
  <2>2. /\ pc'[t] = "barrier" /\ after'[t] = "join"
        /\ \A u \in Threads \ {t} : pc'[u] = pc[u] /\ after'[u] = after[u]
    BY <1>0, <2>1 DEF ControlOK
  <2>3. ~ (Early(t)') /\ ~ (InPass(t)')
    BY <2>2 DEF Early, InPass
  <2> QED
    BY <1>0, <1>1, <2>1, <2>2, <2>3, QuietRanges
<1>3. CASE queue["part"].list # <<>>
  <2> DEFINE h == Head(L("part"))
             l == <<h>> \o L("join")
             tl == Tail(L("part"))
  <2>1. /\ queue' = [queue EXCEPT !["part"].list = Tail(@), !["join"] = add(@, Head(queue["part"].list))]
        /\ UNCHANGED <<pc, after>>
    BY <1>3 DEF Move
  <2>2. /\ queue["part"] \in TaskQueue /\ L("part") \in Seq(SlotName) /\ L("part") # <<>>
        /\ queue["join"] \in TaskQueue /\ L("join") \in Seq(SlotName)
    BY <1>0, <1>3 DEF ControlOK, TaskQueue, L
  <2>3. /\ tl \in Seq(SlotName) /\ h \in SlotName /\ ToSet(L("part")) = {h} \cup ToSet(tl)
    BY <2>2, HeadTaken
  <2>4. l \in Seq(SlotName) /\ ToSet(l) = {h} \cup ToSet(L("join"))
    <3> HIDE DEF h
    <3> QED
      BY <2>2, <2>3, FrontAdded
  <2> DEFINE pq == [queue["part"] EXCEPT !.list = tl]
             jq == [queue["join"] EXCEPT !.list = l]
  <2>5. queue' = [[queue EXCEPT !["part"] = pq] EXCEPT !["join"] = jq]
    <3>1. add(queue["join"], h) = jq
      BY DEF add, L
    <3>2. queue' = [[queue EXCEPT !["part"] = pq] EXCEPT !["join"] = add(queue["join"], h)]
      <4>1. "part" # "join" /\ h = Head(queue["part"].list) /\ tl = Tail(queue["part"].list)
        BY DEF L
      <4> HIDE DEF h, tl
      <4> QED
        BY <1>0, <2>1, <4>1 DEF ControlOK
    <3> QED
      BY <3>1, <3>2
  <2> HIDE DEF tl, l, h
  <2>6. pq.list = tl /\ jq.list = l
    BY <2>2, <2>3, <2>4, WithList
  <2> HIDE DEF pq, jq
  <2>7. L("part")' = tl /\ L("join")' = l /\ L("skew")' = L("skew")
    BY <1>0, <2>5, <2>6 DEF L, ControlOK
  <2>8. \A q \in Names : ToSet(L(q)') \subseteq ToSet(L(q)) \cup ToSet(L("part"))
    BY <2>3, <2>4, <2>7 DEF Names
  <2>9. \A q \in Names : ToSet(L(q)') \subseteq Live
    BY <1>0, <2>8, LiveNow
  <2>10. Dividing' => skewtask' \in Live
    <3>1. Dividing' => Dividing
      BY <1>1, <2>1 DEF Dividing
    <3> QED
      BY <1>0, <1>1, <3>1, LiveNow
  <2>11. SkewHeld'
    <3>1. \A u \in Threads : Holds(u)' = Holds(u)
      BY <1>1, <2>1 DEF Holds, Working
    <3>2. SkewHeld /\ Kept
      BY <1>0, <1>1 DEF Kinds, Kept
    <3>3. \A u \in Threads : skewtask \in Holds(u)' => Placed(skewtask)
      BY <3>1 DEF Placed
    <3>4. \A q \in Names : skewtask \in ToSet(L(q)') => Placed(skewtask)
      BY <1>0, <2>8 DEF Placed
    <3> QED
      BY <1>1, <3>2, <3>3, <3>4, SkewStays
  <2>12. Offers(t)' /\ pc'[t] = "move" /\ (Early(t)' => Early(t))
    BY <1>1, <2>1 DEF Offers, Early
  <2>13. Splitting' /\ Partitions'
    <3>1. CASE t = 0
      BY <2>12, <3>1 DEF Splitting, Partitions, InPass
    <3>2. CASE t # 0
      BY <1>0, <1>1, <2>1, <3>2, ZeroStays
    <3> QED
      BY <3>1, <3>2
  <2>14. ToSet(L("part")') \subseteq ToSet(L("part"))
    BY <2>3, <2>7
  <2> QED
    BY <1>0, <1>1, <2>1, <2>7, <2>9, <2>10, <2>11, <2>12, <2>13, <2>14, SlotsKept
<1> QED
  BY <1>2, <1>3

LEMMA BarrierRanges ==
    ASSUME TaskInv, RangeInv, TaskInv', input' = input, Barrier
    PROVE  RangesOK'
<1>0. /\ ControlOK /\ ControlOK' /\ Held /\ Laid /\ Unread /\ Kinds /\ Outputs /\ RangesOK /\ Shape /\ Partitions
      /\ 0 \in Threads
  BY ZeroIsThread DEF TaskInv, RangeInv, RangesOK
<1>1. /\ \A u \in Threads : pc[u] = "barrier" /\ pc'[u] = after[u]
      /\ UNCHANGED <<after, slots, queue, skewtask, fresh, i, output, hist, pass, x, task>>
  BY DEF Barrier, partition, local, queues
<1>2. \A u \in Threads : pc'[u] \in {"hist", "copy", "make", "made", "part", "split", "skew", "skewtask",
                                     "join", "end"}
  BY <1>0, <1>1 DEF ControlOK
<1>3. /\ Laid' /\ \A s : (IsPart(s)' <=> IsPart(s))
      /\ \A s, y : End(s, y)' = End(s, y)
      /\ \A s, y, from : ClearIn(slots', s, y, from) <=> ClearIn(slots, s, y, from)
  BY <1>0, <1>1, SlotsStay
<1>4. \A q : L(q)' = L(q)
  BY <1>1 DEF L
<1>5. Live' \subseteq Live
  <2>1. \A q \in Names : ToSet(L(q)') \subseteq Live
    BY <1>0, <1>4, LiveNow
  <2>2. Dividing' => skewtask' \in Live
    <3>1. Dividing' => Dividing
      BY <1>0, <1>1 DEF Dividing
    <3> QED
      BY <1>0, <1>1, <3>1, LiveNow
  <2> QED
    BY <1>0, <1>2, <2>1, <2>2, LiveNext
<1>6. Unread'
  BY <1>0, <1>3, <1>5, <1>1 DEF Unread, Clear
<1>7. Offering'
  BY <1>2 DEF Offering, Offers
<1>8. Splitting'
  <2> SUFFICES ASSUME pc'[0] = "split"
               PROVE  /\ i[0] <= FANOUT_PASS2
                      /\ \A y \in Both : ClearIn(slots, skewtask, y, slots[skewtask][y].start + output[0][y][i[0]])
    BY <1>1, <1>3 DEF Splitting, Clear
  <2>1. To(0, "split")
    BY <1>0, <1>1 DEF To
  <2>2. i[0] = 0 /\ Parting /\ skewtask # NoSlot
    BY <1>0, <2>1 DEF Outputs, Parting
  <2>3. skewtask \in Live /\ skewtask \in DOMAIN slots /\ IsPart(skewtask)
    <3>1. Dividing
      BY <1>0, <1>1, <2>2 DEF Dividing
    <3> QED
      BY <1>0, <2>2, <3>1, LiveNow DEF Kinds, SkewHeld
  <2>4. ASSUME NEW y \in Both
        PROVE  ClearIn(slots, skewtask, y, slots[skewtask][y].start + output[0][y][0])
    <3>1. ClearIn(slots, skewtask, y, slots[skewtask][y].start)
      BY <1>0, <2>3 DEF Unread, Clear
    <3>2. slots[skewtask][y].start \in Nat
      BY <1>0, <2>3, LaidTypes
    <3>3. output[0][y][0] \in Nat
      <4>1. Parted(y, Clusters(0), Gap(0), Amount(0, y))
        BY <1>0, <2>2 DEF Outputs
      <4>2. Clusters(0) \in Nat
        BY Fanouts DEF Clusters
      <4>3. 0 \in 0 .. Clusters(0)
        BY <4>2
      <4> QED
        BY <4>1, <4>3 DEF Parted
    <3> DEFINE a == slots[skewtask][y].start
               b == a + output[0][y][0]
    <3>4. a \in Nat /\ b \in Nat /\ a <= b
      BY <3>2, <3>3
    <3>5. ClearIn(slots, skewtask, y, a)
      BY <3>1
    <3> HIDE DEF a, b
    <3>6. ClearIn(slots, skewtask, y, b)
      BY <1>0, <2>3, <3>4, <3>5, ClearLater
    <3> QED
      BY <3>6 DEF a, b
  <2>5. 0 <= FANOUT_PASS2
    BY Fanouts
  <2> QED
    BY <2>2, <2>4, <2>5
<1>9. Partitions'
  <2>1. InPass(0)' => InPass(0)
    BY <1>0, <1>1, <1>2 DEF InPass
  <2>2. pc'[0] = "make" => i[0] = 0 /\ pass[0] = 1 /\ InPass(0)
    BY <1>0, <1>1 DEF Outputs, Making, To, InPass
  <2>3. 0 <= FANOUT_PASS1
    BY Fanouts
  <2>4. pc'[0] = "make" => DOMAIN slots = {}
    BY <1>0, <2>2 DEF Partitions
  <2> QED
    BY <1>0, <1>1, <2>1, <2>2, <2>3, <2>4 DEF Partitions
<1>10. Kinds'
  <2>1. \A u \in Threads : Early(u)' => Early(u)
    BY <1>1, <1>2 DEF Early
  <2>2. \A u \in Threads : Holds(u)' = {}
    BY <1>2 DEF Holds, Working
  <2>3. SkewHeld'
    BY <1>0, <1>1, <1>3, <1>4, <2>2 DEF Kinds, SkewHeld, Placed
  <2>4. \A s \in ToSet(L("skew")') : IsPart(s)'
    BY <1>0, <1>3, <1>4 DEF Kinds
  <2>5. (\E u \in Threads : Early(u)') => \A s \in ToSet(L("part")') : IsPart(s)'
    BY <1>0, <1>3, <1>4, <2>1 DEF Kinds
  <2> QED
    BY <1>2, <2>3, <2>4, <2>5 DEF Kinds
<1> QED
  BY <1>3, <1>6, <1>7, <1>8, <1>9, <1>10 DEF RangesOK

(* Steps that touch neither the queues nor the slots: the passes over the  *)
(* arrays, and the joins.                                                  *)
LEMMA QuietSteps ==
    ASSUME TaskInv, RangeInv, TaskInv', NEW t \in Threads, input' = input,
           \/ Start(t) \/ Histogram(t) \/ Copy(t) \/ Made(t) \/ SkewTask(t)
           \/ ChainJoin(t) \/ Reorder(t) \/ Probe(t)
    PROVE  RangesOK'
<1>0. ControlOK /\ ControlOK'
  BY DEF TaskInv
<1>1. /\ UNCHANGED <<slots, queue, skewtask, task, fresh>>
      /\ Reorder(t) \/ Probe(t) \/ Copy(t) \/ i' = i
  BY DEF Start, Histogram, Copy, Made, SkewTask, ChainJoin, Reorder, Probe, partition, queues, local
<1>2. /\ \E u \in {t} : pc' = [pc EXCEPT ![t] = pc'[u]] /\ after' = [after EXCEPT ![t] = after'[u]]
      /\ \A u \in Threads \ {t} : pc'[u] = pc[u] /\ after'[u] = after[u]
  BY <1>0 DEF ControlOK, Start, Histogram, Copy, Made, SkewTask, ChainJoin, Reorder, Probe, Goto, Arrive
<1>3. \A u \in Threads \ {t} : pass'[u] = pass[u]
  BY <1>0 DEF ControlOK, Start, Histogram, Copy, Made, SkewTask, ChainJoin, Reorder, Probe, partition
<1>4. \A u \in Threads \ {t} : i'[u] = i[u]
  <2>1. i \in [Threads -> Nat]
    BY DEF RangeInv, Shape
  <2>2. CASE i' = i
    BY <2>2
  <2>3. CASE Reorder(t) \/ Probe(t) \/ Copy(t)
    BY <2>1, <2>3 DEF Reorder, Probe, Copy
  <2> QED
    BY <1>1, <2>2, <2>3
<1>5. \A u \in Threads \ {t} : output'[u] = output[u]
  <2>0. DOMAIN output = Threads
    BY DEF RangeInv, Shape
  <2>1. output' = output \/ Copy(t) \/ SkewTask(t)
    BY DEF Start, Histogram, Made, ChainJoin, Reorder, Probe, partition
  <2>2. CASE output' = output
    BY <2>2
  <2>3. CASE Copy(t)
    <3>1. \E v : output' = [output EXCEPT ![t][x[t]] = v]
      BY <2>3 DEF Copy
    <3> QED
      BY <2>0, <3>1
  <2>4. CASE SkewTask(t) /\ output' # output
    <3>1. \E v : output' = [output EXCEPT ![t] = v]
      BY <2>4 DEF SkewTask, partition
    <3> QED
      BY <2>0, <3>1
  <2> QED
    BY <2>1, <2>2, <2>3, <2>4
<1>6. /\ pc'[t] \notin {"cluster", "offer", "add", "make", "split", "skew"}
      /\ pc'[t] \in {"chain", "reorder", "probe"} => pc[t] \in {"chain", "reorder", "probe"}
      /\ pc[t] \notin {"skew", "split"}
      /\ Early(t)' => Early(t)
      /\ InPass(t)' /\ pass'[t] = 1 => InPass(t) /\ pass[t] = 1
  <2>1. CASE Start(t)
    <3>1. pc[t] = "start" /\ pc'[t] = "barrier" /\ after'[t] = "hist" /\ pass'[t] = pass[t]
      BY <1>0, <2>1 DEF ControlOK, Start, Arrive, partition
    <3> QED
      BY <3>1 DEF Early, InPass
  <2>2. CASE Histogram(t)
    <3>1. pc[t] = "hist" /\ pc'[t] = "barrier" /\ after'[t] = "copy" /\ pass'[t] = pass[t]
      BY <1>0, <2>2 DEF ControlOK, Histogram, Arrive
    <3> QED
      BY <3>1 DEF Early, InPass
  <2>3. CASE Copy(t)
    <3>1. /\ pc[t] = "copy" /\ pass'[t] = pass[t]
          /\ \/ pc'[t] = "hist"
             \/ pc'[t] = "barrier" /\ pass[t] = 1 /\ after'[t] \in {"make", "made"}
             \/ pc'[t] = "barrier" /\ pass[t] # 1 /\ after'[t] \in {"split", "skew"}
      BY <1>0, <2>3 DEF ControlOK, Copy, Arrive, Goto
    <3> QED
      BY <3>1 DEF Early, InPass
  <2>4. CASE Made(t)
    <3>1. pc[t] = "made" /\ pc'[t] = "barrier" /\ after'[t] = "part" /\ pass'[t] = pass[t]
      BY <1>0, <2>4 DEF ControlOK, Made, Arrive, partition
    <3> QED
      BY <3>1 DEF Early, InPass
  <2>5. CASE SkewTask(t)
    <3>1. /\ pc[t] = "skewtask"
          /\ \/ pc'[t] = "move"
             \/ pc'[t] = "barrier" /\ after'[t] = "join"
             \/ pc'[t] = "barrier" /\ after'[t] = "hist" /\ pass'[t] = 2
      BY <1>0, <2>5 DEF ControlOK, SkewTask, Arrive, Goto
    <3> QED
      BY <3>1 DEF Early, InPass
  <2>6. CASE ChainJoin(t)
    <3>1. pc[t] = "chain" /\ pc'[t] = "join" /\ pass'[t] = pass[t]
      BY <1>0, <2>6 DEF ControlOK, ChainJoin, Goto, partition
    <3> QED
      BY <3>1 DEF Early, InPass
  <2>7. CASE Reorder(t)
    <3>1. pc[t] = "reorder" /\ pc'[t] \in {"probe", "reorder"} /\ pass'[t] = pass[t]
      BY <1>0, <2>7 DEF ControlOK, Reorder, Goto, partition
    <3> QED
      BY <3>1 DEF Early, InPass
  <2>8. CASE Probe(t)
    <3>1. pc[t] = "probe" /\ pc'[t] \in {"probe", "join"} /\ pass'[t] = pass[t]
      BY <1>0, <2>8 DEF ControlOK, Probe, Goto, partition
    <3> QED
      BY <3>1 DEF Early, InPass
  <2> QED
    BY <2>1, <2>2, <2>3, <2>4, <2>5, <2>6, <2>7, <2>8
<1>7. \A u \in Threads \ {t} : task'[u] = task[u] /\ fresh'[u] = fresh[u]
  BY <1>1
<1> QED
  BY <1>0, <1>1, <1>2, <1>3, <1>4, <1>5, <1>6, <1>7, QuietRanges

(* The ranges stay apart, whichever thread makes which step.               *)
LEMMA RangesStep ==
    ASSUME TaskInv, RangeInv, TaskInv', NEW t \in Threads, prj_thread(t)
    PROVE  RangesOK'
<1>1. input' = input
  BY DEF prj_thread
<1>2. CASE \/ Start(t) \/ Histogram(t) \/ Copy(t) \/ Made(t) \/ SkewTask(t)
           \/ ChainJoin(t) \/ Reorder(t) \/ Probe(t)
  BY <1>1, <1>2, QuietSteps
<1>3. CASE MakeTask(t)
  BY <1>1, <1>3, MakeRanges
<1>4. CASE TakePart(t)
  BY <1>1, <1>4, TakePartRanges
<1>5. CASE radix_cluster(t)
  BY <1>1, <1>5, ClusterRanges
<1>6. CASE Offer(t)
  BY <1>1, <1>6, OfferRanges
<1>7. CASE task_queue_add_atomic(t)
  BY <1>1, <1>7, AddRanges
<1>8. CASE TakeSkew(t)
  BY <1>1, <1>8, TakeSkewRanges
<1>9. CASE Split(t)
  BY <1>1, <1>9, SplitRanges
<1>10. CASE Move(t)
  BY <1>1, <1>10, MoveRanges
<1>11. CASE TakeJoin(t)
  BY <1>1, <1>11, TakeJoinRanges
<1> QED
  BY <1>2, <1>3, <1>4, <1>5, <1>6, <1>7, <1>8, <1>9, <1>10, <1>11 DEF prj_thread

(***************************************************************************)
(* The passes of all threads together: what a step leaves alone, and the   *)
(* histograms and cluster starts it makes.                                 *)
(***************************************************************************)

(* What a thread does with its own variables is its own.                   *)
LEMMA OthersKeep ==
    ASSUME TaskInv, RangeInv, NEW t \in Threads, prj_thread(t), NEW u \in Threads, u # t
    PROVE  /\ pc'[u] = pc[u] /\ after'[u] = after[u] /\ pass'[u] = pass[u] /\ x'[u] = x[u]
           /\ i'[u] = i[u] /\ output'[u] = output[u]
           /\ \A y \in Both : hist'[y][u] = hist[y][u]
<1>0. ControlOK /\ Shape
  BY DEF TaskInv, RangeInv
<1>1. pc'[u] = pc[u] /\ after'[u] = after[u]
  <2>1. \/ pc' = pc /\ after' = after
        \/ \E n : Goto(t, n)
        \/ \E n : Arrive(t, n)
    BY DEF prj_thread, Start, Histogram, Copy, Made, MakeTask, Split, Move, TakePart, radix_cluster, Offer,
           task_queue_add_atomic, TakeSkew, SkewTask, TakeJoin, ChainJoin, Reorder, Probe
  <2> QED
    BY <1>0, <2>1 DEF ControlOK, Goto, Arrive
<1>2. pass'[u] = pass[u] /\ x'[u] = x[u]
  <2>1. pass' = pass \/ \E v : pass' = [pass EXCEPT ![t] = v]
    BY DEF prj_thread, Start, Histogram, Copy, Made, MakeTask, Split, Move, TakePart, radix_cluster, Offer,
           task_queue_add_atomic, TakeSkew, SkewTask, TakeJoin, ChainJoin, Reorder, Probe, partition
  <2>2. x' = x \/ \E v : x' = [x EXCEPT ![t] = v]
    BY DEF prj_thread, Start, Histogram, Copy, Made, MakeTask, Split, Move, TakePart, radix_cluster, Offer,
           task_queue_add_atomic, TakeSkew, SkewTask, TakeJoin, ChainJoin, Reorder, Probe, partition
  <2> QED
    BY <1>0, <2>1, <2>2 DEF ControlOK
<1>3. i'[u] = i[u]
  <2>1. i' = i \/ \E v : i' = [i EXCEPT ![t] = v]
    <3>1. CASE \/ Start(t) \/ Histogram(t) \/ Made(t) \/ Move(t) \/ TakePart(t) \/ TakeSkew(t)
               \/ SkewTask(t) \/ ChainJoin(t)
      BY <3>1 DEF Start, Histogram, Made, Move, TakePart, TakeSkew, SkewTask, ChainJoin, local
    <3>2. CASE \/ Copy(t) \/ MakeTask(t) \/ Split(t) \/ radix_cluster(t) \/ task_queue_add_atomic(t)
      BY <3>2 DEF Copy, MakeTask, Split, radix_cluster, task_queue_add_atomic
    <3>3. CASE Offer(t) \/ TakeJoin(t) \/ Reorder(t) \/ Probe(t)
      BY <3>3 DEF Offer, TakeJoin, Reorder, Probe
    <3> QED
      BY <3>1, <3>2, <3>3 DEF prj_thread
  <2> QED
    BY <1>0, <2>1 DEF Shape
<1>4. output'[u] = output[u]
  <2>1. output' = output \/ (\E v : output' = [output EXCEPT ![t] = v])
          \/ \E v : output' = [output EXCEPT ![t][x[t]] = v]
    BY DEF prj_thread, Start, Histogram, Copy, Made, MakeTask, Split, Move, TakePart, radix_cluster, Offer,
           task_queue_add_atomic, TakeSkew, SkewTask, TakeJoin, ChainJoin, Reorder, Probe, partition
  <2> QED
    BY <1>0, <2>1 DEF Shape
<1>5. ASSUME NEW y \in Both PROVE hist'[y][u] = hist[y][u]
  <2>1. \/ hist' = hist
        \/ \E v : hist' = [hist EXCEPT ![x[t]][t] = v]
        \/ \E v : hist' = [z \in {"R", "S"} |-> [hist[z] EXCEPT ![t] = v]]
    BY DEF prj_thread, Start, Histogram, Copy, Made, MakeTask, Split, Move, TakePart, radix_cluster, Offer,
           task_queue_add_atomic, TakeSkew, SkewTask, TakeJoin, ChainJoin, Reorder, Probe, partition
  <2>2. DOMAIN hist = Both /\ DOMAIN hist[y] = Threads /\ y \in {"R", "S"}
    BY <1>0 DEF Shape, Both
  <2>3. CASE hist' = hist
    BY <2>3
  <2>4. CASE \E v : hist' = [hist EXCEPT ![x[t]][t] = v]
    BY <2>2, <2>4
  <2>5. CASE \E v : hist' = [z \in {"R", "S"} |-> [hist[z] EXCEPT ![t] = v]]
    BY <2>2, <2>5
  <2> QED
    BY <2>1, <2>3, <2>4, <2>5
<1> QED
  BY <1>1, <1>2, <1>3, <1>4, <1>5

(* A thread enters a pass with SkewTask only, and is in one by Start,      *)
(* Histogram and Copy.                                                     *)
LEMMA PassSteps ==
    ASSUME TaskInv, TaskInv', NEW t \in Threads, prj_thread(t), InPass(t)'
    PROVE  Start(t) \/ Histogram(t) \/ Copy(t) \/ SkewTask(t)
<1>0. ControlOK
  BY DEF TaskInv
<1>1. CASE MakeTask(t) \/ Split(t)
  <2>1. pc'[t] \in {"make", "made", "split", "skew"}
    BY <1>0, <1>1 DEF MakeTask, Split, Goto, ControlOK
  <2> QED
    BY <2>1 DEF InPass
<1>2. CASE Made(t)
  <2>1. pc'[t] = "barrier" /\ after'[t] = "part"
    BY <1>0, <1>2 DEF Made, Arrive, ControlOK
  <2> QED
    BY <2>1 DEF InPass
<1>3. CASE TakePart(t) \/ radix_cluster(t) \/ Offer(t) \/ task_queue_add_atomic(t)
  <2>1. pc'[t] \in {"skew", "cluster", "offer", "part", "add"}
    BY <1>0, <1>3 DEF TakePart, radix_cluster, Offer, task_queue_add_atomic, Goto, ControlOK
  <2> QED
    BY <2>1 DEF InPass
<1>4. CASE TakeSkew(t)
  <2>1. pc'[t] = "barrier" /\ after'[t] = "skewtask"
    BY <1>0, <1>4 DEF TakeSkew, Arrive, ControlOK
  <2> QED
    BY <2>1 DEF InPass
<1>5. CASE Move(t)
  <2>1. pc'[t] = "move" \/ (pc'[t] = "barrier" /\ after'[t] = "join")
    BY <1>0, <1>5 DEF Move, Arrive, ControlOK
  <2> QED
    BY <2>1 DEF InPass
<1>6. CASE TakeJoin(t)
  <2>1. pc'[t] \in {"chain", "reorder"} \/ (pc'[t] = "barrier" /\ after'[t] = "end")
    BY <1>0, <1>6 DEF TakeJoin, Arrive, Goto, ControlOK
  <2> QED
    BY <2>1 DEF InPass
<1>7. CASE ChainJoin(t) \/ Reorder(t) \/ Probe(t)
  <2>1. pc'[t] \in {"join", "reorder", "probe"}
    BY <1>0, <1>7 DEF ChainJoin, Reorder, Probe, Goto, ControlOK
  <2> QED
    BY <2>1 DEF InPass
<1> QED
  BY <1>1, <1>2, <1>3, <1>4, <1>5, <1>6, <1>7 DEF prj_thread

(* While a thread is in a pass nobody gives out slots or takes a large     *)
(* partition.                                                              *)
LEMMA PassKeeps ==
    ASSUME TaskInv, RangeInv, TaskInv', NEW t \in Threads, prj_thread(t), NEW u \in Threads, InPass(u)'
    PROVE  slots' = slots /\ skewtask' = skewtask
<1>0. Together
  BY DEF TaskInv
<1>1. CASE MakeTask(t) \/ Offer(t) \/ Split(t) \/ TakeSkew(t)
  <2>1. pc[t] \in {"make", "offer", "split", "skew"}
    BY <1>1 DEF MakeTask, Offer, Split, TakeSkew
  <2>2. CASE u = t
    <3>1. Start(t) \/ Histogram(t) \/ Copy(t) \/ SkewTask(t)
      BY <2>2, PassSteps
    <3> QED
      BY <2>1, <3>1 DEF Start, Histogram, Copy, SkewTask
  <2>3. CASE u # t
    <3>1. pc'[u] = pc[u] /\ after'[u] = after[u]
      BY <2>3, OthersKeep
    <3>2. pc[u] \in {"made", "part", "cluster", "offer", "add", "skew", "split"}
            \/ To(u, "part") \/ To(u, "skewtask")
      <4>1. CASE pc[t] = "make"
        <5>1. t = 0 /\ \A v \in Threads : v # 0 => pc[v] = "made" \/ To(v, "part")
          BY <1>0, <4>1, AtMake
        <5> QED
          BY <2>3, <5>1
      <4>2. CASE pc[t] = "offer"
        BY <1>0, <4>2, AtWork
      <4>3. CASE pc[t] = "split"
        <5>1. t = 0 /\ \A v \in Threads : v # 0 => pc[v] = "skew" \/ To(v, "skewtask")
          BY <1>0, <4>3, AtSplit
        <5> QED
          BY <2>3, <5>1
      <4>4. CASE pc[t] = "skew"
        BY <1>0, <4>4, AtSkew
      <4> QED
        BY <2>1, <4>1, <4>2, <4>3, <4>4
    <3> QED
      BY <3>1, <3>2 DEF InPass, To
  <2> QED
    BY <2>2, <2>3
<1>2. CASE ~ (MakeTask(t) \/ Offer(t) \/ Split(t) \/ TakeSkew(t))
  BY <1>2 DEF prj_thread, Start, Histogram, Copy, Made, Move, TakePart, radix_cluster,
              task_queue_add_atomic, SkewTask, TakeJoin, ChainJoin, Reorder, Probe, queues
<1> QED
  BY <1>1, <1>2

-----------------------------------------------------------------------------
(* The arrays keep their bounds.                                           *)

LEMMA Altered ==
    ASSUME NEW f, NEW D, DOMAIN f = D, NEW d, NEW v
    PROVE  /\ DOMAIN [f EXCEPT ![d] = v] = D
           /\ d \in D => [f EXCEPT ![d] = v][d] = v
           /\ \A e \in D : e # d => [f EXCEPT ![d] = v][e] = f[e]
OBVIOUS

LEMMA ShapeStep ==
    ASSUME TaskInv, RangeInv, NEW t \in Threads, prj_thread(t)
    PROVE  Shape'
<1>0. Shape /\ input' = input /\ ControlOK
  BY DEF RangeInv, prj_thread, TaskInv
<1>1. i' \in [Threads -> Nat]
  <2>1. i \in [Threads -> Nat] /\ i[t] \in Nat
    BY <1>0 DEF Shape
  <2>2. i' = i \/ \E v \in Nat : i' = [i EXCEPT ![t] = v]
    <3>1. CASE \/ Start(t) \/ Histogram(t) \/ Made(t) \/ Move(t) \/ TakePart(t) \/ TakeSkew(t)
               \/ SkewTask(t) \/ ChainJoin(t)
      BY <3>1 DEF Start, Histogram, Made, Move, TakePart, TakeSkew, SkewTask, ChainJoin, local
    <3>2. CASE \/ Copy(t) \/ MakeTask(t) \/ Split(t) \/ radix_cluster(t) \/ task_queue_add_atomic(t)
      <4>1. i[t] + 1 \in Nat /\ 0 \in Nat
        BY <2>1
      <4>2. \/ i' = i \/ i' = [i EXCEPT ![t] = 0] \/ i' = [i EXCEPT ![t] = i[t] + 1]
        BY <3>2 DEF Copy, MakeTask, Split, radix_cluster, task_queue_add_atomic
      <4> QED
        BY <4>1, <4>2
    <3>3. CASE TakeJoin(t) \/ Reorder(t) \/ Probe(t)
      <4>1. i[t] + 1 \in Nat /\ 0 \in Nat
        BY <2>1
      <4>2. \/ i' = i \/ i' = [i EXCEPT ![t] = 0] \/ i' = [i EXCEPT ![t] = i[t] + 1]
        BY <3>3 DEF TakeJoin, Reorder, Probe
      <4> QED
        BY <4>1, <4>2
    <3>4. CASE Offer(t)
      <4> DEFINE rest == {c \in i[t] .. FANOUT_PASS2 - 1 : Joinable(Offered(t, c))}
      <4>1. i' = i \/ (rest # {} /\ i' = [i EXCEPT ![t] = Min(rest)])
        BY <3>4 DEF Offer
      <4>2. rest \in SUBSET Nat
        <5>1. FANOUT_PASS2 \in Nat
          BY Fanouts
        <5> QED
          BY <2>1, <5>1
      <4> HIDE DEF rest
      <4>3. rest # {} => Min(rest) \in Nat
        BY <4>2, LeastIn
      <4> QED
        BY <4>1, <4>3
    <3> QED
      BY <3>1, <3>2, <3>3, <3>4 DEF prj_thread
  <2> QED
    BY <2>1, <2>2
<1>2. /\ DOMAIN tuples' = Both
      /\ \A y \in Both : DOMAIN tuples'[y] = {"rel", "tmp"}
      /\ \A y \in Both, side \in {"rel", "tmp"} : DOMAIN tuples'[y][side] = DOMAIN tuples[y][side]
  <2>0. DOMAIN tuples = Both /\ \A y \in Both : DOMAIN tuples[y] = {"rel", "tmp"}
    BY <1>0 DEF Shape
  <2>1. CASE Copy(t)
    <3> DEFINE y == x[t]
               s == Other(Part(t).side)
    <3>1. \E v : tuples' = [tuples EXCEPT ![y][s] = v] /\ DOMAIN v = DOMAIN tuples[y][s]
      BY <2>1 DEF Copy, CopyOut
    <3> HIDE DEF y, s
    <3> QED
      BY <2>0, <3>1
  <2>2. CASE radix_cluster(t)
    <3> DEFINE s == Other(slots[task[t]].side)
    <3>1. \A y \in Both : \E v : DOMAIN v = DOMAIN tuples[y][s] /\ tuples'[y] = [tuples[y] EXCEPT ![s] = v]
      BY <2>2 DEF radix_cluster, ClusterFrom, CopyOut, Both
    <3>2. DOMAIN tuples' = Both
      BY <2>2 DEF radix_cluster, Both
    <3> HIDE DEF s
    <3> QED
      BY <2>0, <3>1, <3>2
  <2>3. CASE Reorder(t)
    <3> DEFINE tk == slots[task[t]]
               from == tk.R.start + i[t]
               b(p) == Bucket(tk, Key("R", tuples.R[tk.side][p]))
               before == {p \in tk.R.start .. from - 1 : b(p) = b(from)}
               to == tk.R.start + BucketStart(tk, b(from)) + Cardinality(before)
    <3>1. \/ tuples' = tuples
          \/ tuples' = [tuples EXCEPT !.R[Other(tk.side)][to] = tuples.R[tk.side][from]]
      BY <2>3 DEF Reorder
    <3> HIDE DEF tk, from, b, before, to
    <3> QED
      BY <2>0, <3>1
  <2>4. CASE ~ (Copy(t) \/ radix_cluster(t) \/ Reorder(t))
    <3>1. tuples' = tuples
      BY <2>4 DEF prj_thread, Start, Histogram, Made, MakeTask, Split, Move, TakePart, Offer,
             task_queue_add_atomic, TakeSkew, SkewTask, TakeJoin, ChainJoin, Probe
    <3> QED
      BY <2>0, <3>1
  <2> QED
    BY <2>1, <2>2, <2>3, <2>4
<1>3. DOMAIN hist' = Both /\ \A y \in Both : DOMAIN hist'[y] = Threads
  <2>1. \/ hist' = hist
        \/ \E v : hist' = [hist EXCEPT ![x[t]][t] = v]
        \/ \E v : hist' = [z \in {"R", "S"} |-> [hist[z] EXCEPT ![t] = v]]
    BY DEF prj_thread, Start, Histogram, Copy, Made, MakeTask, Split, Move, TakePart, radix_cluster, Offer,
           task_queue_add_atomic, TakeSkew, SkewTask, TakeJoin, ChainJoin, Reorder, Probe, partition
  <2>2. DOMAIN hist = Both /\ \A y \in Both : DOMAIN hist[y] = Threads
    BY <1>0 DEF Shape
  <2> QED
    BY <2>1, <2>2 DEF Both
<1>4. DOMAIN output' = Threads /\ \A u \in Threads : DOMAIN output'[u] = Both
  <2>1. \/ output' = output
        \/ \E v : output' = [output EXCEPT ![t] = v] /\ DOMAIN v = Both
        \/ \E v : output' = [output EXCEPT ![t][x[t]] = v]
    <3>1. CASE Copy(t)
      BY <3>1 DEF Copy
    <3>2. CASE SkewTask(t)
      <4> DEFINE v == [y \in {"R", "S"} |-> Zero(FANOUT_PASS2 + 1)]
      <4>1. DOMAIN v = Both
        BY DEF Both
      <4>2. output' = output \/ output' = [output EXCEPT ![t] = v]
        BY <3>2 DEF SkewTask, partition
      <4> HIDE DEF v
      <4> QED
        BY <4>1, <4>2
    <3>3. CASE radix_cluster(t)
      <4> DEFINE v == [y \in {"R", "S"} |-> Counts(slots[task[t]], y)]
      <4>1. DOMAIN v = Both
        BY DEF Both
      <4>2. output' = [output EXCEPT ![t] = v]
        BY <3>3 DEF radix_cluster
      <4> HIDE DEF v
      <4> QED
        BY <4>1, <4>2
    <3>4. CASE ~ (Copy(t) \/ SkewTask(t) \/ radix_cluster(t))
      BY <3>4 DEF prj_thread, Start, Histogram, Made, MakeTask, Split, Move, TakePart, Offer,
             task_queue_add_atomic, TakeSkew, TakeJoin, ChainJoin, Reorder, Probe, partition
    <3> QED
      BY <3>1, <3>2, <3>3, <3>4
  <2>2. DOMAIN output = Threads /\ \A u \in Threads : DOMAIN output[u] = Both
    BY <1>0 DEF Shape
  <2> QED
    BY <2>1, <2>2
<1>5. \A y \in Both : ArraySize(y)' = ArraySize(y)
  BY <1>0 DEF ArraySize
<1> QED
  BY <1>0, <1>1, <1>2, <1>3, <1>4, <1>5 DEF Shape

-----------------------------------------------------------------------------
(* The histograms.                                                         *)

(* A step between the counting of a thread's tuples of a relation and the  *)
(* use of the counts.                                                      *)
LEMMA HistogramStays ==
    ASSUME NEW u \in Threads, Histogrammed(u), input' = input, InPass(u)' => InPass(u),
           pass'[u] = pass[u], InPass(u)' => slots' = slots /\ skewtask' = skewtask,
           \A y \in Both : InPass(u)' => (Counted(u, y)' <=> Counted(u, y)) /\ hist'[y][u] = hist[y][u]
    PROVE  Histogrammed(u)'
<1> SUFFICES ASSUME InPass(u)' PROVE Histogrammed(u)'
  BY DEF Histogrammed
<1>1. \A y \in Both : Amount(u, y)' = Amount(u, y) /\ Clusters(u)' = Clusters(u)
  BY DEF Amount, Clusters
<1>2. \A n : ShareOf(u, n)' = ShareOf(u, n)
  BY DEF ShareOf
<1>3. \A y \in Both : Summed(u, y)' <=> Summed(u, y)
  BY <1>1, <1>2 DEF Summed
<1> QED
  BY <1>1, <1>3 DEF Histogrammed

(* The amounts of a pass are known.                                        *)
LEMMA Amounts ==
    ASSUME RangeInv, ControlOK, NEW u \in Threads, InPass(u), NEW y \in Both
    PROVE  /\ Amount(u, y) \in Nat
           /\ pass[u] # 1 => pass[u] = 2 /\ skewtask \in DOMAIN slots /\ slots[skewtask][y].start \in Nat
<1>0. Shape /\ Laid /\ Kinds /\ Histogrammed(u)
  BY DEF RangeInv, RangesOK, Histograms
<1>1. CASE pass[u] = 1
  BY <1>0, <1>1, Inputs2 DEF Amount
<1>2. CASE pass[u] # 1
  <2>1. pass[u] = 2 /\ skewtask \in DOMAIN slots
    BY <1>0, <1>2 DEF ControlOK, Histogrammed, Kinds, SkewHeld
  <2> QED
    BY <1>0, <1>2, <2>1, LaidTypes DEF Amount
<1> QED
  BY <1>1, <1>2

LEMMA HistogramsStep ==
    ASSUME TaskInv, RangeInv, TaskInv', NEW t \in Threads, prj_thread(t)
    PROVE  Histograms'
<1>0. Shape /\ input' = input /\ ControlOK /\ Histograms /\ ControlOK' /\ Kinds
  BY DEF RangeInv, prj_thread, TaskInv, RangesOK
<1> SUFFICES ASSUME NEW u \in Threads, InPass(u)' PROVE Histogrammed(u)'
  BY DEF Histograms, Histogrammed
<1>1. slots' = slots /\ skewtask' = skewtask /\ Histogrammed(u)
  BY <1>0, PassKeeps DEF Histograms
<1>2. CASE u # t
  <2>1. /\ pc'[u] = pc[u] /\ after'[u] = after[u] /\ pass'[u] = pass[u] /\ x'[u] = x[u]
        /\ \A y \in Both : hist'[y][u] = hist[y][u]
    BY <1>2, OthersKeep
  <2>2. InPass(u) /\ \A y \in Both : Counted(u, y)' <=> Counted(u, y)
    BY <2>1 DEF InPass, Counted, To
  <2> QED
    BY <1>0, <1>1, <2>1, <2>2, HistogramStays
<1>3. CASE u = t /\ (Start(t) \/ Copy(t))
  <2>1. CASE Start(t)
    <3>1. pc[t] = "start" /\ pc'[t] = "barrier" /\ after'[t] = "hist" /\ pass'[t] = pass[t] /\ x'[t] = x[t] /\ hist' = hist
      BY <1>0, <2>1 DEF ControlOK, Start, Arrive, partition
    <3>2. InPass(t) /\ \A y \in Both : Counted(t, y)' <=> Counted(t, y)
      BY <3>1 DEF InPass, Counted, To
    <3> QED
      BY <1>0, <1>1, <1>3, <3>1, <3>2, HistogramStays
  <2>2. CASE Copy(t)
    <3>1. /\ pc[t] = "copy" /\ pass'[t] = pass[t] /\ hist' = hist /\ x[t] \in Both
          /\ \/ x[t] = "R" /\ x'[t] = "S" /\ pc'[t] = "hist"
             \/ /\ x[t] # "R" /\ x'[t] = x[t] /\ pc'[t] = "barrier"
                /\ after'[t] \in {"make", "made", "split", "skew"}
      BY <1>0, <2>2 DEF ControlOK, Copy, Arrive, Goto, Both
    <3>2. InPass(t) /\ \A y \in Both : Counted(t, y)' <=> Counted(t, y)
      BY <3>1 DEF InPass, Counted, To, Both
    <3> QED
      BY <1>0, <1>1, <1>3, <3>1, <3>2, HistogramStays
  <2> QED
    BY <1>3, <2>1, <2>2
<1>4. CASE u = t /\ Histogram(t)
  <2>1. /\ pc[t] = "hist" /\ pc'[t] = "barrier" /\ after'[t] = "copy" /\ pass'[t] = pass[t] /\ x'[t] = x[t]
        /\ x[t] \in Both /\ pass[t] \in {1, 2}
    BY <1>0, <1>4 DEF ControlOK, Histogram, Arrive, Both
  <2>2. /\ InPass(t)
        /\ \A y \in Both : y = x[t] => ~ Counted(t, y) /\ Counted(t, y)'
        /\ \A y \in Both : y # x[t] => (Counted(t, y)' <=> Counted(t, y))
    BY <2>1 DEF InPass, Counted, To, Both
  <2>3. hist[x[t]][t] = Zero(Clusters(t))
    BY <1>1, <1>4, <2>1, <2>2 DEF Histogrammed
  <2>4. Amount(t, x[t]) \in Nat /\ Part(t).start \in Int
    <3>1. Part(t).start = IF pass[t] = 1 THEN 0 ELSE slots[skewtask][x[t]].start
      BY <2>1, PartFacts
    <3>2. Amount(t, x[t]) \in Nat /\ (pass[t] # 1 => slots[skewtask][x[t]].start \in Nat)
      BY <1>0, <2>1, <2>2, Amounts
    <3> QED
      BY <3>1, <3>2
  <2>5. /\ \A c \in 0 .. Clusters(t) - 1 :
             /\ hist'[x[t]][t][c] \in Nat
             /\ hist'[x[t]][t][c] <= ShareOf(t, Amount(t, x[t]))
             /\ c > 0 => hist'[x[t]][t][c - 1] <= hist'[x[t]][t][c]
        /\ \A y \in Both : y # x[t] => hist'[y][t] = hist[y][t]
    BY <1>0, <1>4, <2>3, <2>4, OwnCounts
  <2>6. \A y \in Both : Amount(t, y)' = Amount(t, y) /\ Clusters(t)' = Clusters(t)
    BY <1>0, <1>1, <2>1 DEF Amount, Clusters
  <2>7. \A n : ShareOf(t, n)' = ShareOf(t, n)
    BY DEF ShareOf
  <2>8. \A y \in Both : y = x[t] => Summed(t, y)'
    BY <2>1, <2>5, <2>6, <2>7 DEF Summed
  <2>9. \A y \in Both : y # x[t] => (Summed(t, y)' <=> Summed(t, y))
    BY <2>5, <2>6, <2>7 DEF Summed
  <2>10. ASSUME NEW y \in Both
         PROVE  IF Counted(t, y)' THEN Summed(t, y)' ELSE hist'[y][t] = Zero(Clusters(t)')
    <3>1. CASE y = x[t]
      BY <2>2, <2>8, <3>1
    <3>2. CASE y # x[t]
      BY <1>1, <1>4, <2>2, <2>5, <2>6, <2>9, <3>2 DEF Histogrammed
    <3> QED
      BY <3>1, <3>2
  <2>11. pass'[t] = 2 => skewtask' # NoSlot
    BY <1>1, <1>4, <2>1, <2>2 DEF Histogrammed
  <2>12. \A y \in Both : (IF Counted(t, y)' THEN Summed(t, y)' ELSE hist'[y][t] = Zero(Clusters(t)'))
                           <=> (IF Counted(t, y) THEN Summed(t, y) ELSE hist[y][t] = Zero(Clusters(t)))'
    OBVIOUS
  <2> QED
    BY <1>4, <2>10, <2>11, <2>12 DEF Histogrammed, Zero
<1>5. CASE u = t /\ SkewTask(t)
  <2>1. skewtask # NoSlot /\ pass'[t] = 2 /\ x'[t] = "R" /\ pc'[t] = "barrier" /\ after'[t] = "hist"
        /\ \A y \in Both : hist'[y][t] = Zero(FANOUT_PASS2)
    <3>1. skewtask # NoSlot
      <4>1. skewtask = NoSlot => pc'[t] = "move" \/ (pc'[t] = "barrier" /\ after'[t] = "join")
        BY <1>0, <1>5 DEF SkewTask, Goto, Arrive, ControlOK
      <4> QED
        BY <1>5, <4>1 DEF InPass
    <3> QED
      BY <1>0, <1>5, <3>1 DEF SkewTask, Arrive, ControlOK, Shape, Both
  <2>2. \A y \in Both : ~ Counted(t, y)' /\ Clusters(t)' = FANOUT_PASS2
    BY <2>1 DEF Counted, To, Clusters
  <2> QED
    BY <1>1, <1>5, <2>1, <2>2 DEF Histogrammed, Zero
<1> QED
  BY <1>0, <1>2, <1>3, <1>4, <1>5, PassSteps

-----------------------------------------------------------------------------
(* The starts of the clusters.                                             *)

LEMMA OutputsStay ==
    ASSUME Outputs, input' = input, To(0, "make")' \/ To(0, "split")' => i'[0] = 0,
           InPass(0)' \/ Making' \/ Parting' =>
               /\ InPass(0) \/ Making \/ Parting
               /\ (Making' <=> Making) /\ (Parting' <=> Parting)
               /\ output'[0] = output[0] /\ pass'[0] = pass[0] /\ x'[0] = x[0]
               /\ skewtask' = skewtask
               /\ pass[0] # 1 => slots'[skewtask] = slots[skewtask]
    PROVE  Outputs'
<1> SUFFICES ASSUME InPass(0)' \/ Making' \/ Parting' PROVE Outputs'
  BY DEF Outputs
<1>1. \A y : Amount(0, y)' = Amount(0, y) /\ Clusters(0)' = Clusters(0) /\ Gap(0)' = Gap(0)
  BY DEF Amount, Clusters, Gap
<1>2. \A y, F, P, n : Parted(y, F, P, n)' <=> Parted(y, F, P, n)
  BY DEF Parted
<1>3. /\ InPass(0) \/ Making \/ Parting
      /\ (Making' <=> Making) /\ (Parting' <=> Parting)
      /\ output'[0] = output[0] /\ pass'[0] = pass[0] /\ x'[0] = x[0] /\ skewtask' = skewtask
  OBVIOUS
<1>4. ASSUME NEW y \in Both
      PROVE  IF Making' \/ Parting' \/ (y = "R" /\ x'[0] = "S")
             THEN Parted(y, Clusters(0), Gap(0), Amount(0, y))'
             ELSE output'[0][y] = Zero(Clusters(0)' + 1)
  <2>1. IF Making \/ Parting \/ (y = "R" /\ x[0] = "S")
        THEN Parted(y, Clusters(0), Gap(0), Amount(0, y))
        ELSE output[0][y] = Zero(Clusters(0) + 1)
    BY <1>3 DEF Outputs
  <2>2. Parted(y, Clusters(0), Gap(0), Amount(0, y))' <=> Parted(y, Clusters(0), Gap(0), Amount(0, y))
    BY <1>1, <1>3 DEF Parted
  <2>3. Zero(Clusters(0)' + 1) = Zero(Clusters(0) + 1)
    BY <1>1
  <2> QED
    BY <1>3, <2>1, <2>2, <2>3
<1>5. (Making' => pass'[0] = 1) /\ (Parting' => pass'[0] = 2 /\ skewtask' # NoSlot)
  BY <1>3 DEF Outputs
<1> QED
  BY <1>4, <1>5 DEF Outputs

(* The first thread's copy makes them from all threads' histograms.        *)
LEMMA CopyOutputs ==
    ASSUME TaskInv, RangeInv, TaskInv', Copy(0), input' = input
    PROVE  Outputs'
<1>0. Shape /\ ControlOK /\ Together /\ Histograms /\ Outputs /\ Kinds /\ Laid /\ 0 \in Threads
  BY ZeroIsThread DEF TaskInv, RangeInv, RangesOK
<1>1. /\ pc[0] = "copy" /\ pass' = pass /\ skewtask' = skewtask /\ slots' = slots
      /\ i' = [i EXCEPT ![0] = 0] /\ x[0] \in Both /\ pass[0] \in {1, 2}
      /\ \/ x[0] = "R" /\ x'[0] = "S" /\ pc'[0] = "hist"
         \/ /\ x[0] = "S" /\ x'[0] = x[0] /\ pc'[0] = "barrier"
            /\ \/ pass[0] = 1 /\ after'[0] = "make"
               \/ pass[0] = 2 /\ after'[0] = "split"
  BY <1>0 DEF ControlOK, Copy, Arrive, Goto, Both, queues
<1>2. InPass(0) /\ ~ Making /\ ~ Parting
  BY <1>1 DEF InPass, Making, Parting, To
<1>3. \A u \in Threads : pass[u] = pass[0] /\ InPass(u) /\ Counted(u, x[0])
  BY <1>0, <1>1, AtCopy
<1>4. \A u \in Threads : Summed(u, x[0])
  BY <1>0, <1>1, <1>3 DEF Histograms, Histogrammed
<1> DEFINE n == Amount(0, x[0])
<1>5. n \in Nat /\ \A u \in Threads : Amount(u, x[0]) = n
  BY <1>0, <1>1, <1>2, <1>3, Amounts DEF Amount
<1>6. output[0][x[0]] = Zero(Clusters(0) + 1)
  BY <1>0, <1>1, <1>2 DEF Outputs, Both
<1> HIDE DEF n
<1>7. /\ \A c \in 0 .. Clusters(0) : output'[0][x[0]][c] \in Nat
      /\ output'[0][x[0]][Clusters(0)] = n + Clusters(0) * Gap(0)
      /\ \A c \in 0 .. Clusters(0) - 1 : output'[0][x[0]][c] + Gap(0) <= output'[0][x[0]][c + 1]
      /\ \A y \in Both \ {x[0]} : output'[0][y] = output[0][y]
  <2>1. n = Amount(0, x[0])
    BY DEF n
  <2> QED
    BY <1>0, <1>3, <1>4, <1>5, <1>6, <2>1, StartsParted
<1>8. \A y : Amount(0, y)' = Amount(0, y) /\ Clusters(0)' = Clusters(0) /\ Gap(0)' = Gap(0)
  BY <1>1 DEF Amount, Clusters, Gap
<1>9. \A y \in Both : y = x[0] => Parted(y, Clusters(0), Gap(0), Amount(0, y))'
  BY <1>7, <1>8 DEF Parted, n
<1>10. CASE x[0] = "R"
  <2>1. ~ Making' /\ ~ Parting' /\ InPass(0)' /\ ~ To(0, "make")' /\ ~ To(0, "split")'
    BY <1>1, <1>10 DEF Making, Parting, To, InPass
  <2>2. output'[0]["S"] = Zero(Clusters(0) + 1)
    BY <1>0, <1>2, <1>7, <1>10 DEF Outputs, Both
  <2>3. \A y \in Both : IF y = "R" THEN Parted(y, Clusters(0), Gap(0), Amount(0, y))'
                        ELSE output'[0][y] = Zero(Clusters(0) + 1)'
    BY <1>8, <1>9, <1>10, <2>2 DEF Both, Zero
  <2> QED
    BY <1>1, <1>10, <2>1, <2>3 DEF Outputs
<1>11. CASE x[0] = "S"
  <2>1. Parted("R", Clusters(0), Gap(0), Amount(0, "R"))
    BY <1>0, <1>2, <1>11 DEF Outputs, Both
  <2>2. output'[0]["R"] = output[0]["R"]
    BY <1>7, <1>11 DEF Both
  <2>3. Parted("R", Clusters(0), Gap(0), Amount(0, "R"))'
    BY <1>8, <2>1, <2>2 DEF Parted
  <2>4. ASSUME NEW y \in Both PROVE Parted(y, Clusters(0), Gap(0), Amount(0, y))'
    BY <1>9, <1>11, <2>3 DEF Both
  <2>5. pass[0] = 2 => skewtask # NoSlot
    BY <1>0, <1>2 DEF Histograms, Histogrammed
  <2>6. /\ (Making' => pass'[0] = 1) /\ (Parting' => pass'[0] = 2 /\ skewtask' # NoSlot)
        /\ i'[0] = 0 /\ (Making' \/ Parting')
    BY <1>0, <1>1, <1>11, <2>5 DEF Making, Parting, To, Shape
  <2> QED
    BY <2>4, <2>6 DEF Outputs
<1> QED
  BY <1>1, <1>10, <1>11

LEMMA OutputsStep ==
    ASSUME TaskInv, RangeInv, TaskInv', NEW t \in Threads, prj_thread(t)
    PROVE  Outputs'
<1>0. Shape /\ input' = input /\ ControlOK /\ ControlOK' /\ Together /\ Outputs /\ Kinds /\ 0 \in Threads
  BY ZeroIsThread DEF RangeInv, prj_thread, TaskInv, RangesOK
<1>1. InPass(0)' => slots' = slots /\ skewtask' = skewtask
  BY <1>0, PassKeeps
<1>2. CASE t # 0
  <2>1. /\ pc'[0] = pc[0] /\ after'[0] = after[0] /\ pass'[0] = pass[0] /\ x'[0] = x[0]
        /\ i'[0] = i[0] /\ output'[0] = output[0]
    BY <1>0, <1>2, OthersKeep
  <2>2. (InPass(0)' <=> InPass(0)) /\ (Making' <=> Making) /\ (Parting' <=> Parting)
    BY <2>1 DEF InPass, Making, Parting, To
  <2>3. skewtask' = skewtask
    BY <1>2 DEF prj_thread, Start, Histogram, Copy, Made, MakeTask, Split, Move, TakePart, radix_cluster, Offer,
         task_queue_add_atomic, TakeSkew, SkewTask, TakeJoin, ChainJoin, Reorder, Probe, queues
  <2>4. Making \/ Parting => slots' = slots
    <3>1. CASE InPass(0)
      BY <1>1, <2>2, <3>1
    <3>2. CASE ~ InPass(0) /\ (Making \/ Parting)
      <4>1. pc[0] \in {"make", "split"}
        BY <3>2 DEF Making, Parting, InPass, To
      <4>2. pc[t] \in {"made", "skew"} \/ To(t, "part") \/ To(t, "skewtask")
        BY <1>0, <1>2, <4>1, AtMake, AtSplit
      <4> QED
        BY <4>2 DEF prj_thread, Start, Histogram, Copy, Made, MakeTask, Split, Move, TakePart, radix_cluster, Offer,
         task_queue_add_atomic, TakeSkew, SkewTask, TakeJoin, ChainJoin, Reorder, Probe, queues, To
    <3> QED
      BY <3>1, <3>2
  <2>5. To(0, "make")' \/ To(0, "split")' => i'[0] = 0
    BY <1>0, <2>1 DEF Outputs, To
  <2>6. InPass(0)' \/ Making' \/ Parting' =>
          /\ InPass(0) \/ Making \/ Parting
          /\ (Making' <=> Making) /\ (Parting' <=> Parting)
          /\ output'[0] = output[0] /\ pass'[0] = pass[0] /\ x'[0] = x[0]
          /\ skewtask' = skewtask
          /\ pass[0] # 1 => slots'[skewtask] = slots[skewtask]
    BY <1>1, <2>1, <2>2, <2>3, <2>4
  <2> QED
    BY <1>0, <2>5, <2>6, OutputsStay
<1>3. CASE t = 0 /\ Copy(t)
  BY <1>0, <1>3, CopyOutputs
<1>4. CASE t = 0 /\ (Start(t) \/ Histogram(t))
  <2>1. /\ pc[0] \in {"start", "hist"} /\ pc'[0] = "barrier" /\ after'[0] \in {"hist", "copy"}
        /\ pass' = pass /\ x' = x /\ output' = output
    BY <1>0, <1>4 DEF ControlOK, Start, Histogram, Arrive, partition
  <2>2. /\ InPass(0) /\ InPass(0)' /\ ~ Making /\ ~ Making' /\ ~ Parting /\ ~ Parting'
        /\ ~ To(0, "make")' /\ ~ To(0, "split")'
    BY <2>1 DEF InPass, Making, Parting, To
  <2>3. InPass(0)' \/ Making' \/ Parting' =>
          /\ InPass(0) \/ Making \/ Parting
          /\ (Making' <=> Making) /\ (Parting' <=> Parting)
          /\ output'[0] = output[0] /\ pass'[0] = pass[0] /\ x'[0] = x[0]
          /\ skewtask' = skewtask
          /\ pass[0] # 1 => slots'[skewtask] = slots[skewtask]
    BY <1>1, <2>1, <2>2
  <2> QED
    BY <1>0, <2>2, <2>3, OutputsStay
<1>5. CASE t = 0 /\ SkewTask(t)
  <2>1. CASE skewtask = NoSlot
    <3>1. pc'[0] = "move" \/ (pc'[0] = "barrier" /\ after'[0] = "join")
      BY <1>0, <1>5, <2>1 DEF SkewTask, Goto, Arrive, ControlOK
    <3>2. ~ InPass(0)' /\ ~ Making' /\ ~ Parting' /\ ~ To(0, "make")' /\ ~ To(0, "split")'
      BY <3>1 DEF InPass, Making, Parting, To
    <3> QED
      BY <3>2 DEF Outputs
  <2>2. CASE skewtask # NoSlot
    <3>1. /\ pass'[0] = 2 /\ x'[0] = "R" /\ pc'[0] = "barrier" /\ after'[0] = "hist"
          /\ output'[0] = [y \in {"R", "S"} |-> Zero(FANOUT_PASS2 + 1)]
      BY <1>0, <1>5, <2>2 DEF SkewTask, Arrive, ControlOK, Shape
    <3>2. Clusters(0)' = FANOUT_PASS2 /\ ~ Making' /\ ~ Parting' /\ ~ To(0, "make")' /\ ~ To(0, "split")'
      BY <3>1 DEF Clusters, Making, Parting, To
    <3>3. \A y \in Both : output'[0][y] = Zero(FANOUT_PASS2 + 1)
      BY <3>1 DEF Both
    <3> QED
      BY <3>1, <3>2, <3>3 DEF Outputs, Zero
  <2> QED
    BY <2>1, <2>2
<1>6. CASE t = 0 /\ (MakeTask(t) \/ Split(t))
  <2>1. /\ UNCHANGED <<output, pass, x, skewtask, after>>
        /\ \/ MakeTask(t) /\ pc[0] = "make" /\ (pc' = pc \/ pc'[0] = "made")
           \/ Split(t) /\ pc[0] = "split" /\ (pc' = pc \/ pc'[0] = "skew")
    BY <1>0, <1>6 DEF ControlOK, MakeTask, Split, Goto, partition
  <2>2. ~ To(0, "make")' /\ ~ To(0, "split")' /\ ~ InPass(0)'
        /\ (Making' => Making /\ MakeTask(t) /\ ~ Parting /\ ~ Parting')
        /\ (Parting' => Parting /\ Split(t) /\ ~ Making /\ ~ Making')
    BY <2>1 DEF To, Making, Parting, InPass
  <2>3. Making => pass[0] = 1
    BY <1>0 DEF Outputs
  <2>4. Parting' => slots'[skewtask] = slots[skewtask]
    <3> SUFFICES ASSUME Parting' PROVE slots'[skewtask] = slots[skewtask]
      OBVIOUS
    <3>1. Split(t) /\ skewtask \in DOMAIN slots
      BY <1>0, <2>2 DEF Outputs, Kinds, SkewHeld
    <3>2. Kept
      <4>0. ControlOK /\ GivenOut /\ Held /\ "join" \in Names
        BY DEF TaskInv, Names
      <4>1. \/ slots' = slots
            \/ \E R, S : AddPieces(R, S)
            \/ \E tk : AddTask("join", tk)
        BY <3>1 DEF Split
      <4>2. CASE slots' = slots
        BY <4>2 DEF Kept
      <4>3. CASE \E R, S : AddPieces(R, S)
        BY <4>0, <4>3, PiecesMade
      <4>4. CASE \E tk : AddTask("join", tk)
        BY <4>0, <4>4, TaskAdded
      <4> QED
        BY <4>1, <4>2, <4>3, <4>4
    <3> QED
      BY <3>1, <3>2 DEF Kept
  <2>5. InPass(0)' \/ Making' \/ Parting' =>
          /\ InPass(0) \/ Making \/ Parting
          /\ (Making' <=> Making) /\ (Parting' <=> Parting)
          /\ output'[0] = output[0] /\ pass'[0] = pass[0] /\ x'[0] = x[0]
          /\ skewtask' = skewtask
          /\ pass[0] # 1 => slots'[skewtask] = slots[skewtask]
    BY <2>1, <2>2, <2>3, <2>4
  <2> QED
    BY <1>0, <2>2, <2>5, OutputsStay
<1>7. CASE t = 0 /\ ~ (Copy(t) \/ Start(t) \/ Histogram(t) \/ SkewTask(t) \/ MakeTask(t) \/ Split(t))
  <2>1. ~ InPass(0)'
    BY <1>7, PassSteps
  <2>2. pc'[0] \notin {"make", "split"}
    <3>1. CASE Made(t) \/ TakeSkew(t)
      BY <1>0, <1>7, <3>1 DEF Made, TakeSkew, Arrive, ControlOK
    <3>2. CASE Move(t) \/ TakeJoin(t)
      BY <1>0, <1>7, <3>2 DEF Move, TakeJoin, Arrive, Goto, ControlOK
    <3>3. CASE TakePart(t) \/ radix_cluster(t) \/ Offer(t) \/ task_queue_add_atomic(t)
      BY <1>0, <1>7, <3>3 DEF TakePart, radix_cluster, Offer, task_queue_add_atomic, Goto, ControlOK
    <3>4. CASE ChainJoin(t) \/ Reorder(t) \/ Probe(t)
      BY <1>0, <1>7, <3>4 DEF ChainJoin, Reorder, Probe, Goto, ControlOK
    <3> QED
      BY <1>7, <3>1, <3>2, <3>3, <3>4 DEF prj_thread
  <2>3. ~ Making' /\ ~ Parting' /\ ~ To(0, "make")' /\ ~ To(0, "split")'
    BY <2>1, <2>2 DEF Making, Parting, To, InPass
  <2> QED
    BY <2>1, <2>3 DEF Outputs
<1> QED
  BY <1>2, <1>3, <1>4, <1>5, <1>6, <1>7

-----------------------------------------------------------------------------
(* The invariant.                                                          *)

LEMMA BarrierKeeps ==
    ASSUME TaskInv, RangeInv, TaskInv', input' = input, Barrier
    PROVE  RangeInv'
<1>0. Shape /\ ControlOK /\ Histograms /\ Outputs /\ 0 \in Threads
  BY ZeroIsThread DEF TaskInv, RangeInv
<1>1. /\ \A u \in Threads : pc[u] = "barrier" /\ pc'[u] = after[u]
      /\ UNCHANGED <<tuples, after, slots, queue, skewtask, i, output, hist, pass, x>>
  BY DEF Barrier, partition, local, queues
<1>2. \A u \in Threads : after[u] # "barrier" /\ after[u] # "start"
  BY <1>0 DEF ControlOK
<1>3. Shape'
  <2>1. \A y : ArraySize(y)' = ArraySize(y)
    BY DEF ArraySize
  <2> QED
    BY <1>0, <1>1, <2>1 DEF Shape
<1>4. Histograms'
  <2> SUFFICES ASSUME NEW u \in Threads PROVE Histogrammed(u)'
    BY DEF Histograms
  <2>1. InPass(u)' => InPass(u)
    BY <1>1, <1>2 DEF InPass
  <2>2. \A y \in Both : InPass(u)' => (Counted(u, y)' <=> Counted(u, y)) /\ hist'[y][u] = hist[y][u]
    BY <1>1, <1>2 DEF InPass, Counted, To
  <2> QED
    BY <1>0, <1>1, <2>1, <2>2, HistogramStays DEF Histograms
<1>5. Outputs'
  <2>1. /\ InPass(0)' \/ Making' \/ Parting' => InPass(0) \/ Making \/ Parting
        /\ (Making' <=> Making) /\ (Parting' <=> Parting)
        /\ ~ To(0, "make")' /\ ~ To(0, "split")'
    BY <1>0, <1>1, <1>2 DEF InPass, Making, Parting, To
  <2>2. InPass(0)' \/ Making' \/ Parting' =>
          /\ InPass(0) \/ Making \/ Parting
          /\ (Making' <=> Making) /\ (Parting' <=> Parting)
          /\ output'[0] = output[0] /\ pass'[0] = pass[0] /\ x'[0] = x[0]
          /\ skewtask' = skewtask
          /\ pass[0] # 1 => slots'[skewtask] = slots[skewtask]
    BY <1>1, <2>1
  <2> QED
    BY <1>0, <2>1, <2>2, OutputsStay
<1> QED
  BY <1>3, <1>4, <1>5, BarrierRanges DEF RangeInv

LEMMA StutterKeeps ==
    ASSUME TaskInv, TaskInv', RangeInv, UNCHANGED vars
    PROVE  RangeInv'
<1>0. /\ UNCHANGED <<input, tuples, hist, output, pass, x, queue, slots, skewtask, pc, after, task, fresh, i>>
      /\ ControlOK /\ ControlOK'
  BY DEF TaskInv, vars, partition, queues, local
<1>1. /\ Laid' <=> Laid
      /\ \A s : (IsPart(s)' <=> IsPart(s))
      /\ \A s, y : End(s, y)' = End(s, y)
      /\ \A s, y, from : ClearIn(slots', s, y, from) <=> ClearIn(slots, s, y, from)
  BY <1>0 DEF Laid, IsPart, IsJoin, End, Past, ArraySize
<1>2. \A q : L(q)' = L(q)
  BY <1>0 DEF L
<1>3. Shape'
  <2>1. \A y : ArraySize(y)' = ArraySize(y)
    BY <1>0 DEF ArraySize
  <2> QED
    BY <1>0, <2>1 DEF RangeInv, Shape
<1>4. \A u \in Threads : (InPass(u)' <=> InPass(u)) /\ (Early(u)' <=> Early(u)) /\ Holds(u)' = Holds(u)
                         /\ \A y \in Both : Counted(u, y)' <=> Counted(u, y)
  BY <1>0 DEF InPass, Early, Holds, Working, Counted, To
<1>5. Histograms'
  BY <1>0, <1>4, HistogramStays DEF RangeInv, Histograms
<1>6. Outputs'
  <2>1. (Making' <=> Making) /\ (Parting' <=> Parting) /\ (InPass(0)' <=> InPass(0))
        /\ (To(0, "make")' \/ To(0, "split")' <=> To(0, "make") \/ To(0, "split"))
    BY <1>0 DEF Making, Parting, To, InPass
  <2>2. To(0, "make") \/ To(0, "split") => i[0] = 0
    BY DEF RangeInv, Outputs
  <2> QED
    BY <1>0, <2>1, <2>2, OutputsStay DEF RangeInv
<1>7. RangesOK'
  <2>0. Laid /\ Unread /\ Kinds /\ Offering /\ Splitting /\ Partitions
    BY DEF RangeInv, RangesOK
  <2>1. Live' \subseteq Live
    <3>1. Dividing' <=> Dividing
      BY <1>0 DEF Dividing
    <3> QED
      BY <1>0, <1>2, <3>1, LiveNow, LiveNext
  <2>2. Unread'
    BY <1>0, <1>1, <2>0, <2>1 DEF Unread, Clear
  <2>3. Kinds'
    <3>1. \A s : Placed(s)' <=> Placed(s)
      BY <1>2, <1>4 DEF Placed
    <3>2. SkewHeld'
      BY <1>0, <1>1, <2>0, <3>1 DEF Kinds, SkewHeld
    <3> QED
      BY <1>0, <1>1, <1>2, <1>4, <2>0, <3>2 DEF Kinds
  <2>4. Offering'
    <3> SUFFICES ASSUME NEW u \in Threads PROVE Offers(u)'
      BY DEF Offering
    <3>1. Offers(u)
      BY <2>0 DEF Offering
    <3>2. \A y : Reached(u, y)' = Reached(u, y)
      BY <1>0 DEF Reached
    <3> QED
      BY <1>0, <1>1, <3>1, <3>2 DEF Offers, Clear
  <2>5. Splitting'
    BY <1>0, <1>1, <2>0 DEF Splitting, Clear
  <2>6. Partitions'
    <3>1. InPass(0)' <=> InPass(0)
      BY <1>0 DEF InPass
    <3> QED
      BY <1>0, <1>1, <2>0, <3>1 DEF Partitions
  <2> QED
    BY <1>1, <2>0, <2>2, <2>3, <2>4, <2>5, <2>6 DEF RangesOK
<1> QED
  BY <1>3, <1>5, <1>6, <1>7 DEF RangeInv

LEMMA RangeInit == Init => RangeInv
<1> SUFFICES ASSUME Init PROVE RangeInv
  OBVIOUS
<1>0. ControlOK /\ 0 \in Threads /\ FANOUT_PASS1 \in Nat
  BY TaskInit, ZeroIsThread, Fanouts DEF TaskInv
<1>1. /\ DOMAIN slots = {} /\ skewtask = NoSlot
      /\ \A t \in Threads : pc[t] = "start" /\ pass[t] = 1 /\ x[t] = "R" /\ i[t] = 0
      /\ \A y \in Both, t \in Threads : hist[y][t] = Zero(FANOUT_PASS1) /\ output[t][y] = Zero(FANOUT_PASS1 + 1)
  BY DEF Init, Each, Both
<1>2. \A q \in Names : ToSet(L(q)) = {}
  <2>1. \A q \in Names : L(q) = <<>>
    BY DEF Init, EmptyQueue, L, Names
  <2> QED
    BY <2>1 DEF ToSet
<1>3. Shape
  BY DEF Init, Shape, Each, Both
<1>4. \A t \in Threads : /\ Clusters(t) = FANOUT_PASS1
                         /\ \A y \in Both : ~ Counted(t, y)
  BY <1>1 DEF Clusters, Counted
<1>5. Histograms
  BY <1>1, <1>4 DEF Histograms, Histogrammed
<1>6. Outputs
  <2>1. ~ Making /\ ~ Parting /\ ~ To(0, "make") /\ ~ To(0, "split") /\ x[0] = "R"
    BY <1>0, <1>1 DEF Making, Parting, To
  <2>2. \A y \in Both : output[0][y] = Zero(Clusters(0) + 1)
    BY <1>0, <1>1, <1>4
  <2> QED
    BY <2>1, <2>2 DEF Outputs
<1>7. Laid
  BY <1>1 DEF Laid
<1>8. Unread
  <2>1. DOMAIN queue = Names
    BY DEF Init, Names
  <2>2. \A s : s \notin Live
    BY <1>0, <1>1, <1>2, <2>1, LiveIs DEF Dividing
  <2> QED
    BY <2>2 DEF Unread
<1>9. Kinds
  BY <1>1, <1>2 DEF Kinds, SkewHeld, Names
<1>10. Offering /\ Splitting /\ Partitions
  BY <1>0, <1>1 DEF Offering, Offers, Splitting, Partitions
<1> QED
  BY <1>3, <1>5, <1>6, <1>7, <1>8, <1>9, <1>10 DEF RangeInv, RangesOK

LEMMA RangeNext == TaskInv /\ RangeInv /\ [Next]_vars => RangeInv'
<1> SUFFICES ASSUME TaskInv, RangeInv, [Next]_vars PROVE RangeInv'
  OBVIOUS
<1>0. TaskInv'
  BY TaskNext
<1>1. CASE Barrier
  BY <1>0, <1>1, BarrierKeeps DEF Barrier
<1>2. ASSUME NEW t \in Threads, prj_thread(t) PROVE RangeInv'
  BY <1>0, <1>2, ShapeStep, HistogramsStep, OutputsStep, RangesStep DEF RangeInv
<1>3. CASE UNCHANGED vars
  BY <1>0, <1>3, StutterKeeps
<1> QED
  BY <1>1, <1>2, <1>3 DEF Next, Terminated

(* In every run the histograms of the threads count no more than their     *)
(* shares, the first thread's starts divide each range into its clusters   *)
(* with the gaps between them, and the tasks made of them lie apart, with  *)
(* none where a partition is yet to be divided.                            *)
THEOREM RangesLaidOut == Spec => [](TaskInv /\ RangeInv)
<1>1. Init => TaskInv /\ RangeInv
  BY TaskInit, RangeInit
<1>2. (TaskInv /\ RangeInv) /\ [Next]_vars => (TaskInv /\ RangeInv)'
  BY TaskNext, RangeNext
<1> QED
  BY <1>1, <1>2, PTL DEF Spec

(* What a task writes and reads.                                           *)
LEMMA WritesAre ==
    ASSUME Laid, NEW a \in DOMAIN slots, NEW c \in Writes(slots[a])
    PROVE  /\ IsPart(a) => \E y \in Both, p \in Nat :
                c = <<y, "rel", p>> /\ slots[a][y].start <= p /\ p < End(a, y)
           /\ IsJoin(a) => \E p \in Nat :
                c = <<"R", "tmp", p>> /\ slots[a].R.start <= p /\ p < Past(a, "R")
<1>0. \A y \in Both : slots[a][y].start \in Nat /\ slots[a][y].n \in Nat
  BY LaidTypes
<1> DEFINE spread(s) == [s EXCEPT !.n = @ + (FANOUT_PASS2 - 1) * SMALL_PADDING_TUPLES]
<1>1. CASE IsPart(a)
  <2>1. PICK y \in Both : c \in Cells(y, "rel", spread(slots[a][y]))
    <3>1. c \in Cells("R", "rel", spread(slots[a].R)) \cup Cells("S", "rel", spread(slots[a].S))
      BY <1>1 DEF Writes, IsPart
    <3> HIDE DEF spread
    <3> QED
      BY <3>1 DEF Both
  <2> DEFINE s == slots[a][y]
             g == (FANOUT_PASS2 - 1) * SMALL_PADDING_TUPLES
  <2>2. s \in Extent
    BY DEF Laid, TaskOf, Both
  <2>3. spread(s).start = s.start /\ spread(s).n = s.n + g
    BY <2>2 DEF Extent
  <2>4. g \in Nat /\ g <= PADDING_TUPLES
    <3> DEFINE F == FANOUT_PASS2
               P == SMALL_PADDING_TUPLES
               m == F * P
    <3>1. F \in Nat \ {0} /\ P \in Nat /\ PADDING_TUPLES = m + P
      BY Fanouts
    <3>2. (F - 1) * P + P <= F * P /\ (F - 1) * P \in Nat
      <4>1. F - 1 \in Nat /\ F - 1 < F
        BY <3>1
      <4> HIDE DEF F, P
      <4> QED
        BY <3>1, <4>1, Multiples
    <3>3. m \in Nat /\ (F - 1) * P + P <= m /\ (F - 1) * P = g
      <4>1. m \in Nat
        <5> HIDE DEF F, P
        <5> QED
          BY <3>1
      <4> QED
        BY <3>2, <4>1
    <3> HIDE DEF F, P, m, g
    <3> QED
      BY <3>1, <3>2, <3>3
  <2>5. PICK p \in spread(s).start .. spread(s).start + spread(s).n - 1 : c = <<y, "rel", p>>
    <3> HIDE DEF spread
    <3> QED
      BY <2>1 DEF Cells, Positions
  <2>6. s.start \in Nat /\ s.n \in Nat /\ PADDING_TUPLES \in Nat
    BY <1>0, Fanouts
  <2>7. End(a, y) = s.start + s.n + PADDING_TUPLES
    BY DEF End, Past
  <2> HIDE DEF s, g, spread
  <2>8. p \in s.start .. s.start + (s.n + g) - 1
    BY <2>3
  <2>9. p \in Nat /\ s.start <= p /\ p < s.start + s.n + PADDING_TUPLES
    BY <2>4, <2>6, <2>8
  <2> QED
    BY <1>1, <2>5, <2>7, <2>9 DEF IsPart, IsJoin, s
<1>2. CASE IsJoin(a)
  <2>1. c \in Cells("R", "tmp", slots[a].R)
    BY <1>2 DEF Writes, IsJoin
  <2>2. PICK p \in slots[a].R.start .. slots[a].R.start + slots[a].R.n - 1 : c = <<"R", "tmp", p>>
    BY <2>1 DEF Cells, Positions
  <2>3. slots[a].R.start \in Nat /\ slots[a].R.n \in Nat
    BY <1>0 DEF Both
  <2>4. p \in Nat /\ slots[a].R.start <= p /\ p < slots[a].R.start + slots[a].R.n
    BY <2>3
  <2> QED
    BY <1>2, <2>2, <2>4 DEF IsPart, IsJoin, Past
<1> QED
  BY <1>1, <1>2

LEMMA ReadsAre ==
    ASSUME Laid, NEW b \in DOMAIN slots, NEW c \in Reads(slots[b])
    PROVE  \E y \in Both, p \in Nat :
             c = <<y, slots[b].side, p>> /\ slots[b][y].start <= p /\ p < Past(b, y)
<1>1. PICK y \in Both : c \in Cells(y, slots[b].side, slots[b][y])
  BY DEF Reads, Both
<1>2. PICK p \in slots[b][y].start .. slots[b][y].start + slots[b][y].n - 1 : c = <<y, slots[b].side, p>>
  BY <1>1 DEF Cells, Positions
<1>3. slots[b][y].start \in Nat /\ slots[b][y].n \in Nat
  BY LaidTypes
<1>4. p \in Nat /\ slots[b][y].start <= p /\ p < slots[b][y].start + slots[b][y].n
  BY <1>3
<1> QED
  BY <1>2, <1>4 DEF Past

(* Tasks that are alive at once do not get in each other's way.            *)
LEMMA TasksAreApart == TaskInv /\ RangeInv => TasksApart
<1> SUFFICES ASSUME TaskInv, RangeInv, NEW a \in Live
             PROVE  /\ \A c \in Writes(slots[a]) : c[3] \in DOMAIN tuples[c[1]][c[2]]
                    /\ \A b \in Live \ {a} :
                         /\ Writes(slots[a]) \cap Reads(slots[b]) = {}
                         /\ \/ Writes(slots[a]) \cap Writes(slots[b]) = {}
                            \/ slots[a].side = "rel" /\ slots[a].R = slots[b].R
  BY DEF TasksApart
<1>0. Shape /\ Laid /\ Unread /\ Live \subseteq DOMAIN slots
  BY ParentsNotLive DEF RangeInv, RangesOK
<1>1. \A s \in DOMAIN slots : (IsPart(s) \/ IsJoin(s)) /\ ~ (IsPart(s) /\ IsJoin(s))
  <2> SUFFICES ASSUME NEW s \in DOMAIN slots PROVE (IsPart(s) \/ IsJoin(s)) /\ ~ (IsPart(s) /\ IsJoin(s))
    OBVIOUS
  <2>1. "R" \in Both
    BY DEF Both
  <2> QED
    BY <1>0, <2>1, LaidTypes
<1>2. \A s \in DOMAIN slots, y \in Both :
        /\ slots[s][y].start \in Nat /\ Past(s, y) \in Nat /\ End(s, y) \in Nat /\ Past(s, y) <= End(s, y)
        /\ (IF IsPart(s) THEN End(s, y) ELSE Past(s, y)) <= ArraySize(y)
  BY <1>0, LaidTypes DEF Laid
<1>3. \A y \in Both : ArraySize(y) \in Nat
  BY <1>0, Inputs2
<1>4. ASSUME NEW c \in Writes(slots[a]) PROVE c[3] \in DOMAIN tuples[c[1]][c[2]]
  <2>1. CASE IsPart(a)
    <3>1. PICK y \in Both, p \in Nat : c = <<y, "rel", p>> /\ slots[a][y].start <= p /\ p < End(a, y)
      BY <1>0, <2>1, WritesAre
    <3>2. p \in 0 .. ArraySize(y) - 1
      BY <1>0, <1>2, <1>3, <2>1, <3>1
    <3>3. DOMAIN tuples[y]["rel"] = 0 .. ArraySize(y) - 1
      BY <1>0 DEF Shape
    <3> QED
      BY <3>1, <3>2, <3>3
  <2>2. CASE ~ IsPart(a)
    <3>1. PICK p \in Nat : c = <<"R", "tmp", p>> /\ slots[a].R.start <= p /\ p < Past(a, "R")
      BY <1>0, <1>1, <2>2, WritesAre
    <3>2. p \in 0 .. ArraySize("R") - 1
      BY <1>0, <1>2, <1>3, <2>2, <3>1 DEF Both
    <3>3. DOMAIN tuples["R"]["tmp"] = 0 .. ArraySize("R") - 1
      BY <1>0 DEF Shape, Both
    <3> QED
      BY <3>1, <3>2, <3>3
  <2> QED
    BY <2>1, <2>2
<1>5. ASSUME NEW b \in Live \ {a}, NEW c \in Writes(slots[a]), c \in Reads(slots[b]) PROVE FALSE
  <2>1. PICK z \in Both, r \in Nat :
          c = <<z, slots[b].side, r>> /\ slots[b][z].start <= r /\ r < Past(b, z)
    BY <1>0, <1>5, ReadsAre
  <2>2. CASE IsPart(a)
    <3>1. PICK y \in Both, p \in Nat : c = <<y, "rel", p>> /\ slots[a][y].start <= p /\ p < End(a, y)
      BY <1>0, <2>2, WritesAre
    <3>2. y = z /\ p = r /\ slots[b].side = "rel"
      BY <2>1, <3>1
    <3>3. Past(b, y) <= slots[a][y].start \/ End(a, y) <= slots[b][y].start
      BY <1>0, <2>2, <3>2 DEF Unread, Clear, ClearIn, Past, End
    <3>4. /\ slots[a][y].start \in Nat /\ slots[b][y].start \in Nat
          /\ Past(b, y) \in Nat /\ End(a, y) \in Nat
      BY <1>0, <1>2
    <3> QED
      BY <2>1, <3>1, <3>2, <3>3, <3>4
  <2>3. CASE IsJoin(a)
    <3>1. PICK p \in Nat : c = <<"R", "tmp", p>> /\ slots[a].R.start <= p /\ p < Past(a, "R")
      BY <1>0, <2>3, WritesAre
    <3>2. "R" = z /\ p = r /\ slots[b].side = "tmp" /\ "R" \in Both
      BY <2>1, <3>1
    <3>3. Past(a, "R") <= slots[b].R.start \/ End(b, "R") <= slots[a].R.start
      <4>1. IsPart(b)
        BY <3>2 DEF IsPart
      <4>2. ClearIn(slots, b, "R", slots[b].R.start)
        BY <1>0, <3>2, <4>1 DEF Unread, Clear
      <4> QED
        BY <1>0, <2>3, <4>2 DEF ClearIn, Past, End, IsJoin
    <3>4. /\ slots[a].R.start \in Nat /\ slots[b].R.start \in Nat
          /\ Past(b, "R") \in Nat /\ End(b, "R") \in Nat /\ Past(b, "R") <= End(b, "R")
          /\ Past(a, "R") \in Nat
      BY <1>0, <1>2, <3>2
    <3> QED
      BY <2>1, <3>1, <3>2, <3>3, <3>4
  <2> QED
    BY <1>0, <1>1, <2>2, <2>3
<1>6. ASSUME NEW b \in Live \ {a}, NEW c \in Writes(slots[a]), c \in Writes(slots[b]),
             ~ (slots[a].side = "rel" /\ slots[a].R = slots[b].R)
      PROVE  FALSE
  <2>0. a \in DOMAIN slots /\ b \in DOMAIN slots /\ a # b
    BY <1>0
  <2>1. CASE IsPart(a)
    <3>1. PICK y \in Both, p \in Nat : c = <<y, "rel", p>> /\ slots[a][y].start <= p /\ p < End(a, y)
      BY <1>0, <2>1, WritesAre
    <3>2. IsPart(b)
      <4>1. CASE IsJoin(b)
        <5>1. PICK r \in Nat : c = <<"R", "tmp", r>>
          BY <1>0, <1>6, <2>0, <4>1, WritesAre
        <5> QED
          BY <3>1, <5>1
      <4> QED
        BY <1>1, <2>0, <4>1
    <3>3. PICK z \in Both, r \in Nat : c = <<z, "rel", r>> /\ slots[b][z].start <= r /\ r < End(b, z)
      BY <1>0, <1>6, <2>0, <3>2, WritesAre
    <3>4. y = z /\ p = r
      BY <3>1, <3>3
    <3>5. End(a, y) <= slots[b][y].start \/ End(b, y) <= slots[a][y].start
      BY <1>0, <2>0, <2>1, <3>2 DEF Laid
    <3>6. /\ slots[a][y].start \in Nat /\ slots[b][y].start \in Nat
          /\ End(b, y) \in Nat /\ End(a, y) \in Nat
      BY <1>2, <2>0
    <3> QED
      BY <3>1, <3>3, <3>4, <3>5, <3>6
  <2>2. CASE IsJoin(a)
    <3>1. PICK p \in Nat : c = <<"R", "tmp", p>> /\ slots[a].R.start <= p /\ p < Past(a, "R")
      BY <1>0, <2>2, WritesAre
    <3>2. IsJoin(b)
      <4>1. CASE IsPart(b)
        <5>1. PICK z \in Both, r \in Nat : c = <<z, "rel", r>>
          BY <1>0, <1>6, <2>0, <4>1, WritesAre
        <5> QED
          BY <3>1, <5>1
      <4> QED
        BY <1>1, <2>0, <4>1
    <3>3. PICK r \in Nat : c = <<"R", "tmp", r>> /\ slots[b].R.start <= r /\ r < Past(b, "R")
      BY <1>0, <1>6, <2>0, <3>2, WritesAre
    <3>4. p = r
      BY <3>1, <3>3
    <3>5. Past(a, "R") <= slots[b].R.start \/ Past(b, "R") <= slots[a].R.start
      BY <1>0, <1>6, <2>0, <2>2, <3>2 DEF Laid, IsJoin
    <3>6. /\ slots[a].R.start \in Nat /\ slots[b].R.start \in Nat
          /\ Past(b, "R") \in Nat /\ Past(a, "R") \in Nat
      BY <1>2, <2>0 DEF Both
    <3> QED
      BY <3>1, <3>3, <3>4, <3>5, <3>6
  <2> QED
    BY <1>1, <2>0, <2>1, <2>2
<1> QED
  BY <1>4, <1>5, <1>6

-----------------------------------------------------------------------------
(* Where the threads put their tuples in a pass.                           *)

(* A thread that has counted its share of a relation and is yet to copy    *)
(* it; and one that is yet to copy any, or that of S.                      *)
Copying(t) == pc[t] = "copy" \/ To(t, "copy")
Ready(t) == pc[t] \in {"start", "hist", "copy"} \/ To(t, "hist") \/ To(t, "copy")

(* How many tuples of its share belong in each cluster.                    *)
Own(t) ==
    LET p == Part(t)
    IN  [c \in 0 .. Clusters(t) - 1 |-> Cardinality(InCluster(x[t], p.side, Share(t, p), c, p.D, p.R))]

Exactly(t) == \A c \in 0 .. Clusters(t) - 1 : hist[x[t]][t][c] = SumOver(Own(t), 0, c + 1)
Untouched(t) == \A y \in Both : y = x[t] \/ x[t] = "R" => output[t][y] = Zero(Clusters(t) + 1)

CopyInv == \A t \in Threads : (Copying(t) => Exactly(t)) /\ (Ready(t) => Untouched(t))

LEMMA Monotone ==
    ASSUME NEW m \in Int, NEW f, \A k \in 0 .. m : f[k] \in Int,
           \A k \in 0 .. m - 1 : f[k] <= f[k + 1]
    PROVE  \A j, k \in 0 .. m : j <= k => f[j] <= f[k]
<1> SUFFICES ASSUME NEW j \in 0 .. m PROVE \A k \in 0 .. m : j <= k => f[j] <= f[k]
  OBVIOUS
<1> DEFINE T == {d \in Nat : j + d <= m => f[j] <= f[j + d]}
<1>1. 0 \in T
  OBVIOUS
<1>2. ASSUME NEW d \in Nat, d \in T PROVE d + 1 \in T
  <2> SUFFICES ASSUME j + (d + 1) <= m PROVE f[j] <= f[j + (d + 1)]
    OBVIOUS
  <2>1. j + d \in 0 .. m - 1 /\ j + d \in 0 .. m /\ j + (d + 1) = (j + d) + 1 /\ (j + d) + 1 \in 0 .. m
    OBVIOUS
  <2>2. f[j] <= f[j + d] /\ f[j + d] <= f[(j + d) + 1]
    BY <1>2, <2>1
  <2>3. f[j] \in Int /\ f[j + d] \in Int /\ f[(j + d) + 1] \in Int
    BY <2>1
  <2> QED
    BY <2>1, <2>2, <2>3
<1> HIDE DEF T
<1>3. Nat \subseteq T
  BY <1>1, <1>2, NatInd
<1> SUFFICES ASSUME NEW k \in 0 .. m, j <= k PROVE f[j] <= f[k]
  OBVIOUS
<1>4. k - j \in T /\ j + (k - j) = k /\ j + (k - j) <= m
  BY <1>3
<1> QED
  BY <1>4 DEF T

(* Rows that grow, each from where the one before it ends.                 *)
LEMMA Staircase ==
    ASSUME NEW F \in Nat \ {0}, NEW N \in Nat, NEW o,
           \A c \in 0 .. F - 1 : \A k \in 0 .. N : o[c][k] \in Int,
           \A c \in 0 .. F - 1 : \A k \in 0 .. N - 1 : o[c][k] <= o[c][k + 1],
           \A c \in 0 .. F - 2 : o[c][N] = o[c + 1][0]
    PROVE  /\ \A c \in 0 .. F - 1 : \A j, k \in 0 .. N : j <= k => o[c][j] <= o[c][k]
           /\ \A c, d \in 0 .. F - 1 : \A j, k \in 0 .. N : c < d => o[c][j] <= o[d][k]
<1>1. ASSUME NEW c \in 0 .. F - 1 PROVE \A j, k \in 0 .. N : j <= k => o[c][j] <= o[c][k]
  <2> DEFINE f == o[c]
  <2>1. (\A k \in 0 .. N : f[k] \in Int) /\ (\A j \in 0 .. N - 1 : f[j] <= f[j + 1]) /\ N \in Int
    OBVIOUS
  <2> HIDE DEF f
  <2>2. \A j, k \in 0 .. N : j <= k => f[j] <= f[k]
    BY <2>1, Monotone
  <2> QED
    BY <2>2 DEF f
<1> DEFINE T == [c \in 0 .. F - 1 |-> o[c][0]]
<1>2. \A c \in 0 .. F - 1 : T[c] \in Int /\ T[c] = o[c][0]
  OBVIOUS
<1>3. ASSUME NEW c \in 0 .. F - 2 PROVE T[c] <= o[c][N] /\ o[c][N] = T[c + 1]
  <2>1. c \in 0 .. F - 1 /\ c + 1 \in 0 .. F - 1 /\ 0 \in 0 .. N /\ N \in 0 .. N
    OBVIOUS
  <2>2. o[c][0] <= o[c][N]
    BY <1>1, <2>1
  <2> QED
    BY <2>1, <2>2
<1> HIDE DEF T
<1>4. \A c, d \in 0 .. F - 1 : c <= d => T[c] <= T[d]
  <2> DEFINE m == F - 1
  <2>1. m \in Int /\ m - 1 = F - 2
    OBVIOUS
  <2>2. (\A k \in 0 .. m : T[k] \in Int) /\ (\A j \in 0 .. m - 1 : T[j] <= T[j + 1])
    <3> SUFFICES ASSUME NEW j \in 0 .. m - 1 PROVE T[j] <= T[j + 1]
      BY <1>2
    <3>1. j \in 0 .. F - 2
      OBVIOUS
    <3> QED
      BY <1>3, <3>1
  <2> HIDE DEF m
  <2>3. \A c, d \in 0 .. m : c <= d => T[c] <= T[d]
    BY <2>1, <2>2, Monotone
  <2> QED
    BY <2>3 DEF m
<1>5. ASSUME NEW c \in 0 .. F - 1, NEW d \in 0 .. F - 1, NEW j \in 0 .. N, NEW k \in 0 .. N, c < d
      PROVE  o[c][j] <= o[d][k]
  <2>1. c \in 0 .. F - 2 /\ c + 1 \in 0 .. F - 1 /\ c + 1 <= d /\ 0 \in 0 .. N /\ N \in 0 .. N /\ j <= N /\ 0 <= k
    BY <1>5
  <2>2. o[c][j] <= o[c][N] /\ o[c][N] = T[c + 1]
    BY <1>1, <1>3, <2>1
  <2>3. T[c + 1] <= T[d]
    BY <1>4, <2>1
  <2>4. T[d] <= o[d][k]
    BY <1>1, <1>2, <2>1
  <2>5. o[c][j] \in Int /\ o[c][N] \in Int /\ T[c + 1] \in Int /\ T[d] \in Int /\ o[d][k] \in Int
    BY <1>2, <2>1
  <2> QED
    BY <2>2, <2>3, <2>4, <2>5
<1> QED
  BY <1>1, <1>5

(* Threads that copy at the same time copy the same relation.              *)
LEMMA AtCopies ==
    ASSUME Together, NEW t \in Threads, NEW u \in Threads, pc[t] = "copy", pc[u] = "copy"
    PROVE  x[u] = x[t] /\ pass[u] = pass[t]
<1>1. PICK g \in Stages, p \in {1, 2} : \A v \in Threads : At(g, p, v)
  BY DEF Together
<1>2. At(g, p, t) /\ At(g, p, u)
  BY <1>1
<1>3. g \in {"copyR", "copyS"}
  BY <1>2 DEF At, To, Stages
<1>4. CASE g = "copyR"
  BY <1>2, <1>4 DEF At, To
<1>5. CASE g = "copyS"
  BY <1>2, <1>5 DEF At, To
<1> QED
  BY <1>3, <1>4, <1>5

(* Where thread k puts its tuples of cluster c, and where it leaves off,   *)
(* without the gaps.                                                       *)
Offset(y, c, k) ==
    SumOver(Column(y, c), 0, k)
      + (IF c = 0 THEN 0 ELSE SumOver(Column(y, c - 1), 0, nthreads) - SumOver(Column(y, c - 1), 0, k))

(* The columns of the threads' sums.                                       *)
LEMMA Columns ==
    ASSUME NEW y, NEW F \in Nat \ {0}, NEW n \in Nat,
           \A u \in Threads : \A c \in 0 .. F - 1 :
               /\ hist[y][u][c] \in Nat /\ hist[y][u][c] <= ShareOf(u, n)
               /\ c > 0 => hist[y][u][c - 1] <= hist[y][u][c]
    PROVE  \A c \in 0 .. F - 1 :
             /\ SumOver(Column(y, c), 0, 0) = 0
             /\ \A k \in 0 .. nthreads : SumOver(Column(y, c), 0, k) \in Nat
             /\ \A k \in 0 .. nthreads - 1 :
                  /\ SumOver(Column(y, c), 0, k + 1) = SumOver(Column(y, c), 0, k) + hist[y][k][c]
                  /\ SumOver(Column(y, c), k, nthreads)
                       = SumOver(Column(y, c), 0, nthreads) - SumOver(Column(y, c), 0, k)
             /\ SumOver(Column(y, c), 0, nthreads) <= n
<1> SUFFICES ASSUME NEW c \in 0 .. F - 1
             PROVE  /\ SumOver(Column(y, c), 0, 0) = 0
                    /\ \A k \in 0 .. nthreads : SumOver(Column(y, c), 0, k) \in Nat
                    /\ \A k \in 0 .. nthreads - 1 :
                         /\ SumOver(Column(y, c), 0, k + 1) = SumOver(Column(y, c), 0, k) + hist[y][k][c]
                         /\ SumOver(Column(y, c), k, nthreads)
                              = SumOver(Column(y, c), 0, nthreads) - SumOver(Column(y, c), 0, k)
                    /\ SumOver(Column(y, c), 0, nthreads) <= n
  OBVIOUS
<1> DEFINE f == Column(y, c)
           N == nthreads
           h == [u \in Threads |-> ShareOf(u, n)]
           g == [k \in 0 .. N |-> SumOver(f, 0, k)]
<1>1. N \in Nat \ {0} /\ Threads = 0 .. N - 1
  BY SizesAssumption DEF Threads
<1>2. \A k \in 0 .. N - 1 : /\ f[k] = hist[y][k][c] /\ f[k] \in Nat /\ h[k] \in Nat /\ f[k] <= h[k]
  BY <1>1, SharesSum DEF Column
<1>3. SumOver(h, 0, N) = n
  BY SharesSum
<1> HIDE DEF f, h, N
<1>4. SumOver(f, 0, N) <= SumOver(h, 0, N)
  BY <1>1, <1>2, SumsLess
<1>5. /\ SumOver(f, 0, 0) = 0
      /\ \A k \in 0 .. N : SumOver(f, 0, k) \in Nat
      /\ \A k \in 0 .. N - 1 : SumOver(f, 0, k + 1) = SumOver(f, 0, k) + f[k]
  BY <1>1, <1>2, Sums
<1>6. ASSUME NEW k \in 0 .. N - 1 PROVE SumOver(f, k, N) = SumOver(f, 0, N) - SumOver(f, 0, k)
  <2>1. \A j \in k .. N : g[j] \in Int
    BY <1>1, <1>5
  <2>2. \A j \in k .. N - 1 : f[j] = g[j + 1] - g[j]
    <3> SUFFICES ASSUME NEW j \in k .. N - 1 PROVE f[j] = g[j + 1] - g[j]
      OBVIOUS
    <3>1. j \in 0 .. N - 1 /\ j \in 0 .. N /\ j + 1 \in 0 .. N
      BY <1>1
    <3>2. g[j] = SumOver(f, 0, j) /\ g[j + 1] = SumOver(f, 0, j + 1) /\ g[j] \in Nat /\ f[j] \in Nat
      BY <1>2, <1>5, <3>1
    <3> HIDE DEF g
    <3> QED
      BY <1>5, <3>1, <3>2
  <2>3. g[k] = SumOver(f, 0, k) /\ g[N] = SumOver(f, 0, N) /\ k \in Int /\ N \in Int /\ k <= N
    BY <1>1
  <2> HIDE DEF g
  <2>4. /\ k \in Int /\ N \in Int /\ k <= N
        /\ \A j \in k .. N : g[j] \in Int
        /\ \A j \in k .. N - 1 : f[j] = g[j + 1] - g[j]
    BY <2>1, <2>2, <2>3
  <2>5. SumOver(f, k, N) = g[N] - g[k]
    BY <2>4, SumOfDifferences
  <2> QED
    BY <2>3, <2>5
<1> QED
  BY <1>2, <1>3, <1>4, <1>5, <1>6 DEF f, N

(* The offsets of all clusters and threads grow, in this order.            *)
LEMMA OffsetsGrow ==
    ASSUME NEW y, NEW F \in Nat \ {0}, NEW n \in Nat,
           \A u \in Threads : \A c \in 0 .. F - 1 :
               /\ hist[y][u][c] \in Nat /\ hist[y][u][c] <= ShareOf(u, n)
               /\ c > 0 => hist[y][u][c - 1] <= hist[y][u][c]
    PROVE  /\ \A c \in 0 .. F - 1 : \A k \in 0 .. nthreads : Offset(y, c, k) \in Int
           /\ \A c \in 0 .. F - 1 : \A k \in 0 .. nthreads - 1 :
                Offset(y, c, k + 1) = Offset(y, c, k)
                                        + (hist[y][k][c] - (IF c = 0 THEN 0 ELSE hist[y][k][c - 1]))
           /\ \A c \in 0 .. F - 1 : \A j, k \in 0 .. nthreads : j <= k => Offset(y, c, j) <= Offset(y, c, k)
           /\ \A c, d \in 0 .. F - 1 : \A j, k \in 0 .. nthreads : c < d => Offset(y, c, j) <= Offset(y, d, k)
           /\ Offset(y, 0, 0) = 0 /\ \A c \in 0 .. F - 1 : \A k \in 0 .. nthreads : Offset(y, c, k) <= n
<1> DEFINE N == nthreads
           S(c, k) == SumOver(Column(y, c), 0, k)
           H(c, k) == hist[y][k][c]
           o == [c \in 0 .. F - 1 |-> [k \in 0 .. N |-> Offset(y, c, k)]]
<1>1. N \in Nat \ {0} /\ Threads = 0 .. N - 1
  BY SizesAssumption DEF Threads
<1>2. \A c \in 0 .. F - 1 :
        /\ S(c, 0) = 0 /\ \A k \in 0 .. N : S(c, k) \in Nat
        /\ \A k \in 0 .. N - 1 : S(c, k + 1) = S(c, k) + H(c, k)
        /\ S(c, N) <= n
  BY Columns
<1>3. \A c \in 0 .. F - 1 : \A k \in 0 .. N - 1 :
        H(c, k) \in Nat /\ (c > 0 => H(c - 1, k) <= H(c, k) /\ H(c - 1, k) \in Nat)
  BY <1>1
<1>4. \A c, k : Offset(y, c, k) = S(c, k) + (IF c = 0 THEN 0 ELSE S(c - 1, N) - S(c - 1, k))
  BY DEF Offset
<1>5. \A c \in 0 .. F - 1 : \A k \in 0 .. N : o[c][k] = Offset(y, c, k)
  OBVIOUS
<1> HIDE DEF S, H, o, N
<1>6. ASSUME NEW c \in 0 .. F - 1, NEW k \in 0 .. N PROVE Offset(y, c, k) \in Int
  <2>1. S(c, k) \in Nat /\ N \in 0 .. N
    BY <1>1, <1>2
  <2>2. CASE c = 0
    BY <1>4, <2>1, <2>2
  <2>3. CASE c # 0
    <3>1. c - 1 \in 0 .. F - 1
      BY <2>3
    <3>2. S(c - 1, N) \in Nat /\ S(c - 1, k) \in Nat
      BY <1>2, <2>1, <3>1
    <3> QED
      BY <1>4, <2>1, <2>3, <3>2
  <2> QED
    BY <2>2, <2>3
<1>7. ASSUME NEW c \in 0 .. F - 1, NEW k \in 0 .. N - 1
      PROVE  /\ Offset(y, c, k + 1) = Offset(y, c, k) + (H(c, k) - (IF c = 0 THEN 0 ELSE H(c - 1, k)))
             /\ Offset(y, c, k) <= Offset(y, c, k + 1)
  <2>1. k \in 0 .. N /\ k + 1 \in 0 .. N /\ N \in 0 .. N
    BY <1>1
  <2>2. S(c, k) \in Nat /\ S(c, k + 1) = S(c, k) + H(c, k) /\ H(c, k) \in Nat
    BY <1>2, <1>3, <2>1
  <2>3. CASE c = 0
    BY <1>4, <2>2, <2>3
  <2>4. CASE c # 0
    <3>1. c - 1 \in 0 .. F - 1 /\ c > 0
      BY <2>4
    <3>2. /\ S(c - 1, N) \in Nat /\ S(c - 1, k) \in Nat /\ S(c - 1, k + 1) = S(c - 1, k) + H(c - 1, k)
          /\ H(c - 1, k) \in Nat /\ H(c - 1, k) <= H(c, k)
      BY <1>2, <1>3, <2>1, <3>1
    <3>3. /\ Offset(y, c, k) = S(c, k) + (S(c - 1, N) - S(c - 1, k))
          /\ Offset(y, c, k + 1) = S(c, k + 1) + (S(c - 1, N) - S(c - 1, k + 1))
      BY <1>4, <2>4
    <3> QED
      BY <2>2, <2>4, <3>2, <3>3
  <2> QED
    BY <2>3, <2>4
<1>8. ASSUME NEW c \in 0 .. F - 1 PROVE Offset(y, c, N) = S(c, N)
  <2>1. N \in 0 .. N /\ S(c, N) \in Nat
    BY <1>1, <1>2
  <2>2. CASE c = 0
    BY <1>4, <2>1, <2>2
  <2>3. CASE c # 0
    <3>1. c - 1 \in 0 .. F - 1
      BY <2>3
    <3>2. S(c - 1, N) \in Nat
      BY <1>2, <2>1, <3>1
    <3> QED
      BY <1>4, <2>1, <2>3, <3>2
  <2> QED
    BY <2>2, <2>3
<1>9. ASSUME NEW c \in 0 .. F - 2 PROVE Offset(y, c, N) = Offset(y, c + 1, 0)
  <2>1. c \in 0 .. F - 1 /\ c + 1 \in 0 .. F - 1 /\ c + 1 # 0 /\ (c + 1) - 1 = c /\ N \in 0 .. N
    BY <1>1
  <2>2. S(c + 1, 0) = 0 /\ S(c, 0) = 0 /\ S(c, N) \in Nat
    BY <1>2, <2>1
  <2>3. Offset(y, c + 1, 0) = S(c + 1, 0) + (S(c, N) - S(c, 0))
    BY <1>4, <2>1
  <2> QED
    BY <1>8, <2>1, <2>2, <2>3
<1>10. /\ \A c \in 0 .. F - 1 : \A j, k \in 0 .. N : j <= k => o[c][j] <= o[c][k]
       /\ \A c, d \in 0 .. F - 1 : \A j, k \in 0 .. N : c < d => o[c][j] <= o[d][k]
  <2>1. \A c \in 0 .. F - 1 : \A k \in 0 .. N : o[c][k] \in Int
    BY <1>5, <1>6
  <2>2. \A c \in 0 .. F - 1 : \A k \in 0 .. N - 1 : o[c][k] <= o[c][k + 1]
    <3> SUFFICES ASSUME NEW c \in 0 .. F - 1, NEW k \in 0 .. N - 1 PROVE o[c][k] <= o[c][k + 1]
      OBVIOUS
    <3>1. k \in 0 .. N /\ k + 1 \in 0 .. N
      BY <1>1
    <3> QED
      BY <1>5, <1>7, <3>1
  <2>3. \A c \in 0 .. F - 2 : o[c][N] = o[c + 1][0]
    <3> SUFFICES ASSUME NEW c \in 0 .. F - 2 PROVE o[c][N] = o[c + 1][0]
      OBVIOUS
    <3>1. c \in 0 .. F - 1 /\ c + 1 \in 0 .. F - 1 /\ N \in 0 .. N /\ 0 \in 0 .. N
      BY <1>1
    <3> QED
      BY <1>5, <1>9, <3>1
  <2> QED
    BY <1>1, <2>1, <2>2, <2>3, Staircase
<1>11. Offset(y, 0, 0) = 0
  <2>1. 0 \in 0 .. F - 1
    OBVIOUS
  <2>2. S(0, 0) = 0
    BY <1>2, <2>1
  <2> QED
    BY <1>4, <2>2
<1>12. ASSUME NEW c \in 0 .. F - 1, NEW k \in 0 .. N PROVE Offset(y, c, k) <= n
  <2>1. N \in 0 .. N /\ k <= N
    BY <1>1
  <2>2. Offset(y, c, k) <= Offset(y, c, N) /\ Offset(y, c, N) = S(c, N) /\ S(c, N) <= n /\ S(c, N) \in Nat
    BY <1>2, <1>5, <1>8, <1>10, <2>1
  <2>3. Offset(y, c, k) \in Int
    BY <1>6
  <2> QED
    BY <2>2, <2>3
<1>13. \A c \in 0 .. F - 1 : \A j, k \in 0 .. N : j <= k => Offset(y, c, j) <= Offset(y, c, k)
  BY <1>5, <1>10
<1>14. \A c, d \in 0 .. F - 1 : \A j, k \in 0 .. N : c < d => Offset(y, c, j) <= Offset(y, d, k)
  BY <1>5, <1>10
<1>15. \A c \in 0 .. F - 1 : \A k \in 0 .. N - 1 :
         Offset(y, c, k + 1) = Offset(y, c, k) + (H(c, k) - (IF c = 0 THEN 0 ELSE H(c - 1, k)))
  BY <1>7
<1> QED
  BY <1>6, <1>11, <1>12, <1>13, <1>14, <1>15 DEF N, H

(* What a thread in a pass has to go by.                                   *)
LEMMA PassBounds ==
    ASSUME RangeInv, ControlOK, NEW u \in Threads, InPass(u)
    PROVE  /\ x[u] \in Both /\ pass[u] \in {1, 2}
           /\ Amount(u, x[u]) \in Nat /\ Part(u).start \in Nat
           /\ Clusters(u) \in Nat \ {0} /\ Gap(u) \in Nat
           /\ \A c \in 0 .. Clusters(u) - 1 : Own(u)[c] \in Nat
<1>1. x[u] \in Both /\ pass[u] \in {1, 2}
  BY DEF ControlOK, Both
<1>2. /\ Amount(u, x[u]) \in Nat
      /\ pass[u] # 1 => slots[skewtask][x[u]].start \in Nat
  BY <1>1, Amounts
<1>3. /\ Part(u).start = (IF pass[u] = 1 THEN 0 ELSE slots[skewtask][x[u]].start)
      /\ Part(u).n = Amount(u, x[u]) /\ Clusters(u) \in Nat \ {0} /\ Gap(u) \in Nat
  BY <1>1, PartFacts
<1>4. Part(u).start \in Nat
  BY <1>2, <1>3
<1>5. ASSUME NEW c \in 0 .. Clusters(u) - 1 PROVE Own(u)[c] \in Nat
  <2> DEFINE p == Part(u)
             s == Share(u, p)
             T == InCluster(x[u], p.side, s, c, p.D, p.R)
  <2>1. p.n \in Nat /\ p.start \in Int
    BY <1>2, <1>3, <1>4
  <2>2. Own(u)[c] = Cardinality(T)
    BY DEF Own
  <2>3. T \subseteq Positions(s)
    BY DEF InCluster
  <2> HIDE DEF p
  <2>4. s.start \in Int /\ s.n \in Nat
    <3>1. Share(u, p).start \in Int /\ Share(u, p).n = ShareOf(u, p.n) /\ ShareOf(u, p.n) \in Nat
      BY <2>1, ShareFacts
    <3> QED
      BY <3>1
  <2> HIDE DEF s, T
  <2>5. IsFiniteSet(Positions(s))
    BY <2>4, PositionsCount
  <2> QED
    BY <2>2, <2>3, <2>5, FS_Subset, FS_CardinalityType
<1> QED
  BY <1>1, <1>2, <1>3, <1>4, <1>5

(* The sums of all threads for the relation that is copied.                *)
LEMMA AllCounted ==
    ASSUME TaskInv, RangeInv, NEW t \in Threads, pc[t] = "copy"
    PROVE  \A u \in Threads : \A c \in 0 .. Clusters(t) - 1 :
               /\ hist[x[t]][u][c] \in Nat /\ hist[x[t]][u][c] <= ShareOf(u, Amount(t, x[t]))
               /\ c > 0 => hist[x[t]][u][c - 1] <= hist[x[t]][u][c]
<1>1. \A u \in Threads : pass[u] = pass[t] /\ InPass(u) /\ Counted(u, x[t])
  BY AtCopy DEF TaskInv
<1>2. x[t] \in Both
  BY DEF TaskInv, ControlOK, Both
<1>3. \A u \in Threads : Summed(u, x[t])
  BY <1>1, <1>2 DEF RangeInv, Histograms, Histogrammed
<1>4. \A u \in Threads : Amount(u, x[t]) = Amount(t, x[t]) /\ Clusters(u) = Clusters(t)
  BY <1>1 DEF Amount, Clusters
<1> QED
  BY <1>3, <1>4 DEF Summed

(* A thread starts where the offsets say, and takes what it counted.       *)
LEMMA StartsAre ==
    ASSUME TaskInv, RangeInv, CopyInv, NEW t \in Threads, pc[t] = "copy"
    PROVE  \A c \in 0 .. Clusters(t) - 1 :
             /\ ClusterStart(t, c) = c * Gap(t) + Offset(x[t], c, t)
             /\ Own(t)[c] = Offset(x[t], c, t + 1) - Offset(x[t], c, t)
<1> DEFINE y == x[t]
           F == Clusters(t)
           P == Gap(t)
           n == Amount(t, y)
           N == nthreads
<1>0. ControlOK /\ InPass(t) /\ Exactly(t) /\ Untouched(t)
  BY DEF TaskInv, InPass, CopyInv, Copying, Ready
<1>1. /\ y \in Both /\ F \in Nat \ {0} /\ P \in Nat /\ n \in Nat /\ pass[t] \in {1, 2}
      /\ \A c \in 0 .. F - 1 : Own(t)[c] \in Nat
  BY <1>0, PassBounds
<1>2. Part(t).padding = P
  BY <1>1, PartFacts
<1>3. N \in Nat \ {0} /\ t \in 0 .. N - 1 /\ t \in 0 .. N /\ t + 1 \in 0 .. N /\ N \in 0 .. N
  BY SizesAssumption DEF Threads
<1>4. \A u \in Threads : \A c \in 0 .. F - 1 :
               /\ hist[y][u][c] \in Nat /\ hist[y][u][c] <= ShareOf(u, n)
               /\ c > 0 => hist[y][u][c - 1] <= hist[y][u][c]
  BY AllCounted
<1> HIDE DEF F, P, n
<1>5. \A c \in 0 .. F - 1 :
             /\ \A k \in 0 .. nthreads : SumOver(Column(y, c), 0, k) \in Nat
             /\ \A k \in 0 .. nthreads - 1 :
                  SumOver(Column(y, c), k, nthreads)
                       = SumOver(Column(y, c), 0, nthreads) - SumOver(Column(y, c), 0, k)
  BY <1>1, <1>4, Columns
<1>6. /\ \A c \in 0 .. F - 1 : \A k \in 0 .. nthreads : Offset(y, c, k) \in Int
      /\ \A c \in 0 .. F - 1 : \A k \in 0 .. nthreads - 1 :
                Offset(y, c, k + 1) = Offset(y, c, k)
                                        + (hist[y][k][c] - (IF c = 0 THEN 0 ELSE hist[y][k][c - 1]))
  BY <1>1, <1>4, OffsetsGrow
<1>7. \A c \in 0 .. F - 1 : output[t][y][c] = 0
  <2>1. output[t][y] = Zero(F + 1)
    BY <1>0, <1>1 DEF Untouched, F
  <2>2. \A c \in 0 .. F - 1 : c \in 0 .. (F + 1) - 1
    BY <1>1
  <2> HIDE DEF y
  <2> QED
    BY <2>1, <2>2 DEF Zero
<1>8. \A c \in 0 .. F - 1 : hist[y][t][c] = SumOver(Own(t), 0, c + 1)
  BY <1>0 DEF Exactly, F
<1>9. /\ SumOver(Own(t), 0, 0) = 0
      /\ \A c \in 0 .. F : SumOver(Own(t), 0, c) \in Nat
      /\ \A c \in 0 .. F - 1 : SumOver(Own(t), 0, c + 1) = SumOver(Own(t), 0, c) + Own(t)[c]
  <2> DEFINE f == Own(t)
  <2> HIDE DEF f
  <2>1. F \in Nat /\ \A c \in 0 .. F - 1 : f[c] \in Nat
    BY <1>1 DEF f
  <2>2. /\ SumOver(f, 0, 0) = 0
        /\ \A c \in 0 .. F : SumOver(f, 0, c) \in Nat
        /\ \A c \in 0 .. F - 1 : SumOver(f, 0, c + 1) = SumOver(f, 0, c) + f[c]
    BY <2>1, Sums
  <2> QED
    BY <2>2 DEF f
<1>10. ASSUME NEW c \in 0 .. F - 1 PROVE ClusterStart(t, c) = c * P + Offset(y, c, t)
  <2> DEFINE A == SumOver(Column(y, c), 0, t)
             B == IF c = 0 THEN 0 ELSE SumOver(Column(y, c - 1), t, nthreads)
             C == IF c = 0 THEN 0 ELSE SumOver(Column(y, c - 1), 0, nthreads) - SumOver(Column(y, c - 1), 0, t)
  <2>1. ClusterStart(t, c) = output[t][y][c] + c * P + A + B
    BY <1>2 DEF ClusterStart
  <2>2. Offset(y, c, t) = A + C
    BY DEF Offset
  <2>3. A \in Nat /\ c * P \in Nat
    BY <1>1, <1>3, <1>5
  <2>4. B = C /\ C \in Int
    <3>1. CASE c = 0
      BY <3>1
    <3>2. CASE c # 0
      <4>1. c - 1 \in 0 .. F - 1
        BY <1>1, <3>2
      <4>2. /\ SumOver(Column(y, c - 1), 0, nthreads) \in Nat /\ SumOver(Column(y, c - 1), 0, t) \in Nat
            /\ SumOver(Column(y, c - 1), t, nthreads)
                 = SumOver(Column(y, c - 1), 0, nthreads) - SumOver(Column(y, c - 1), 0, t)
        BY <1>3, <1>5, <4>1
      <4> QED
        BY <3>2, <4>2
    <3> QED
      BY <3>1, <3>2
  <2> HIDE DEF A, B, C
  <2> QED
    BY <1>7, <2>1, <2>2, <2>3, <2>4
<1>11. ASSUME NEW c \in 0 .. F - 1 PROVE Own(t)[c] = Offset(y, c, t + 1) - Offset(y, c, t)
  <2> DEFINE b == IF c = 0 THEN 0 ELSE hist[y][t][c - 1]
             w == SumOver(Own(t), 0, c)
  <2>1. Offset(y, c, t + 1) = Offset(y, c, t) + (hist[y][t][c] - b)
    BY <1>3, <1>6
  <2>2. c \in 0 .. F /\ w \in Nat /\ hist[y][t][c] = w + Own(t)[c] /\ Own(t)[c] \in Nat
    BY <1>1, <1>8, <1>9
  <2>3. b = w
    <3>1. CASE c = 0
      BY <1>9, <3>1
    <3>2. CASE c # 0
      <4>1. c - 1 \in 0 .. F - 1 /\ (c - 1) + 1 = c
        BY <1>1, <3>2
      <4> QED
        BY <1>8, <3>2, <4>1
    <3> QED
      BY <3>1, <3>2
  <2>4. Offset(y, c, t) \in Int
    BY <1>3, <1>6
  <2> HIDE DEF b, w
  <2> QED
    BY <2>1, <2>2, <2>3, <2>4
<1> QED
  BY <1>10, <1>11 DEF F, P

(* What a thread writes in a pass.                                         *)
LEMMA CopiesAre ==
    ASSUME TaskInv, RangeInv, CopyInv, NEW t \in Threads, pc[t] = "copy", NEW w \in CopyWrites(t)
    PROVE  \E c \in 0 .. Clusters(t) - 1, q \in Int :
             /\ w = <<x[t], Other(Part(t).side), q>>
             /\ Part(t).start + c * Gap(t) + Offset(x[t], c, t) <= q
             /\ q < Part(t).start + c * Gap(t) + Offset(x[t], c, t + 1)
<1> DEFINE y == x[t]
           p == Part(t)
           F == Clusters(t)
           cluster(c) ==
             [start |-> p.start + ClusterStart(t, c),
              n |-> Cardinality(InCluster(y, p.side, Share(t, p), c, p.D, p.R))]
<1>0. ControlOK /\ InPass(t) /\ 2 ^ p.D = F
  <2>1. ControlOK /\ pass[t] \in {1, 2}
    BY DEF TaskInv, ControlOK
  <2> QED
    BY <2>1, PartFacts DEF InPass
<1>1. /\ F \in Nat \ {0} /\ Gap(t) \in Nat /\ p.start \in Nat
      /\ \A c \in 0 .. F - 1 : Own(t)[c] \in Nat
  BY <1>0, PassBounds
<1>2. CopyWrites(t) = UNION {Cells(y, Other(p.side), cluster(c)) : c \in 0 .. F - 1}
  BY <1>0 DEF CopyWrites
<1>3. PICK c \in 0 .. F - 1 : w \in Cells(y, Other(p.side), cluster(c))
  <2> HIDE DEF cluster, F, y, p
  <2> QED
    BY <1>2
<1>4. PICK q \in cluster(c).start .. cluster(c).start + cluster(c).n - 1 : w = <<y, Other(p.side), q>>
  <2> HIDE DEF cluster, F, y, p
  <2> QED
    BY <1>3 DEF Cells, Positions
<1>5. cluster(c).start = p.start + ClusterStart(t, c) /\ cluster(c).n = Own(t)[c]
  BY DEF Own
<1>6. /\ ClusterStart(t, c) = c * Gap(t) + Offset(y, c, t)
      /\ Own(t)[c] = Offset(y, c, t + 1) - Offset(y, c, t)
  BY StartsAre
<1>7. Offset(y, c, t) \in Int /\ Offset(y, c, t + 1) \in Int
  <2>1. \A u \in Threads : \A d \in 0 .. F - 1 :
               /\ hist[y][u][d] \in Nat /\ hist[y][u][d] <= ShareOf(u, Amount(t, y))
               /\ d > 0 => hist[y][u][d - 1] <= hist[y][u][d]
    BY AllCounted
  <2>2. t \in 0 .. nthreads /\ t + 1 \in 0 .. nthreads
    BY SizesAssumption DEF Threads
  <2>3. Amount(t, y) \in Nat
    BY <1>0, PassBounds
  <2> HIDE DEF F, y
  <2>4. \A d \in 0 .. F - 1 : \A k \in 0 .. nthreads : Offset(y, d, k) \in Int
    BY <1>1, <2>1, <2>3, OffsetsGrow
  <2> QED
    BY <2>2, <2>4
<1> DEFINE g == c * Gap(t)
<1>8. g \in Nat
  BY <1>1
<1>9. /\ q \in Int /\ p.start + g + Offset(y, c, t) <= q
      /\ q < p.start + g + Offset(y, c, t + 1)
  <2>1. /\ cluster(c).start = p.start + (g + Offset(y, c, t))
        /\ cluster(c).n = Offset(y, c, t + 1) - Offset(y, c, t)
    BY <1>5, <1>6
  <2> HIDE DEF cluster, g, y, p, F
  <2> QED
    BY <1>1, <1>4, <1>7, <1>8, <2>1
<1> QED
  BY <1>4, <1>9

(* Threads that divide a range together write in different places.         *)
LEMMA CopiesAreApart == TaskInv /\ RangeInv /\ CopyInv => CopiesApart
<1> SUFFICES ASSUME TaskInv, RangeInv, CopyInv, NEW t \in Threads, pc[t] = "copy"
             PROVE  /\ IF pass[t] = 1
                       THEN \A w \in CopyWrites(t) : w[3] \in DOMAIN tuples[w[1]][w[2]]
                       ELSE CopyWrites(t) \subseteq Writes(slots[skewtask])
                    /\ \A u \in Threads \ {t} : pc[u] = "copy" => CopyWrites(t) \cap CopyWrites(u) = {}
  BY DEF CopiesApart
<1> DEFINE y == x[t]
           F == Clusters(t)
           P == Gap(t)
           n == Amount(t, y)
           s == Part(t).start
           N == nthreads
           o(c, k) == Offset(y, c, k)
<1>0. ControlOK /\ Together /\ Shape /\ Laid /\ Kinds /\ InPass(t)
  BY DEF TaskInv, RangeInv, RangesOK, InPass
<1>1. y \in Both /\ F \in Nat \ {0} /\ P \in Nat /\ n \in Nat /\ s \in Nat /\ pass[t] \in {1, 2}
  BY <1>0, PassBounds
<1>2. N \in Nat \ {0} /\ Threads = 0 .. N - 1 /\ 0 \in 0 .. N /\ t \in 0 .. N /\ t + 1 \in 0 .. N
  BY SizesAssumption DEF Threads
<1>3. /\ \A c \in 0 .. F - 1 : \A k \in 0 .. N : o(c, k) \in Int
      /\ \A c \in 0 .. F - 1 : \A j, k \in 0 .. N : j <= k => o(c, j) <= o(c, k)
      /\ \A c, d \in 0 .. F - 1 : \A j, k \in 0 .. N : c < d => o(c, j) <= o(d, k)
      /\ o(0, 0) = 0 /\ \A c \in 0 .. F - 1 : \A k \in 0 .. N : o(c, k) <= n
  <2>1. \A u \in Threads : \A c \in 0 .. F - 1 :
               /\ hist[y][u][c] \in Nat /\ hist[y][u][c] <= ShareOf(u, n)
               /\ c > 0 => hist[y][u][c - 1] <= hist[y][u][c]
    BY AllCounted
  <2> HIDE DEF F, y, n
  <2> QED
    BY <1>1, <2>1, OffsetsGrow
<1> HIDE DEF o, F, P, n, s
<1>4. \A c \in 0 .. F - 1 : c * P \in Nat /\ c * P <= (F - 1) * P
  <2> SUFFICES ASSUME NEW c \in 0 .. F - 1 PROVE c * P \in Nat /\ c * P <= (F - 1) * P
    OBVIOUS
  <2>1. c * P \in Nat /\ (F - 1) * P \in Nat
    BY <1>1
  <2>2. CASE c = F - 1
    BY <2>1, <2>2
  <2>3. CASE c # F - 1
    <3>1. c < F - 1 /\ F - 1 \in Nat /\ c \in Nat
      BY <1>1, <2>3
    <3> DEFINE m == F - 1
    <3> HIDE DEF m
    <3>2. c * P + P <= m * P
      BY <1>1, <3>1, Multiples DEF m
    <3>3. m * P \in Nat
      BY <2>1 DEF m
    <3> QED
      BY <1>1, <2>1, <3>2, <3>3 DEF m
  <2> QED
    BY <2>2, <2>3
<1>5. \A c, d \in 0 .. F - 1 : c < d => c * P <= d * P
  <2> SUFFICES ASSUME NEW c \in 0 .. F - 1, NEW d \in 0 .. F - 1, c < d PROVE c * P <= d * P
    OBVIOUS
  <2>1. c \in Nat /\ d \in Nat
    BY <1>1
  <2>2. c * P \in Nat /\ c * P + P <= d * P /\ d * P \in Nat
    BY <1>1, <1>4, <2>1, Multiples
  <2> QED
    BY <1>1, <2>2
<1>6. \A w \in CopyWrites(t) : \E c \in 0 .. F - 1, q \in Int :
             /\ w = <<y, Other(Part(t).side), q>>
             /\ s + c * P + o(c, t) <= q /\ q < s + c * P + o(c, t + 1)
  BY CopiesAre DEF F, P, o, s
<1>7. ASSUME NEW w \in CopyWrites(t)
      PROVE  \E q \in Nat : w = <<y, Other(Part(t).side), q>> /\ s <= q /\ q < s + n + (F - 1) * P
  <2>1. PICK c \in 0 .. F - 1, q \in Int :
             /\ w = <<y, Other(Part(t).side), q>>
             /\ s + c * P + o(c, t) <= q /\ q < s + c * P + o(c, t + 1)
    BY <1>6
  <2>2. o(c, t) \in Int /\ o(c, t + 1) \in Int /\ 0 <= o(c, t) /\ o(c, t + 1) <= n
    <3>1. 0 \in 0 .. F - 1 /\ 0 <= t
      BY <1>1, <1>2
    <3>2. CASE c = 0
      BY <1>2, <1>3, <3>1, <3>2
    <3>3. CASE c # 0
      <4>1. 0 < c
        BY <3>3
      <4> QED
        BY <1>2, <1>3, <3>1, <4>1
    <3> QED
      BY <3>2, <3>3
  <2> DEFINE g == c * P
             m == (F - 1) * P
  <2>3. g \in Nat /\ m \in Nat /\ g <= m
    <3>1. F - 1 \in Nat
      BY <1>1
    <3> QED
      BY <1>1, <1>4, <3>1
  <2>4. s + g + o(c, t) <= q /\ q < s + g + o(c, t + 1)
    BY <2>1
  <2> HIDE DEF g, m
  <2>5. q \in Nat /\ s <= q /\ q < s + n + m
    BY <1>1, <2>2, <2>3, <2>4
  <2> QED
    BY <2>1, <2>5 DEF m
<1>8. ASSUME pass[t] = 1, NEW w \in CopyWrites(t) PROVE w[3] \in DOMAIN tuples[w[1]][w[2]]
  <2>1. PICK q \in Nat : w = <<y, Other(Part(t).side), q>> /\ s <= q /\ q < s + n + (F - 1) * P
    BY <1>7
  <2>2. F = FANOUT_PASS1 /\ P = PADDING_TUPLES /\ n = Len(input[y]) /\ Other(Part(t).side) \in {"rel", "tmp"}
    BY <1>8 DEF F, P, n, Clusters, Gap, Amount, Part, Other
  <2>3. s = 0
    BY <1>1, <1>8, PartFacts DEF s
  <2>4. (F - 1) * P + P = P * F /\ P * F \in Nat /\ (F - 1) * P \in Nat
    <3>1. F - 1 \in Nat
      BY <1>1
    <3>2. (F - 1) * P \in Nat /\ P * F \in Nat
      BY <1>1, <3>1
    <3>3. (F - 1) * P + P = P * F
      BY <1>1
    <3> QED
      BY <3>2, <3>3
  <2>5. ArraySize(y) = n + P * F
    BY <2>2 DEF ArraySize
  <2>6. q \in 0 .. ArraySize(y) - 1
    <3> DEFINE m == (F - 1) * P
               g == P * F
    <3>1. q < s + n + m /\ m + P = g /\ g \in Nat /\ m \in Nat /\ ArraySize(y) = n + g
      BY <2>1, <2>4, <2>5
    <3> HIDE DEF m, g
    <3> QED
      BY <1>1, <2>3, <3>1
  <2>7. DOMAIN tuples[y][Other(Part(t).side)] = 0 .. ArraySize(y) - 1
    BY <1>0, <1>1, <2>2 DEF Shape
  <2> QED
    BY <2>1, <2>6, <2>7
<1>9. ASSUME pass[t] # 1, NEW w \in CopyWrites(t) PROVE w \in Writes(slots[skewtask])
  <2>1. PICK q \in Nat : w = <<y, Other(Part(t).side), q>> /\ s <= q /\ q < s + n + (F - 1) * P
    BY <1>7
  <2>2. /\ F = FANOUT_PASS2 /\ P = SMALL_PADDING_TUPLES /\ n = slots[skewtask][y].n
        /\ Other(Part(t).side) = "rel"
    BY <1>9 DEF F, P, n, Clusters, Gap, Amount, Part, Other
  <2>3. s = slots[skewtask][y].start
    BY <1>1, <1>9, PartFacts DEF s
  <2>4. skewtask \in DOMAIN slots /\ IsPart(skewtask)
    <3>1. skewtask \in DOMAIN slots /\ pass[t] = 2
      BY <1>0, <1>1, <1>9, Amounts
    <3>2. skewtask # NoSlot
      BY <1>0, <3>1 DEF RangeInv, Histograms, Histogrammed
    <3> QED
      BY <1>0, <3>1, <3>2 DEF Kinds, SkewHeld
  <2> DEFINE spread(z) == [z EXCEPT !.n = @ + (FANOUT_PASS2 - 1) * SMALL_PADDING_TUPLES]
             e == slots[skewtask][y]
  <2>5. Writes(slots[skewtask]) = Cells("R", "rel", spread(slots[skewtask].R))
                                    \cup Cells("S", "rel", spread(slots[skewtask].S))
    BY <2>4 DEF Writes, IsPart
  <2>6. e \in Extent
    BY <1>0, <1>1, <2>4 DEF Laid, TaskOf, Both
  <2> DEFINE m == (FANOUT_PASS2 - 1) * SMALL_PADDING_TUPLES
  <2>7. spread(e).start = e.start /\ spread(e).n = e.n + m
    BY <2>6 DEF Extent
  <2>8. m \in Nat /\ s = e.start /\ n = e.n /\ q < s + n + m
    <3>1. F - 1 \in Nat
      BY <1>1
    <3>2. (F - 1) * P \in Nat
      BY <1>1, <3>1
    <3> QED
      BY <2>1, <2>2, <2>3, <3>2
  <2>9. q \in Positions(spread(e))
    <3> HIDE DEF spread, m, e
    <3>1. q \in e.start .. e.start + (e.n + m) - 1
      BY <1>1, <2>1, <2>8
    <3> QED
      BY <2>7, <3>1 DEF Positions
  <2>10. w \in Cells(y, "rel", spread(e))
    <3> HIDE DEF spread, e
    <3> QED
      BY <2>1, <2>2, <2>9 DEF Cells
  <2> QED
    <3> HIDE DEF spread
    <3> QED
      BY <1>1, <2>5, <2>10 DEF Both
<1>10. ASSUME NEW u \in Threads \ {t}, pc[u] = "copy", NEW w \in CopyWrites(t), w \in CopyWrites(u)
       PROVE  FALSE
  <2>1. x[u] = y /\ pass[u] = pass[t]
    BY <1>0, <1>10, AtCopies
  <2>2. Clusters(u) = F /\ Gap(u) = P /\ Part(u) = Part(t)
    BY <2>1 DEF Clusters, Gap, Part, F, P
  <2>3. PICK c \in 0 .. F - 1, q \in Int :
             /\ w = <<y, Other(Part(t).side), q>>
             /\ s + c * P + o(c, t) <= q /\ q < s + c * P + o(c, t + 1)
    BY <1>6
  <2>4. PICK d \in 0 .. F - 1, r \in Int :
             /\ w = <<y, Other(Part(t).side), r>>
             /\ s + d * P + o(d, u) <= r /\ r < s + d * P + o(d, u + 1)
    BY <1>10, <2>1, <2>2, CopiesAre DEF s, o
  <2>5. q = r /\ u \in Int /\ t \in Int /\ u # t /\ u \in 0 .. N /\ u + 1 \in 0 .. N
    BY <1>2, <2>3, <2>4
  <2>6. /\ o(c, t) \in Int /\ o(c, t + 1) \in Int /\ o(d, u) \in Int /\ o(d, u + 1) \in Int
        /\ c * P \in Nat /\ d * P \in Nat
    BY <1>2, <1>3, <1>4, <2>5
  <2> DEFINE g == c * P
             h == d * P
  <2>7. /\ s + g + o(c, t) <= q /\ q < s + g + o(c, t + 1)
        /\ s + h + o(d, u) <= q /\ q < s + h + o(d, u + 1) /\ g \in Nat /\ h \in Nat
    BY <2>3, <2>4, <2>5, <2>6
  <2>8. (c < d \/ (c = d /\ t < u)) => g <= h /\ o(c, t + 1) <= o(d, u)
    <3>1. CASE c < d
      BY <1>2, <1>3, <1>5, <2>5, <3>1
    <3>2. CASE c = d /\ t < u
      <4>1. t + 1 <= u
        BY <2>5, <3>2
      <4> QED
        BY <1>2, <1>3, <2>5, <2>6, <3>2, <4>1
    <3> QED
      BY <3>1, <3>2
  <2>9. (d < c \/ (c = d /\ u < t)) => h <= g /\ o(d, u + 1) <= o(c, t)
    <3>1. CASE d < c
      BY <1>2, <1>3, <1>5, <2>5, <3>1
    <3>2. CASE c = d /\ u < t
      <4>1. u + 1 <= t
        BY <2>5, <3>2
      <4> QED
        BY <1>2, <1>3, <2>5, <2>6, <3>2, <4>1
    <3> QED
      BY <3>1, <3>2
  <2> HIDE DEF g, h
  <2>10. CASE c < d \/ (c = d /\ t < u)
    BY <1>1, <2>5, <2>6, <2>7, <2>8, <2>10
  <2>11. CASE d < c \/ (c = d /\ u < t)
    BY <1>1, <2>5, <2>6, <2>7, <2>9, <2>11
  <2> QED
    BY <2>5, <2>10, <2>11
<1> QED
  BY <1>8, <1>9, <1>10

-----------------------------------------------------------------------------
(* The sums stay those of the tuples that are copied.                      *)

LEMMA OwnStays ==
    ASSUME NEW u \in Threads, pass[u] \in {1, 2}, input' = input, pass'[u] = pass[u], x'[u] = x[u],
           slots' = slots, skewtask' = skewtask,
           tuples'[x[u]][Part(u).side] = tuples[x[u]][Part(u).side]
    PROVE  Own(u)' = Own(u) /\ Clusters(u)' = Clusters(u)
<1> DEFINE p == Part(u)
           y == x[u]
<1>1. Part(u)' = p /\ Clusters(u)' = Clusters(u) /\ x'[u] = y
  BY DEF Part, Clusters
<1>2. \A s, c : InCluster(y, p.side, s, c, p.D, p.R)' = InCluster(y, p.side, s, c, p.D, p.R)
  <2> SUFFICES ASSUME NEW s, NEW c
               PROVE  InCluster(y, p.side, s, c, p.D, p.R)' = InCluster(y, p.side, s, c, p.D, p.R)
    OBVIOUS
  <2>1. tuples'[y][p.side] = tuples[y][p.side] /\ p' = p /\ y' = y
    BY <1>1
  <2> HIDE DEF p, y
  <2>2. \A q : input'[y][tuples'[y][p.side][q]] = input[y][tuples[y][p.side][q]]
    BY <2>1
  <2> QED
    BY <2>1, <2>2 DEF InCluster, Key
<1>3. \A s : Share(u, s)' = Share(u, s)
  BY DEF Share
<1> QED
  BY <1>1, <1>2, <1>3 DEF Own

LEMMA ExactStays ==
    ASSUME NEW u \in Threads, pass[u] \in {1, 2}, input' = input, pass'[u] = pass[u], x'[u] = x[u],
           slots' = slots, skewtask' = skewtask,
           tuples'[x[u]][Part(u).side] = tuples[x[u]][Part(u).side],
           hist'[x[u]][u] = hist[x[u]][u], Exactly(u)
    PROVE  Exactly(u)'
<1>1. Own(u)' = Own(u) /\ Clusters(u)' = Clusters(u)
  BY OwnStays
<1>2. \A f, a, b : SumOver(f, a, b)' = SumOver(f, a, b)
  BY DEF SumOver
<1> QED
  BY <1>1, <1>2 DEF Exactly, SumOver

LEMMA UntouchedStays ==
    ASSUME NEW u \in Threads, pass'[u] = pass[u], x'[u] = x[u], output'[u] = output[u], Untouched(u)
    PROVE  Untouched(u)'
<1>1. Clusters(u)' = Clusters(u)
  BY DEF Clusters
<1> QED
  BY <1>1 DEF Untouched, Zero

(* No thread changes what another is about to copy.                        *)
LEMMA TuplesKept ==
    ASSUME TaskInv, RangeInv, NEW t \in Threads, prj_thread(t), NEW u \in Threads, u # t, Copying(u)
    PROVE  tuples'[x[u]][Part(u).side] = tuples[x[u]][Part(u).side]
<1>0. ControlOK /\ Together /\ Shape /\ x[u] \in Both
  BY DEF TaskInv, ControlOK, RangeInv, Both
<1>1. CASE Copy(t)
  <2>1. pass[u] = pass[t]
    BY <1>0, <1>1, AtCopy DEF Copy
  <2>2. Part(u).side = Part(t).side /\ Part(u).side \in {"rel", "tmp"} /\ Part(u).side # Other(Part(u).side)
    BY <2>1 DEF Part, Other
  <2>3. \E v : tuples' = [tuples EXCEPT ![x[t]][Other(Part(t).side)] = v]
    BY <1>1 DEF Copy
  <2> QED
    BY <1>0, <2>2, <2>3 DEF Shape
<1>2. CASE radix_cluster(t)
  <2>1. pc[t] = "cluster"
    BY <1>2 DEF radix_cluster
  <2>2. pc[u] \in {"part", "cluster", "offer", "add", "skew"} \/ To(u, "skewtask")
    BY <1>0, <2>1, AtWork
  <2> QED
    BY <2>2 DEF Copying, To
<1>3. CASE Reorder(t)
  <2>1. pc[t] = "reorder"
    BY <1>3 DEF Reorder
  <2>2. PICK g \in Stages, p \in {1, 2} : \A v \in Threads : At(g, p, v)
    BY <1>0 DEF Together
  <2>3. g = "join"
    BY <2>1, <2>2 DEF At, To, Stages
  <2>4. pc[u] \in {"join", "chain", "reorder", "probe"} \/ To(u, "end")
    BY <2>2, <2>3 DEF At
  <2> QED
    BY <2>4 DEF Copying, To
<1>4. CASE ~ (Copy(t) \/ radix_cluster(t) \/ Reorder(t))
  BY <1>4 DEF prj_thread, Start, Histogram, Made, MakeTask, Split, Move, TakePart, Offer,
         task_queue_add_atomic, TakeSkew, SkewTask, TakeJoin, ChainJoin, Probe
<1> QED
  BY <1>1, <1>2, <1>3, <1>4

(* A thread's histogram is summed up from the counts of its share.         *)
LEMMA HistogramExact ==
    ASSUME Shape, ControlOK, NEW t \in Threads, Histogram(t), hist[x[t]][t] = Zero(Clusters(t)),
           Clusters(t) \in Nat \ {0}, \A c \in 0 .. Clusters(t) - 1 : Own(t)[c] \in Nat
    PROVE  \A c \in 0 .. Clusters(t) - 1 : hist'[x[t]][t][c] = SumOver(Own(t), 0, c + 1)
<1> DEFINE y == x[t]
           p == Part(t)
           F == Clusters(t)
           f(c) == Cardinality(InCluster(y, p.side, Share(t, p), c, p.D, p.R))
           my == [c \in DOMAIN hist[y][t] |-> hist[y][t][c] + f(c)]
<1>0. y \in Both
  BY DEF ControlOK, Both
<1>1. hist' = [hist EXCEPT ![y][t] = [c \in DOMAIN @ |-> SumOver(my, 0, c + 1)]]
  BY DEF Histogram
<1>2. DOMAIN hist[y][t] = 0 .. F - 1 /\ \A c \in 0 .. F - 1 : hist[y][t][c] = 0
  BY DEF Zero
<1>3. Own(t) = [c \in 0 .. F - 1 |-> f(c)]
  BY DEF Own
<1> HIDE DEF f, F, p
<1>4. \A c \in 0 .. F - 1 : hist[y][t][c] + f(c) = f(c)
  <2>1. \A c \in 0 .. F - 1 : f(c) \in Nat
    <3>1. \A c \in 0 .. F - 1 : Own(t)[c] = f(c)
      BY <1>3
    <3> QED
      BY <3>1 DEF F
  <2> HIDE DEF y
  <2> QED
    BY <1>2, <2>1
<1>5. my = Own(t)
  <2> HIDE DEF y
  <2> QED
    BY <1>2, <1>3, <1>4
<1> HIDE DEF my
<1>6. hist'[y][t] = [c \in DOMAIN hist[y][t] |-> SumOver(my, 0, c + 1)]
  <2> HIDE DEF y
  <2> QED
    BY <1>0, <1>1 DEF Shape
<1> HIDE DEF y
<1>7. \A c \in 0 .. F - 1 : hist'[y][t][c] = SumOver(Own(t), 0, c + 1)
  BY <1>2, <1>5, <1>6
<1> QED
  BY <1>7 DEF F, y

LEMMA CopyInit == Init => CopyInv
<1> SUFFICES ASSUME Init, NEW t \in Threads PROVE ~ Copying(t) /\ Untouched(t)
  BY DEF CopyInv
<1>1. pc[t] = "start" /\ pass[t] = 1 /\ x[t] = "R" /\ \A y \in Both : output[t][y] = Zero(FANOUT_PASS1 + 1)
  BY DEF Init, Each, Both
<1> QED
  BY <1>1 DEF Copying, To, Untouched, Clusters

LEMMA CopyStep ==
    ASSUME TaskInv, RangeInv, CopyInv, TaskInv', NEW t \in Threads, prj_thread(t)
    PROVE  CopyInv'
<1>0. Shape /\ input' = input /\ ControlOK /\ Histograms
  BY DEF RangeInv, prj_thread, TaskInv
<1> SUFFICES ASSUME NEW u \in Threads
             PROVE  (Copying(u)' => Exactly(u)') /\ (Ready(u)' => Untouched(u)')
  BY DEF CopyInv
<1>1. Copying(u)' \/ Ready(u)' => InPass(u)'
  BY DEF Copying, Ready, To, InPass
<1>2. InPass(u)' => slots' = slots /\ skewtask' = skewtask
  BY PassKeeps
<1>3. pass[u] \in {1, 2} /\ x[u] \in Both
  BY <1>0 DEF ControlOK, Both
<1>4. CASE u # t
  <2>1. /\ pc'[u] = pc[u] /\ after'[u] = after[u] /\ pass'[u] = pass[u] /\ x'[u] = x[u]
        /\ output'[u] = output[u] /\ hist'[x[u]][u] = hist[x[u]][u]
    BY <1>3, <1>4, OthersKeep
  <2>2. (Copying(u)' <=> Copying(u)) /\ (Ready(u)' <=> Ready(u))
    BY <2>1 DEF Copying, Ready, To
  <2>3. ASSUME Copying(u)' PROVE Exactly(u)'
    <3>1. Copying(u) /\ Exactly(u)
      BY <2>2, <2>3 DEF CopyInv
    <3>2. tuples'[x[u]][Part(u).side] = tuples[x[u]][Part(u).side]
      BY <1>4, <3>1, TuplesKept
    <3>3. slots' = slots /\ skewtask' = skewtask
      BY <1>1, <1>2, <2>3
    <3> QED
      BY <1>0, <1>3, <2>1, <3>1, <3>2, <3>3, ExactStays
  <2>4. ASSUME Ready(u)' PROVE Untouched(u)'
    <3>1. Untouched(u)
      BY <2>2, <2>4 DEF CopyInv
    <3> QED
      BY <2>1, <3>1, UntouchedStays
  <2> QED
    BY <2>3, <2>4
<1>5. CASE u = t /\ Start(t)
  <2>1. /\ pc[t] = "start" /\ pc'[t] = "barrier" /\ after'[t] = "hist" /\ pass'[t] = pass[t] /\ x'[t] = x[t]
        /\ output'[t] = output[t]
    BY <1>0, <1>5 DEF ControlOK, Start, Arrive, partition
  <2>2. ~ Copying(t)' /\ Untouched(t)
    BY <2>1 DEF Copying, To, CopyInv, Ready
  <2>3. Untouched(t)'
    BY <2>1, <2>2, UntouchedStays
  <2> QED
    BY <1>5, <2>2, <2>3
<1>6. CASE u = t /\ Histogram(t)
  <2>1. /\ pc[t] = "hist" /\ pc'[t] = "barrier" /\ after'[t] = "copy" /\ pass' = pass /\ x' = x
        /\ output' = output /\ tuples' = tuples
    BY <1>0, <1>6 DEF ControlOK, Histogram, Arrive
  <2>2. Untouched(t) /\ InPass(t) /\ InPass(t)' /\ ~ Counted(t, x[t])
    BY <1>3, <1>6, <2>1 DEF CopyInv, Ready, InPass, Counted, Both
  <2>3. Untouched(t)'
    BY <2>1, <2>2, UntouchedStays
  <2>4. hist[x[t]][t] = Zero(Clusters(t))
    BY <1>0, <1>3, <1>6, <2>2 DEF Histograms, Histogrammed
  <2>5. Clusters(t) \in Nat \ {0} /\ \A c \in 0 .. Clusters(t) - 1 : Own(t)[c] \in Nat
    BY <1>0, <2>2, PassBounds
  <2>6. \A c \in 0 .. Clusters(t) - 1 : hist'[x[t]][t][c] = SumOver(Own(t), 0, c + 1)
    BY <1>0, <1>6, <2>4, <2>5, HistogramExact
  <2>7. Own(t)' = Own(t) /\ Clusters(t)' = Clusters(t)
    <3>1. slots' = slots /\ skewtask' = skewtask /\ pass[t] \in {1, 2}
      BY <1>2, <1>3, <1>6, <2>2
    <3>2. tuples'[x[t]][Part(t).side] = tuples[x[t]][Part(t).side]
      BY <2>1
    <3> QED
      BY <1>0, <2>1, <3>1, <3>2, OwnStays
  <2>8. Exactly(t)'
    BY <2>1, <2>6, <2>7 DEF Exactly, SumOver
  <2> QED
    BY <1>6, <2>3, <2>8
<1>7. CASE u = t /\ Copy(t)
  <2>1. CASE x[t] = "R"
    <3>1. /\ pc[t] = "copy" /\ pc'[t] = "hist" /\ x'[t] = "S" /\ pass' = pass
          /\ output'[t]["S"] = output[t]["S"]
      BY <1>0, <1>7, <2>1 DEF ControlOK, Copy, Goto, Shape, Both
    <3>2. ~ Copying(t)' /\ Untouched(t)
      BY <3>1 DEF Copying, To, CopyInv, Ready
    <3>3. output[t]["S"] = Zero(Clusters(t) + 1) /\ Clusters(t)' = Clusters(t)
      BY <2>1, <3>1, <3>2 DEF Untouched, Both, Clusters
    <3>4. Untouched(t)'
      BY <3>1, <3>3 DEF Untouched, Zero
    <3> QED
      BY <1>7, <3>2, <3>4
  <2>2. CASE x[t] # "R"
    <3>1. /\ pc'[t] = "barrier" /\ after'[t] \in {"make", "made", "split", "skew"}
      BY <1>0, <1>7, <2>2 DEF ControlOK, Copy, Arrive
    <3> QED
      BY <1>7, <3>1 DEF Copying, Ready, To
  <2> QED
    BY <2>1, <2>2
<1>8. CASE u = t /\ SkewTask(t)
  <2>1. CASE skewtask = NoSlot
    <3>1. pc'[t] = "move" \/ (pc'[t] = "barrier" /\ after'[t] = "join")
      BY <1>0, <1>8, <2>1 DEF SkewTask, Goto, Arrive, ControlOK
    <3> QED
      BY <1>8, <3>1 DEF Copying, Ready, To
  <2>2. CASE skewtask # NoSlot
    <3>1. /\ pass'[t] = 2 /\ pc'[t] = "barrier" /\ after'[t] = "hist"
          /\ \A y \in Both : output'[t][y] = Zero(FANOUT_PASS2 + 1)
      BY <1>0, <1>8, <2>2 DEF SkewTask, Arrive, ControlOK, Shape, Both
    <3>2. ~ Copying(t)' /\ Clusters(t)' = FANOUT_PASS2
      BY <3>1 DEF Copying, To, Clusters
    <3>3. Untouched(t)'
      BY <3>1, <3>2 DEF Untouched, Zero
    <3> QED
      BY <1>8, <3>2, <3>3
  <2> QED
    BY <2>1, <2>2
<1>9. CASE u = t /\ ~ (Start(t) \/ Histogram(t) \/ Copy(t) \/ SkewTask(t))
  BY <1>1, <1>9, PassSteps
<1> QED
  BY <1>4, <1>5, <1>6, <1>7, <1>8, <1>9

LEMMA CopyNext == TaskInv /\ RangeInv /\ CopyInv /\ [Next]_vars => CopyInv'
<1> SUFFICES ASSUME TaskInv, RangeInv, CopyInv, [Next]_vars PROVE CopyInv'
  OBVIOUS
<1>0. TaskInv' /\ ControlOK
  BY TaskNext DEF TaskInv
<1>1. ASSUME NEW t \in Threads, prj_thread(t) PROVE CopyInv'
  BY <1>0, <1>1, CopyStep
<1>2. ASSUME UNCHANGED <<input, tuples, hist, output, pass, x, slots, skewtask>>,
             \A u \in Threads : (Copying(u)' => Copying(u)) /\ (Ready(u)' => Ready(u))
      PROVE  CopyInv'
  <2> SUFFICES ASSUME NEW u \in Threads
               PROVE  (Copying(u)' => Exactly(u)') /\ (Ready(u)' => Untouched(u)')
    BY DEF CopyInv
  <2>1. pass[u] \in {1, 2}
    BY <1>0 DEF ControlOK
  <2>2. Exactly(u) => Exactly(u)'
    BY <1>2, <2>1, ExactStays
  <2>3. Untouched(u) => Untouched(u)'
    BY <1>2, UntouchedStays
  <2> QED
    BY <1>2, <2>2, <2>3 DEF CopyInv
<1>3. CASE Barrier
  <2>1. UNCHANGED <<input, tuples, hist, output, pass, x, slots, skewtask>>
    BY <1>3 DEF Barrier, partition, queues
  <2>2. \A u \in Threads : pc[u] = "barrier" /\ pc'[u] = after[u] /\ after[u] \notin {"barrier", "start"}
    BY <1>0, <1>3 DEF Barrier, ControlOK
  <2>3. \A u \in Threads : (Copying(u)' => Copying(u)) /\ (Ready(u)' => Ready(u))
    BY <2>2 DEF Copying, Ready, To
  <2> QED
    BY <1>2, <2>1, <2>3
<1>4. CASE UNCHANGED vars
  <2>1. UNCHANGED <<input, tuples, hist, output, pass, x, slots, skewtask, pc, after>>
    BY <1>4 DEF vars, partition, queues
  <2>2. \A u \in Threads : (Copying(u)' => Copying(u)) /\ (Ready(u)' => Ready(u))
    BY <2>1 DEF Copying, Ready, To
  <2> QED
    BY <1>2, <2>1, <2>2
<1> QED
  BY <1>1, <1>3, <1>4 DEF Next, Terminated

(* In every run a thread that is about to put the tuples of its share in   *)
(* their clusters has counted exactly those, as the array is by then, and  *)
(* finds its output as it was allocated.                                   *)
THEOREM CopiesCounted == Spec => []CopyInv
<1>1. Init => TaskInv /\ RangeInv /\ CopyInv
  BY TaskInit, RangeInit, CopyInit
<1>2. (TaskInv /\ RangeInv /\ CopyInv) /\ [Next]_vars => (TaskInv /\ RangeInv /\ CopyInv)'
  BY TaskNext, RangeNext, CopyNext
<1> QED
  BY <1>1, <1>2, PTL DEF Spec

(* In every run tasks that are alive at once, and threads that divide a    *)
(* range together, do not write to the same places, the gaps fit into what *)
(* is allocated, and no task writes where another is still to be read.     *)
THEOREM RangesDisjointHolds == Spec => []RangesDisjoint
<1>1. TaskInv /\ RangeInv /\ CopyInv => RangesDisjoint
  BY TasksAreApart, CopiesAreApart DEF RangesDisjoint
<1> QED
  BY <1>1, RangesLaidOut, CopiesCounted, PTL

===============================================================================
