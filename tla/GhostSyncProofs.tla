---------------------------- MODULE GhostSyncProofs ----------------------------
(***************************************************************************)
(* Proofs about GhostSync: what the ghost may skip and when it may hold    *)
(* back, for loops of any length, any number of passes, any parameters and *)
(* any relaxed reads.                                                      *)
(***************************************************************************)
EXTENDS GhostSync, TLAPS

USE DEF mainVars, ghostVars

TypedGhost == TypeOK /\ PassOpen

LEMMA LatestTyped == TypeOK => Latest \in Nat /\ <<Latest>> \in Seq(Nat) /\ <<Latest>> # <<>>
BY DEF TypeOK, Latest

(* One iteration of the ghost in which it does not look at the counter.    *)
LEMMA PlainIter ==
    ASSUME TypeOK, GhostIter, ~Due
    PROVE  /\ ghost = "run" /\ ghost' = ghost /\ UNCHANGED mainVars
           /\ i < NumIters /\ i \in Nat /\ i' = i + 1
           /\ prefetched' = prefetched \cup {i}
           /\ UNCHANGED <<counter, serialize_flag, seen>>
BY DEF GhostIter, TypeOK

(* One in which it reads c, the k-th of the stores in its sight.           *)
Reads(k, c) ==
    /\ c = counter[k] /\ c \in Nat
    /\ seen' = c
    /\ \/ c >= i /\ i' = c + skip_offset + 1 /\ serialize_flag' = FALSE
       \/ c < i /\ Pace(i - c)
    /\ counter' \in Seq(Nat) /\ counter' # <<>>
    /\ Len(counter') = Len(counter) - k + 1
    /\ \A m \in 1 .. Len(counter') : counter'[m] = counter[m + k - 1]

LEMMA ReadIter ==
    ASSUME TypeOK, GhostIter, Due
    PROVE  /\ ghost = "run" /\ ghost' = ghost /\ UNCHANGED mainVars
           /\ i < NumIters /\ i \in Nat
           /\ prefetched' = prefetched \cup {i}
           /\ \E k \in 1 .. Len(counter) : \E c \in Nat : Reads(k, c)
<1>1. PICK k \in DOMAIN counter :
          /\ Sync(counter[k])
          /\ seen' = counter[k]
          /\ counter' = SubSeq(counter, k, Len(counter))
  BY DEF GhostIter
<1>2. k \in 1 .. Len(counter) /\ counter[k] \in Nat /\ i \in Nat
  BY DEF TypeOK
<1>3. \/ counter[k] >= i /\ Skip(counter[k])
      \/ counter[k] < i /\ Pace(i - counter[k])
  BY <1>1, <1>2 DEF Sync
<1>4. /\ counter' \in Seq(Nat) /\ Len(counter') = Len(counter) - k + 1
      /\ \A m \in 1 .. Len(counter') : counter'[m] = counter[m + k - 1]
  BY <1>1, <1>2 DEF TypeOK
<1>5. counter' # <<>>
  BY <1>2, <1>4 DEF TypeOK
<1>6. Reads(k, counter[k])
  BY <1>1, <1>2, <1>3, <1>4, <1>5 DEF Reads, Skip
<1> QED
  BY <1>2, <1>6 DEF GhostIter

(* What reading c does to the ghost: it ends up past c, and the flag is up *)
(* only if it leads c by enough.                                           *)
LEMMA ReadEffect ==
    ASSUME TypeOK, NEW k \in 1 .. Len(counter), NEW c \in Nat, Reads(k, c)
    PROVE  /\ i' \in Nat /\ i' > c
           /\ i' = i + 1 \/ i' = c + skip_offset + 1
           /\ serialize_flag' \in BOOLEAN
           /\ serialize_flag' => i' - c > unserialize_threshold
<1> USE ParamsAssumption
<1>0. i \in Nat
  BY DEF TypeOK
<1>1. CASE c >= i
  <2>1. i' = c + skip_offset + 1 /\ serialize_flag' = FALSE
    BY <1>0, <1>1 DEF Reads
  <2>2. i' \in Nat /\ i' > c
    BY <2>1
  <2>3. serialize_flag' \in BOOLEAN /\ ~ serialize_flag'
    BY <2>1, Zenon
  <2> QED
    BY <2>1, <2>2, <2>3, Zenon
<1>2. CASE c < i
  <2>1. Pace(i - c)
    BY <1>0, <1>2 DEF Reads
  <2>2. i' = i + 1
    BY <2>1 DEF Pace
  <2>3. serialize_flag' \in BOOLEAN
    BY <2>1, Zenon DEF Pace
  <2>4. serialize_flag' => \/ i - c > serialize_threshold
                           \/ i - c >= unserialize_threshold
    BY <2>1, Zenon DEF Pace
  <2>5. serialize_flag' => i' - c > unserialize_threshold
    <3>1. CASE ~ serialize_flag'
      BY <3>1
    <3>2. CASE i - c > serialize_threshold \/ i - c >= unserialize_threshold
      <4>1. i' - c > unserialize_threshold
        BY <1>0, <2>2, <3>2
      <4> QED
        BY <4>1
    <3> QED
      BY <2>4, <3>1, <3>2, Zenon
  <2> QED
    BY <1>0, <1>2, <2>2, <2>3, <2>5
<1> QED
  BY <1>0, <1>1, <1>2

(* The variables keep their types.                                         *)
THEOREM TypeCorrect == Spec => []TypedGhost
<1>1. Init => TypedGhost
  <2> SUFFICES ASSUME Init PROVE TypedGhost
    OBVIOUS
  <2>1. counter \in Seq(Nat) /\ counter # <<>>
    <3>1. PICK v \in FirstValues : counter = <<v>>
      BY DEF Init
    <3>2. v \in Nat
      BY LoopAssumption
    <3> QED
      BY <3>1, <3>2
  <2> QED
    <3>1. pass <= Passes
      BY LoopAssumption DEF Init
    <3>2. u <= NumIters
      BY LoopAssumption DEF Init
    <3>3. seen \in Nat \cup {-1}
      BY DEF Init
    <3>4. serialize_flag \in BOOLEAN /\ prefetched \subseteq Nat
      BY DEF Init
    <3> QED
      BY <2>1, <3>1, <3>2, <3>3, <3>4 DEF Init, TypedGhost, TypeOK, PassOpen
<1>2. ASSUME TypedGhost, [Next]_gvars PROVE TypedGhost'
  <2> USE LoopAssumption, ParamsAssumption DEF TypedGhost, PassOpen
  <2>1. CASE CreateGhost
    <3>1. counter' \in Seq(Nat) /\ counter' # <<>>
      <4>1. counter' = <<0>> \/ counter' = <<Latest>>
        BY <2>1 DEF CreateGhost
      <4> QED
        BY <1>2, <4>1, LatestTyped
    <3>2. serialize_flag' \in BOOLEAN /\ prefetched' \subseteq Nat
      BY <2>1 DEF CreateGhost
    <3> QED
      BY <1>2, <2>1, <3>1, <3>2 DEF CreateGhost, TypeOK
  <2>2. CASE LateReset
    BY <1>2, <2>2 DEF LateReset, TypeOK
  <2>3. CASE MainIter
    <3>1. counter' \in Seq(Nat) /\ counter' # <<>>
      BY <1>2, <2>3 DEF MainIter, TypeOK
    <3> QED
      BY <1>2, <2>3, <3>1 DEF MainIter, TypeOK
  <2>4. CASE Join
    <3>1. counter' \in Seq(Nat) /\ counter' # <<>>
      BY <1>2, <2>4, LatestTyped DEF Join
    <3>2. pass' \in Nat /\ pass' <= Passes
      BY <1>2, <2>4 DEF Join, TypeOK
    <3> QED
      BY <1>2, <2>4, <3>1, <3>2 DEF Join, TypeOK
  <2>5. CASE GhostIter
    <3>1. CASE ~Due
      <4>1. serialize_flag' \in BOOLEAN /\ counter' \in Seq(Nat) /\ counter' # <<>>
        BY <1>2, <2>5, <3>1, PlainIter DEF TypeOK
      <4>2. /\ ghost' = ghost /\ UNCHANGED mainVars /\ seen' = seen
            /\ prefetched' = prefetched \cup {i} /\ i \in Nat /\ i' \in Nat
        BY <1>2, <2>5, <3>1, PlainIter
      <4> QED
        BY <1>2, <4>1, <4>2 DEF TypeOK
    <3>2. CASE Due
      <4>1. PICK k \in 1 .. Len(counter), c \in Nat : Reads(k, c)
        BY <1>2, <2>5, <3>2, ReadIter
      <4>2. i' \in Nat /\ serialize_flag' \in BOOLEAN
        BY <1>2, <4>1, ReadEffect
      <4>3. counter' \in Seq(Nat) /\ counter' # <<>> /\ seen' \in Nat
        BY <4>1 DEF Reads
      <4>4. /\ ghost' = ghost /\ UNCHANGED mainVars
            /\ prefetched' = prefetched \cup {i} /\ i \in Nat
        BY <1>2, <2>5, <3>2, ReadIter
      <4> QED
        BY <1>2, <4>2, <4>3, <4>4 DEF TypeOK
    <3> QED
      BY <3>1, <3>2
  <2>6. CASE GhostEnd
    BY <1>2, <2>6 DEF GhostEnd, TypeOK
  <2>7. CASE UNCHANGED gvars
    BY <1>2, <2>7 DEF gvars, TypeOK
  <2> QED
    BY <1>2, <2>1, <2>2, <2>3, <2>4, <2>5, <2>6, <2>7
    DEF Next, MainStep, GhostStep, Over
<1> QED
  BY <1>1, <1>2, PTL DEF Spec, TypedGhost

(* Whenever the ghost has read the counter it is past what it read: no     *)
(* interleaving leaves it working on iterations it knows main has done.    *)
THEOREM GhostStaysAhead == Spec => []GhostAhead
<1>1. Init => GhostAhead
  BY DEF Init, GhostAhead
<1>2. ASSUME TypedGhost, GhostAhead, [Next]_gvars PROVE GhostAhead'
  <2> USE ParamsAssumption DEF GhostAhead
  <2>1. CASE CreateGhost
    BY <2>1 DEF CreateGhost
  <2>2. CASE LateReset \/ MainIter \/ GhostEnd \/ UNCHANGED gvars
    BY <1>2, <2>2 DEF LateReset, MainIter, GhostEnd, gvars
  <2>3. CASE Join
    BY <2>3 DEF Join
  <2>4. CASE GhostIter
    <3>1. CASE ~Due
      BY <1>2, <2>4, <3>1, PlainIter DEF TypedGhost, TypeOK, Due
    <3>2. CASE Due
      <4>1. PICK k \in 1 .. Len(counter), c \in Nat : Reads(k, c)
        BY <1>2, <2>4, <3>2, ReadIter DEF TypedGhost
      <4> QED
        BY <1>2, <4>1, ReadEffect DEF TypedGhost, Reads
    <3> QED
      BY <3>1, <3>2
  <2> QED
    BY <1>2, <2>1, <2>2, <2>3, <2>4 DEF Next, MainStep, GhostStep, Over
<1> QED
  BY <1>1, <1>2, TypeCorrect, PTL DEF Spec

(* A ghost that serializes knows that it is ahead by the lower threshold:  *)
(* while the flag is up every iteration reads the counter, and the first   *)
(* small lead, or a skip, takes it down.                                   *)
THEOREM DelayIsJustified == Spec => []DelayJustified
<1>1. Init => DelayJustified
  BY DEF Init, DelayJustified
<1>2. ASSUME TypedGhost, DelayJustified, [Next]_gvars PROVE DelayJustified'
  <2> USE ParamsAssumption DEF DelayJustified
  <2>1. CASE CreateGhost
    BY <2>1 DEF CreateGhost
  <2>2. CASE LateReset \/ MainIter \/ GhostEnd \/ UNCHANGED gvars
    BY <1>2, <2>2 DEF LateReset, MainIter, GhostEnd, gvars
  <2>3. CASE Join
    BY <2>3 DEF Join
  <2>4. CASE GhostIter
    <3>1. CASE ~Due
      BY <1>2, <2>4, <3>1, PlainIter DEF TypedGhost, TypeOK, Due
    <3>2. CASE Due
      <4>1. PICK k \in 1 .. Len(counter), c \in Nat : Reads(k, c)
        BY <1>2, <2>4, <3>2, ReadIter DEF TypedGhost
      <4> QED
        BY <1>2, <4>1, ReadEffect DEF TypedGhost, Reads
    <3> QED
      BY <3>1, <3>2
  <2> QED
    BY <1>2, <2>1, <2>2, <2>3, <2>4 DEF Next, MainStep, GhostStep, Over
<1> QED
  BY <1>1, <1>2, TypeCorrect, PTL DEF Spec

(* sync keeps the ghost ahead of what it has seen, and delays it only when *)
(* it is too far ahead, whatever the counter held at first.                *)
THEOREM GhostKeepsDistance == Spec => []KeepsDistance
<1>1. KeepsDistance <=> GhostAhead /\ DelayJustified
  BY DEF KeepsDistance
<1> QED
  BY <1>1, GhostStaysAhead, DelayIsJustified, PTL

(* If main clears the counter before it creates the ghost, nothing the     *)
(* ghost can read, however stale, is beyond main's progress in this pass.  *)
THEOREM CounterIsGrounded == Spec => []CounterGrounded
<1>1. Init => CounterGrounded
  BY DEF Init, CounterGrounded
<1>2. ASSUME TypedGhost, CounterGrounded, [Next]_gvars PROVE CounterGrounded'
  <2> USE DEF CounterGrounded
  <2>1. CASE CreateGhost
    BY <2>1 DEF CreateGhost
  <2>2. CASE LateReset
    BY <1>2, <2>2 DEF LateReset
  <2>3. CASE MainIter
    <3> SUFFICES ASSUME NEW k \in DOMAIN counter', ghost # "none", reset = "before"
                 PROVE  counter'[k] <= u'
      BY <1>2, <2>3 DEF MainIter
    <3>1. /\ \A m \in 1 .. Len(counter) : counter[m] <= u
          /\ counter' = Append(counter, u) /\ u' = u + 1 /\ u \in Nat
          /\ counter \in Seq(Nat)
      BY <1>2, <2>3 DEF MainIter, TypedGhost, TypeOK
    <3>2. k \in 1 .. Len(counter) + 1
      BY <3>1
    <3>3. CASE k = Len(counter) + 1
      BY <3>1, <3>3
    <3>4. CASE k \in 1 .. Len(counter)
      BY <3>1, <3>4
    <3> QED
      BY <3>2, <3>3, <3>4, <3>1
  <2>4. CASE Join
    BY <2>4 DEF Join
  <2>5. CASE GhostIter
    <3>1. CASE ~Due
      BY <1>2, <2>5, <3>1, PlainIter DEF TypedGhost
    <3>2. CASE Due
      <4>1. PICK k \in 1 .. Len(counter), c \in Nat : Reads(k, c)
        BY <1>2, <2>5, <3>2, ReadIter DEF TypedGhost
      <4>2. /\ ghost = "run" /\ ghost' = ghost /\ UNCHANGED mainVars
            /\ counter \in Seq(Nat)
        BY <1>2, <2>5, <3>2, ReadIter DEF TypedGhost, TypeOK
      <4>3. reset = "before" => \A m \in 1 .. Len(counter') : counter'[m] <= u
        <5> SUFFICES ASSUME reset = "before", NEW m \in 1 .. Len(counter') PROVE counter'[m] <= u
          OBVIOUS
        <5>0. \A l \in 1 .. Len(counter) : counter[l] <= u
          BY <1>2, <4>2
        <5>1. /\ Len(counter') = Len(counter) - k + 1 /\ Len(counter) \in Nat
              /\ counter'[m] = counter[m + k - 1]
          BY <1>2, <4>1 DEF Reads, TypedGhost, TypeOK
        <5>2. m + k - 1 \in 1 .. Len(counter)
          BY <5>1
        <5> QED
          BY <5>0, <5>1, <5>2
      <4> QED
        BY <1>2, <4>1, <4>2, <4>3 DEF Reads
    <3> QED
      BY <3>1, <3>2
  <2>6. CASE GhostEnd \/ UNCHANGED gvars
    BY <1>2, <2>6 DEF GhostEnd, gvars
  <2> QED
    BY <1>2, <2>1, <2>2, <2>3, <2>4, <2>5, <2>6 DEF Next, MainStep, GhostStep, Over
<1> QED
  BY <1>1, <1>2, TypeCorrect, PTL DEF Spec

(* Then the ghost leaves out only iterations that main has reached, or     *)
(* that lie at most skip_offset past it.                                   *)
THEOREM SkipsAreGrounded == Spec => []SkipsGrounded
<1>1. Init => SkipsGrounded
  BY DEF Init, SkipsGrounded
<1>2. ASSUME TypedGhost, CounterGrounded, SkipsGrounded, [Next]_gvars
      PROVE  SkipsGrounded'
  <2> USE ParamsAssumption DEF SkipsGrounded
  <2>1. CASE CreateGhost
    BY <2>1 DEF CreateGhost
  <2>2. CASE MainIter
    BY <1>2, <2>2 DEF MainIter, TypedGhost, TypeOK
  <2>3. CASE Join
    BY <2>3 DEF Join
  <2>4. CASE GhostIter
    <3> SUFFICES ASSUME reset' = "before",
                        NEW x \in 0 .. i' - 1, x \notin prefetched'
                 PROVE  x <= u' + skip_offset
      OBVIOUS
    <3>1. /\ i \in Nat /\ u \in Nat /\ ghost = "run" /\ u' = u
          /\ prefetched' = prefetched \cup {i} /\ reset = "before"
      BY <1>2, <2>4, PlainIter, ReadIter DEF TypedGhost, TypeOK
    <3>2. CASE x < i
      BY <1>2, <3>1, <3>2
    <3>3. CASE x > i
      <4>1. Due
        BY <1>2, <2>4, <3>1, <3>3, PlainIter DEF TypedGhost
      <4>2. PICK k \in 1 .. Len(counter), c \in Nat : Reads(k, c)
        BY <1>2, <2>4, <4>1, ReadIter DEF TypedGhost
      <4>3. c <= u
        BY <1>2, <3>1, <4>2 DEF CounterGrounded, Reads, TypedGhost, TypeOK
      <4>4. i' = c + skip_offset + 1
        BY <1>2, <3>1, <3>3, <4>2, ReadEffect DEF TypedGhost
      <4> QED
        BY <3>1, <4>3, <4>4
    <3>4. x # i
      BY <3>1
    <3> QED
      BY <3>1, <3>2, <3>3, <3>4
  <2>5. CASE LateReset \/ GhostEnd \/ UNCHANGED gvars
    BY <1>2, <2>5 DEF LateReset, GhostEnd, gvars
  <2> QED
    BY <1>2, <2>1, <2>2, <2>3, <2>4, <2>5 DEF Next, MainStep, GhostStep, Over
<1> QED
  BY <1>1, <1>2, TypeCorrect, CounterIsGrounded, PTL DEF Spec
=============================================================================
