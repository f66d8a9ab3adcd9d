--------------------------- MODULE ThreadPoolProofs ---------------------------
(***************************************************************************)
(* Theorems about the thread pool, for any finite set of workers and any   *)
(* clients and jobs. PoolInv is proved part by part: types, the life of    *)
(* the pool, who holds thcount_lock, the counts, where the jobs are, and   *)
(* from these that thpool_wait is sound and that no job is stranded. Then  *)
(* that the pool implements JobPool.                                       *)
(***************************************************************************)
EXTENDS ThreadPool, FiniteSetTheorems, FunctionTheorems, SequenceTheorems, TLAPS

(* bsem_post as the proofs use it: the semaphore is up, at most one sleeper *)
(* is woken, and somebody is awake to see it.                              *)
LEMMA PostEffect ==
    ASSUME NEW pcs \in [Workers -> WorkerPC], BsemPost(pcs)
    PROVE  /\ has_jobs' = 1
           /\ pc' \in [Workers -> WorkerPC]
           /\ \A w \in Workers : \/ pc'[w] = pcs[w]
                                 \/ pcs[w] = "asleep" /\ pc'[w] = "bsem_wait"
           /\ \E w \in Workers : pc'[w] # "asleep"
<1>1. "bsem_wait" \in WorkerPC /\ Workers # {} /\ DOMAIN pcs = Workers
  BY ThreadsAssumption DEF WorkerPC, Counted
<1>2. CASE \E t \in Workers : pcs[t] = "asleep"
  <2>1. PICK u \in Workers : pcs[u] = "asleep" /\ pc' = [pcs EXCEPT ![u] = "bsem_wait"]
    BY <1>1, <1>2 DEF BsemPost, Signal
  <2> QED
    BY <1>1, <2>1 DEF BsemPost
<1>3. CASE \A t \in Workers : pcs[t] # "asleep"
  BY <1>1, <1>3 DEF BsemPost, Signal
<1> QED
  BY <1>2, <1>3

(* The signal of threads_all_idle wakes at most one client, a waiting one. *)
LEMMA IdleSignalEffect ==
    ASSUME cpc \in [Clients -> ClientPC], cpc' \in Signal(cpc, "waiting", "lock")
    PROVE  /\ cpc' \in [Clients -> ClientPC]
           /\ \A c \in Clients : \/ cpc'[c] = cpc[c]
                                 \/ cpc[c] = "waiting" /\ cpc'[c] = "lock"
<1>1. "lock" \in ClientPC /\ DOMAIN cpc = Clients
  BY DEF ClientPC, InWait
<1>2. CASE \E c \in Clients : cpc[c] = "waiting"
  <2>1. PICK d \in Clients : cpc[d] = "waiting" /\ cpc' = [cpc EXCEPT ![d] = "lock"]
    BY <1>1, <1>2 DEF Signal
  <2> QED
    BY <1>1, <2>1
<1>3. CASE \A c \in Clients : cpc[c] # "waiting"
  BY <1>1, <1>3 DEF Signal
<1> QED
  BY <1>2, <1>3

(* Repost moves its worker on and, perhaps, one sleeper.                   *)
LEMMA RepostEffect ==
    ASSUME TypeOK, NEW w \in Workers, Repost(w)
    PROVE  /\ has_jobs' = 1 /\ pc[w] = "repost" /\ pc'[w] = "reposted"
           /\ pc' \in [Workers -> WorkerPC]
           /\ \A u \in Workers \ {w} : \/ pc'[u] = pc[u]
                                       \/ pc[u] = "asleep" /\ pc'[u] = "bsem_wait"
           /\ \E u \in Workers : pc'[u] # "asleep"
<1> DEFINE pcs == [pc EXCEPT ![w] = "reposted"]
<1>1. pcs \in [Workers -> WorkerPC] /\ pc \in [Workers -> WorkerPC]
  BY DEF TypeOK, WorkerPC, Counted, Serving, HasJob
<1>2. BsemPost(pcs) /\ pc[w] = "repost"
  BY DEF Repost
<1>3. /\ has_jobs' = 1 /\ pc' \in [Workers -> WorkerPC]
      /\ \A u \in Workers : \/ pc'[u] = pcs[u]
                            \/ pcs[u] = "asleep" /\ pc'[u] = "bsem_wait"
      /\ \E u \in Workers : pc'[u] # "asleep"
  BY <1>1, <1>2, PostEffect
<1> QED
  BY <1>1, <1>2, <1>3

(* The ends of the workers' critical sections: the place a worker comes to *)
(* from each, and all the others stay.                                     *)
Unlock(w) == BsemUnlock(w) \/ PullUnlock(w) \/ CountUnlock(w)

After(here, there) ==
    \/ here = "taken" /\ there = "check"
    \/ here = "reposted" /\ there = "release"
    \/ here = "empty" /\ there = "uncount"
    \/ here = "release" /\ there = "run"
    \/ here = "counted" /\ there = "pull"
    \/ here = "unlock" /\ there = "done"
    \/ here \in {"alive", "uncounted"} /\ there = "loop"

LEMMA UnlockEffect ==
    ASSUME TypeOK, NEW w \in Workers, Unlock(w)
    PROVE  /\ UNCHANGED <<num_threads_alive, num_threads_working, jobqueue, has_jobs,
                           workerVars, clientVars, lifeVars>>
           /\ After(pc[w], pc'[w]) /\ pc' \in [Workers -> WorkerPC]
           /\ \A u \in Workers \ {w} : pc'[u] = pc[u]
           /\ pc[w] \in InBsem => mutex' = NoThread /\ UNCHANGED <<rwmutex, thcount_lock>>
           /\ pc[w] \in InCount => thcount_lock' = NoThread /\ UNCHANGED <<rwmutex, mutex>>
           /\ pc[w] \in {"empty", "release"} =>
                rwmutex' = NoThread /\ UNCHANGED <<thcount_lock, mutex>>
<1> USE DEF After, Goto, poolVars, queueVars, InBsem, InCount
<1>1. pc \in [Workers -> WorkerPC]
  BY DEF TypeOK
<1>2. \A here, there : After(here, there) => there \in WorkerPC
  BY DEF WorkerPC, Counted, Serving, HasJob
<1>3. CASE BsemUnlock(w)
  <2>1. After(pc[w], pc'[w])
    BY <1>1, <1>3 DEF BsemUnlock
  <2> QED
    BY <1>1, <1>2, <1>3, <2>1 DEF BsemUnlock
<1>4. CASE PullUnlock(w)
  <2>1. After(pc[w], pc'[w])
    BY <1>1, <1>4 DEF PullUnlock
  <2> QED
    BY <1>1, <1>2, <1>4, <2>1 DEF PullUnlock
<1>5. CASE CountUnlock(w)
  <2>1. /\ AfterUnlock("counted") = "pull" /\ AfterUnlock("unlock") = "done"
        /\ AfterUnlock("alive") = "loop" /\ AfterUnlock("uncounted") = "loop"
    BY DEF AfterUnlock
  <2>2. After(pc[w], pc'[w])
    BY <1>1, <1>5, <2>1 DEF CountUnlock
  <2> QED
    BY <1>1, <1>2, <1>5, <2>2 DEF CountUnlock
<1> QED
  BY <1>3, <1>4, <1>5 DEF Unlock

(* jobqueue_push adds one job to those queued.                             *)
LEMMA AppendIn ==
    ASSUME NEW q \in Seq(Jobs), NEW j \in Jobs
    PROVE  In(Append(q, j)) = In(q) \cup {j}
<1>1. DOMAIN Append(q, j) = 1..(Len(q) + 1) /\ DOMAIN q = 1..Len(q) /\ Len(q) \in Nat
  OBVIOUS
<1>2. \A i \in 1..(Len(q) + 1) : Append(q, j)[i] = IF i = Len(q) + 1 THEN j ELSE q[i]
  OBVIOUS
<1>3. \A x : x \in In(Append(q, j)) => x \in In(q) \cup {j}
  BY <1>1, <1>2 DEF In
<1>4. \A x \in In(q) : x \in In(Append(q, j))
  BY <1>1, <1>2 DEF In
<1>5. j \in In(Append(q, j))
  BY <1>1, <1>2 DEF In
<1> QED
  BY <1>3, <1>4, <1>5

(* What jobqueue_pull leaves behind, and what it returns.                  *)
LEMMA TailIn ==
    ASSUME NEW q \in Seq(Jobs), q # <<>>
    PROVE  /\ In(q) = In(Tail(q)) \cup {Head(q)}
           /\ Head(q) \in Jobs /\ Tail(q) \in Seq(Jobs)
<1>1. Len(q) \in Nat \ {0} /\ DOMAIN q = 1..Len(q) /\ DOMAIN Tail(q) = 1..(Len(q) - 1)
  OBVIOUS
<1>2. \A i \in 1..(Len(q) - 1) : Tail(q)[i] = q[i + 1]
  OBVIOUS
<1>3. Head(q) = q[1] /\ Head(q) \in Jobs /\ Tail(q) \in Seq(Jobs)
  OBVIOUS
<1>4. \A x \in In(Tail(q)) : x \in In(q)
  BY <1>1, <1>2 DEF In
<1>5. \A x \in In(q) : x \in In(Tail(q)) \cup {Head(q)}
  <2>1. SUFFICES ASSUME NEW i \in 1..Len(q) PROVE q[i] \in In(Tail(q)) \cup {Head(q)}
    BY <1>1 DEF In
  <2>2. CASE i = 1
    BY <2>2, <1>3
  <2>3. CASE i # 1
    <3>1. i - 1 \in 1..(Len(q) - 1) /\ Tail(q)[i - 1] = q[i]
      BY <2>3, <1>1, <1>2
    <3> QED
      BY <3>1, <1>1 DEF In
  <2> QED
    BY <2>2, <2>3
<1>6. Head(q) \in In(q)
  BY <1>1, <1>3 DEF In
<1> QED
  BY <1>3, <1>4, <1>5, <1>6

(* The pull of the only job leaves an empty queue.                         *)
LEMMA TailEmpty ==
    ASSUME NEW q \in Seq(Jobs), Len(q) = 1
    PROVE  Tail(q) = <<>>
<1>1. Tail(q) \in Seq(Jobs) /\ Len(Tail(q)) = 0
  OBVIOUS
<1> QED
  BY <1>1, EmptySeq

LEMMA LengthCases ==
    ASSUME NEW q \in Seq(Jobs)
    PROVE  q = <<>> \/ Len(q) = 1 \/ Len(q) > 1
<1> DEFINE n == Len(q)
<1>1. n \in Nat /\ (n = 0 => q = <<>>)
  OBVIOUS
<1> HIDE DEF n
<1>2. n = 0 \/ n = 1 \/ n > 1
  BY <1>1
<1> QED
  BY <1>1, <1>2, Zenon DEF n

(* The sizes of two sets that do not meet add up.                          *)
LEMMA DisjointSize ==
    ASSUME NEW A, NEW B, IsFiniteSet(A), IsFiniteSet(B), A \cap B = {}
    PROVE  /\ IsFiniteSet(A \cup B) /\ Cardinality(A) \in Nat /\ Cardinality(B) \in Nat
           /\ Cardinality(A \cup B) = Cardinality(A) + Cardinality(B)
<1>1. Cardinality({}) = 0 /\ Cardinality(A) \in Nat /\ Cardinality(B) \in Nat
  BY FS_EmptySet, FS_CardinalityType
<1>2. /\ IsFiniteSet(A \cup B)
      /\ Cardinality(A \cup B) = Cardinality(A) + Cardinality(B) - Cardinality({})
  BY FS_Union
<1>3. \A a, b, c, e \in Int : e = 0 /\ c = a + b - e => c = a + b
  OBVIOUS
<1>4. Cardinality(A \cup B) \in Nat
  BY <1>2, FS_CardinalityType
<1> QED
  BY <1>1, <1>2, <1>3, <1>4

TypedPool == TypeOK /\ JobHeld

(* Every variable keeps to its type, and a worker that is about to run a   *)
(* job, or to post on the way to it, has pulled one: func_buff is never    *)
(* read from NULL, whatever stale posts send a worker to an empty queue.   *)
THEOREM TypeCorrect == Spec => []TypedPool
<1>1. Init => TypedPool
  BY ThreadsAssumption, JobsAssumption
  DEF Init, TypedPool, TypeOK, JobHeld, WorkerPC, Counted, Serving, HasJob,
     ClientPC, InWait, WaitLocked
<1>2. TypedPool /\ [Next]_vars => TypedPool'
  <2> SUFFICES ASSUME TypedPool, [Next]_vars
      PROVE  TypedPool'
    OBVIOUS
  <2> USE ThreadsAssumption DEF TypedPool, TypeOK, JobHeld, WorkerPC,
        Counted, Serving, HasJob, ClientPC, InWait, WaitLocked, Goto,
        CGoto, poolVars, queueVars, workerVars, clientVars, lifeVars,
        vars
  <2>1. CASE ThpoolInit
    BY <2>1 DEF ThpoolInit
  <2>2. CASE ThpoolDestroy
    BY <2>2 DEF ThpoolDestroy
  <2>3. CASE ThpoolInitReturn
    BY <2>3 DEF ThpoolInitReturn
  <2>4. CASE DestroyPoll
    BY <2>4 DEF DestroyPoll, BsemPostAll
  <2>5. CASE DestroyClear
    <3>1. CASE jobqueue # <<>>
      <4>1. /\ has_jobs' \in {0, 1} /\ pc' \in [Workers -> WorkerPC]
            /\ \A u \in Workers : pc'[u] = pc[u] \/ pc'[u] = "bsem_wait"
        BY <2>5, <3>1, PostEffect DEF DestroyClear
      <4>2. jobqueue' \in Seq(Jobs) /\ dropped' \subseteq Jobs
        <5>1. Tail(jobqueue) \in Seq(Jobs) /\ Head(jobqueue) \in Jobs
          BY <3>1, TailIn
        <5> QED
          BY <2>5, <3>1, <5>1 DEF DestroyClear
      <4> QED
        BY <2>5, <3>1, <4>1, <4>2 DEF DestroyClear
    <3>2. CASE jobqueue = <<>>
      BY <2>5, <3>2 DEF DestroyClear
    <3> QED
      BY <3>1, <3>2
  <2>6. ASSUME NEW w \in Workers,
                ThreadInit(w)
      PROVE  TypedPool'
    BY <2>6 DEF ThreadInit
  <2>7. CASE SpuriousWakeup
    BY <2>7 DEF SpuriousWakeup
  <2>8. ASSUME NEW w \in Workers,
                Alive(w) \/ LoopTest(w) \/ BsemWait(w) \/ Check(w) \/ Count(w)
                  \/ Exit(w)
      PROVE  TypedPool'
    BY <2>8 DEF Alive, LoopTest, BsemWait, Check, Count, Exit
  <2>9. ASSUME NEW w \in Workers,
                Pull(w)
      PROVE  TypedPool'
    <3>1. CASE jobqueue = <<>>
      BY <2>9, <3>1 DEF Pull
    <3>2. CASE jobqueue # <<>>
      <4>1. Head(jobqueue) \in Jobs /\ Tail(jobqueue) \in Seq(Jobs)
        BY <3>2, TailIn
      <4>2. /\ job' = [job EXCEPT ![w] = Head(jobqueue)] /\ jobqueue' = Tail(jobqueue)
            /\ \E there \in HasJob : pc' = [pc EXCEPT ![w] = there]
            /\ rwmutex' \in {w, rwmutex}
            /\ UNCHANGED <<poolVars, mutex, has_jobs, finished, clientVars, lifeVars>>
        BY <2>9, <3>2 DEF Pull
      <4>3. job' \in [Workers -> Jobs \cup {NoJob}] /\ pc' \in [Workers -> WorkerPC] /\ JobHeld'
        BY <4>1, <4>2
      <4> QED
        BY <4>1, <4>2, <4>3
    <3> QED
      BY <3>1, <3>2
  <2>10. ASSUME NEW w \in Workers,
                Repost(w)
      PROVE  TypedPool'
    <3>1. has_jobs' = 1 /\ pc' \in [Workers -> WorkerPC] /\ pc[w] = "repost"
          /\ \A u \in Workers : pc'[u] = pc[u] \/ u = w \/ pc'[u] = "bsem_wait"
      BY <2>10, RepostEffect
    <3> QED
      BY <2>10, <3>1 DEF Repost
  <2>11. ASSUME NEW w \in Workers,
                Run(w)
      PROVE  TypedPool'
    BY <2>11 DEF Run
  <2>12. ASSUME NEW w \in Workers,
                Uncount(w)
      PROVE  TypedPool'
    <3>1. cpc' \in [Clients -> ClientPC]
      BY <2>12, IdleSignalEffect DEF Uncount
    <3> QED
      BY <2>12, <3>1 DEF Uncount
  <2>13. ASSUME NEW c \in Clients, NEW j \in Jobs,
                AddWork(c, j)
      PROVE  TypedPool'
    BY <2>13 DEF AddWork
  <2>14. ASSUME NEW c \in Clients,
                PushPost(c)
      PROVE  TypedPool'
    <3>1. /\ has_jobs' = 1 /\ pc' \in [Workers -> WorkerPC]
          /\ \A u \in Workers : pc'[u] = pc[u] \/ pc'[u] = "bsem_wait"
      BY <2>14, PostEffect DEF PushPost
    <3> QED
      BY <2>14, <3>1 DEF PushPost
  <2>15. ASSUME NEW c \in Clients,
                WaitCall(c) \/ WaitLock(c) \/ WaitReadLen(c) \/ WaitReadWorking(c)
                  \/ WaitReturn(c)
      PROVE  TypedPool'
    BY <2>15 DEF WaitCall, WaitLock, WaitReadLen, WaitReadWorking, WaitReturn, CondWait
  <2>16. CASE UNCHANGED vars
    BY <2>16
  <2>17. ASSUME NEW w \in Workers,
                Unlock(w)
      PROVE  TypedPool'
    <3>1. pc' \in [Workers -> WorkerPC] /\ (\A u \in Workers \ {w} : pc'[u] = pc[u])
          /\ (pc'[w] \in HasJob => pc[w] \in HasJob)
      BY <2>17, UnlockEffect DEF After
    <3>2. /\ thcount_lock' \in {thcount_lock, NoThread} /\ rwmutex' \in {rwmutex, NoThread}
          /\ mutex' \in {mutex, NoThread}
      BY <2>17 DEF Unlock, BsemUnlock, PullUnlock, CountUnlock
    <3>3. UNCHANGED <<num_threads_alive, num_threads_working, jobqueue, has_jobs,
                      workerVars, clientVars, lifeVars>>
      BY <2>17, UnlockEffect
    <3> QED
      BY <3>1, <3>2, <3>3
  <2> QED
    BY <2>1, <2>2, <2>3, <2>4, <2>5, <2>6, <2>7, <2>8, <2>9, <2>10,
       <2>11, <2>12, <2>13, <2>14, <2>15, <2>16, <2>17
    DEF Next, Over, OwnerStep, WorkerStep, Unlock, ClientStep, ClientCall
<1> QED
  BY <1>1, <1>2, PTL DEF Spec

(* While a pool is destroyed nobody waits on it, and no job is dropped     *)
(* before that.                                                            *)
THEOREM LifeCorrect == Spec => []LifeInv
<1>1. Init => LifeInv
  BY ThreadsAssumption DEF Init, LifeInv, InWait, WaitLocked
<1>2. TypeOK /\ LifeInv /\ [Next]_vars => LifeInv'
  <2> SUFFICES ASSUME TypeOK, LifeInv, [Next]_vars
      PROVE  LifeInv'
    OBVIOUS
  <2> USE ThreadsAssumption DEF TypeOK, LifeInv, ClientPC, InWait,
        WaitLocked, Goto, CGoto, poolVars, queueVars, workerVars,
        clientVars, lifeVars, vars
  <2>1. CASE ThpoolInit
    BY <2>1 DEF ThpoolInit
  <2>2. CASE ThpoolDestroy
    BY <2>2 DEF ThpoolDestroy
  <2>3. CASE ThpoolInitReturn
    BY <2>3 DEF ThpoolInitReturn
  <2>4. CASE DestroyPoll
    BY <2>4 DEF DestroyPoll
  <2>5. CASE DestroyClear
    BY <2>5 DEF DestroyClear
  <2>6. ASSUME NEW w \in Workers,
                ThreadInit(w)
      PROVE  LifeInv'
    BY <2>6 DEF ThreadInit
  <2>7. CASE SpuriousWakeup
    BY <2>7 DEF SpuriousWakeup
  <2>8. ASSUME NEW w \in Workers,
                Alive(w) \/ LoopTest(w) \/ BsemWait(w) \/ Check(w) \/ Count(w)
                  \/ Exit(w)
      PROVE  LifeInv'
    BY <2>8 DEF Alive, LoopTest, BsemWait, Check, Count, Exit
  <2>9. ASSUME NEW w \in Workers,
                Pull(w)
      PROVE  LifeInv'
    BY <2>9 DEF Pull
  <2>10. ASSUME NEW w \in Workers,
                Repost(w)
      PROVE  LifeInv'
    BY <2>10 DEF Repost
  <2>11. ASSUME NEW w \in Workers,
                Run(w)
      PROVE  LifeInv'
    BY <2>11 DEF Run
  <2>12. ASSUME NEW w \in Workers,
                Uncount(w)
      PROVE  LifeInv'
    <3>1. \A c \in Clients : cpc'[c] = cpc[c] \/ (cpc[c] = "waiting" /\ cpc'[c] = "lock")
      BY <2>12, IdleSignalEffect DEF Uncount
    <3> QED
      BY <2>12, <3>1 DEF Uncount
  <2>13. ASSUME NEW c \in Clients, NEW j \in Jobs,
                AddWork(c, j)
      PROVE  LifeInv'
    BY <2>13 DEF AddWork
  <2>14. ASSUME NEW c \in Clients,
                PushPost(c)
      PROVE  LifeInv'
    BY <2>14 DEF PushPost
  <2>15. ASSUME NEW c \in Clients,
                WaitCall(c) \/ WaitLock(c) \/ WaitReadLen(c) \/ WaitReadWorking(c)
                  \/ WaitReturn(c)
      PROVE  LifeInv'
    BY <2>15 DEF WaitCall, WaitLock, WaitReadLen, WaitReadWorking, WaitReturn, CondWait
  <2>16. CASE UNCHANGED vars
    BY <2>16
  <2>17. ASSUME NEW w \in Workers,
                Unlock(w)
      PROVE  LifeInv'
    BY <2>17, UnlockEffect
  <2> QED
    BY <2>1, <2>2, <2>3, <2>4, <2>5, <2>6, <2>7, <2>8, <2>9, <2>10,
       <2>11, <2>12, <2>13, <2>14, <2>15, <2>16, <2>17
    DEF Next, Over, OwnerStep, WorkerStep, Unlock, ClientStep, ClientCall
<1> QED
  BY <1>1, <1>2, TypeCorrect,
     PTL DEF Spec, TypedPool

(* Whoever is inside a critical section holds its mutex, so that nobody    *)
(* else is: thcount_lock, the queue's rwmutex, and the semaphore's mutex.  *)
THEOREM LockCorrect == Spec => []LockInv
<1>1. Init => LockInv
  BY DEF Init, LockInv, WaitLocked, InCount, InQueue, InBsem
<1>2. TypeOK /\ LockInv /\ [Next]_vars => LockInv'
  <2> SUFFICES ASSUME TypeOK, LockInv, [Next]_vars
      PROVE  LockInv'
    OBVIOUS
  <2> USE ThreadsAssumption DEF TypeOK, LockInv, ClientPC, InWait,
        WaitLocked, WorkerPC, Counted, Serving, HasJob, InCount, InQueue,
        InBsem, Goto, CGoto,
        poolVars, queueVars, workerVars, clientVars, lifeVars, vars
  <2>1. CASE ThpoolInit
    BY <2>1 DEF ThpoolInit
  <2>2. CASE ThpoolDestroy
    BY <2>2 DEF ThpoolDestroy
  <2>3. CASE ThpoolInitReturn
    BY <2>3 DEF ThpoolInitReturn
  <2>4. CASE DestroyPoll
    BY <2>4 DEF DestroyPoll, BsemPostAll
  <2>5. CASE DestroyClear
    <3>1. \A u \in Workers : pc'[u] = pc[u] \/ pc'[u] = "bsem_wait"
      BY <2>5, PostEffect DEF DestroyClear
    <3> QED
      BY <2>5, <3>1 DEF DestroyClear
  <2>6. ASSUME NEW w \in Workers,
                ThreadInit(w)
      PROVE  LockInv'
    BY <2>6 DEF ThreadInit
  <2>7. CASE SpuriousWakeup
    BY <2>7 DEF SpuriousWakeup
  <2>8. ASSUME NEW w \in Workers,
                Alive(w) \/ LoopTest(w) \/ BsemWait(w) \/ Check(w) \/ Count(w)
                  \/ Exit(w)
      PROVE  LockInv'
    BY <2>8 DEF Alive, LoopTest, BsemWait, Check, Count, Exit
  <2>9. ASSUME NEW w \in Workers,
                Pull(w)
      PROVE  LockInv'
    BY <2>9 DEF Pull
  <2>10. ASSUME NEW w \in Workers,
                Repost(w)
      PROVE  LockInv'
    <3>1. /\ pc[w] = "repost" /\ pc'[w] = "reposted"
          /\ \A u \in Workers \ {w} : \/ pc'[u] = pc[u]
                                      \/ pc[u] = "asleep" /\ pc'[u] = "bsem_wait"
      BY <2>10, RepostEffect
    <3>2. /\ mutex = NoThread /\ mutex' = w
          /\ UNCHANGED <<thcount_lock, rwmutex, cpc>>
      BY <2>10 DEF Repost, BsemPost
    <3> QED
      BY <3>1, <3>2
  <2>11. ASSUME NEW w \in Workers,
                Run(w)
      PROVE  LockInv'
    BY <2>11 DEF Run
  <2>12. ASSUME NEW w \in Workers,
                Uncount(w)
      PROVE  LockInv'
    <3>1. \A c \in Clients : cpc'[c] = cpc[c] \/ (cpc[c] = "waiting" /\ cpc'[c] = "lock")
      BY <2>12, IdleSignalEffect DEF Uncount
    <3> QED
      BY <2>12, <3>1 DEF Uncount
  <2>13. ASSUME NEW c \in Clients, NEW j \in Jobs,
                AddWork(c, j)
      PROVE  LockInv'
    BY <2>13 DEF AddWork
  <2>14. ASSUME NEW c \in Clients,
                PushPost(c)
      PROVE  LockInv'
    <3>1. \A u \in Workers : pc'[u] = pc[u] \/ pc'[u] = "bsem_wait"
      BY <2>14, PostEffect DEF PushPost
    <3> QED
      BY <2>14, <3>1 DEF PushPost
  <2>15. ASSUME NEW c \in Clients,
                WaitCall(c) \/ WaitLock(c) \/ WaitReadLen(c) \/ WaitReadWorking(c)
                  \/ WaitReturn(c)
      PROVE  LockInv'
    BY <2>15 DEF WaitCall, WaitLock, WaitReadLen, WaitReadWorking, WaitReturn, CondWait
  <2>16. CASE UNCHANGED vars
    BY <2>16
  <2>17. ASSUME NEW w \in Workers,
                Unlock(w)
      PROVE  LockInv'
    BY <2>17, UnlockEffect DEF After
  <2> QED
    BY <2>1, <2>2, <2>3, <2>4, <2>5, <2>6, <2>7, <2>8, <2>9, <2>10,
       <2>11, <2>12, <2>13, <2>14, <2>15, <2>16, <2>17
    DEF Next, Over, OwnerStep, WorkerStep, Unlock, ClientStep, ClientCall
<1> QED
  BY <1>1, <1>2, TypeCorrect,
     PTL DEF Spec, TypedPool

(* The workers at some locations.                                          *)
Here(S) == {w \in Workers : pc[w] \in S}

(* How their number changes when one worker moves.                         *)
LEMMA OneMoves ==
    ASSUME pc \in [Workers -> WorkerPC], NEW w \in Workers, NEW there \in WorkerPC,
           pc' = [pc EXCEPT ![w] = there], NEW S
    PROVE  /\ IsFiniteSet(Here(S)) /\ Cardinality(Here(S)) \in Nat
           /\ pc[w] \notin S /\ there \in S =>
                Cardinality(Here(S)') = Cardinality(Here(S)) + 1
           /\ pc[w] \in S /\ there \notin S =>
                Cardinality(Here(S)') = Cardinality(Here(S)) - 1
           /\ (pc[w] \in S <=> there \in S) => Here(S)' = Here(S)
<1>1. IsFiniteSet(Here(S)) /\ Cardinality(Here(S)) \in Nat
  BY ThreadsAssumption, FS_Subset, FS_CardinalityType DEF Here
<1>2. ASSUME pc[w] \notin S, there \in S
      PROVE  Cardinality(Here(S)') = Cardinality(Here(S)) + 1
  <2>1. Here(S)' = Here(S) \cup {w} /\ w \notin Here(S)
    BY <1>2 DEF Here
  <2> QED
    BY <1>1, <2>1, FS_AddElement
<1>3. ASSUME pc[w] \in S, there \notin S
      PROVE  Cardinality(Here(S)') = Cardinality(Here(S)) - 1
  <2>1. Here(S)' = Here(S) \ {w} /\ w \in Here(S)
    BY <1>3 DEF Here
  <2> QED
    BY <1>1, <2>1, FS_RemoveElement
<1>4. (pc[w] \in S <=> there \in S) => Here(S)' = Here(S)
  BY DEF Here
<1> QED
  BY <1>1, <1>2, <1>3, <1>4

Counts ==
    /\ num_threads_working = Cardinality(Here(Serving))
    /\ num_threads_alive = Cardinality(Here(Counted))

(* A step that moves workers only inside or only outside both counts.      *)
LEMMA NoneCounted ==
    ASSUME Counts, UNCHANGED <<num_threads_working, num_threads_alive>>,
           \A w \in Workers : /\ pc[w] \in Serving <=> pc'[w] \in Serving
                              /\ pc[w] \in Counted <=> pc'[w] \in Counted
    PROVE  Counts'
<1>1. Here(Serving)' = Here(Serving) /\ Here(Counted)' = Here(Counted)
  BY DEF Here
<1> QED
  BY <1>1 DEF Counts

(* Both counts are exact in every state. thpool_wait and thpool_destroy    *)
(* trust them, and they are changed under a lock neither the queue nor the *)
(* polling loop of thpool_destroy takes.                                   *)
THEOREM CountsCorrect == Spec => []Counts
<1>1. Init => Counts
  <2> SUFFICES ASSUME Init PROVE Counts
    OBVIOUS
  <2>1. Here(Serving) = {} /\ Here(Counted) = {}
    BY DEF Init, Here, Serving, Counted, HasJob
  <2> QED
    BY <2>1, FS_EmptySet DEF Init, Counts
<1>2. TypeOK /\ Counts /\ [Next]_vars => Counts'
  <2> SUFFICES ASSUME TypeOK, Counts, [Next]_vars
      PROVE  Counts'
    OBVIOUS
  <2> USE ThreadsAssumption DEF TypeOK, ClientPC, InWait, WaitLocked,
        WorkerPC, Counted, Serving, HasJob, Goto, CGoto, poolVars,
        queueVars, workerVars, clientVars, lifeVars, vars
  <2>1. CASE ThpoolInit
    BY <2>1, NoneCounted DEF ThpoolInit
  <2>2. CASE ThpoolDestroy
    BY <2>2, NoneCounted DEF ThpoolDestroy
  <2>3. CASE ThpoolInitReturn
    BY <2>3, NoneCounted DEF ThpoolInitReturn
  <2>4. CASE DestroyPoll
    <3>1. \A u \in Workers : /\ pc[u] \in Serving <=> pc'[u] \in Serving
                             /\ pc[u] \in Counted <=> pc'[u] \in Counted
      BY <2>4 DEF DestroyPoll, BsemPostAll
    <3>2. UNCHANGED <<num_threads_working, num_threads_alive>>
      BY <2>4 DEF DestroyPoll
    <3> QED
      BY <3>1, <3>2, NoneCounted
  <2>5. CASE DestroyClear
    <3>1. \A u \in Workers : /\ pc[u] \in Serving <=> pc'[u] \in Serving
                             /\ pc[u] \in Counted <=> pc'[u] \in Counted
      BY <2>5, PostEffect DEF DestroyClear
    <3>2. UNCHANGED <<num_threads_working, num_threads_alive>>
      BY <2>5 DEF DestroyClear
    <3> QED
      BY <3>1, <3>2, NoneCounted
  <2>6. ASSUME NEW w \in Workers,
                ThreadInit(w)
      PROVE  Counts'
    <3>1. \A u \in Workers : /\ pc[u] \in Serving <=> pc'[u] \in Serving
                             /\ pc[u] \in Counted <=> pc'[u] \in Counted
      BY <2>6 DEF ThreadInit
    <3>2. UNCHANGED <<num_threads_working, num_threads_alive>>
      BY <2>6 DEF ThreadInit
    <3> QED
      BY <3>1, <3>2, NoneCounted
  <2>7. CASE SpuriousWakeup
    <3>1. \A u \in Workers : /\ pc[u] \in Serving <=> pc'[u] \in Serving
                             /\ pc[u] \in Counted <=> pc'[u] \in Counted
      BY <2>7 DEF SpuriousWakeup
    <3>2. UNCHANGED <<num_threads_working, num_threads_alive>>
      BY <2>7 DEF SpuriousWakeup
    <3> QED
      BY <3>1, <3>2, NoneCounted
  <2>8. ASSUME NEW w \in Workers,
                LoopTest(w)
      PROVE  Counts'
    <3>1. \A u \in Workers : /\ pc[u] \in Serving <=> pc'[u] \in Serving
                             /\ pc[u] \in Counted <=> pc'[u] \in Counted
      BY <2>8 DEF LoopTest
    <3>2. UNCHANGED <<num_threads_working, num_threads_alive>>
      BY <2>8 DEF LoopTest
    <3> QED
      BY <3>1, <3>2, NoneCounted
  <2>9. ASSUME NEW w \in Workers,
                BsemWait(w)
      PROVE  Counts'
    <3>1. \A u \in Workers : /\ pc[u] \in Serving <=> pc'[u] \in Serving
                             /\ pc[u] \in Counted <=> pc'[u] \in Counted
      BY <2>9 DEF BsemWait
    <3>2. UNCHANGED <<num_threads_working, num_threads_alive>>
      BY <2>9 DEF BsemWait
    <3> QED
      BY <3>1, <3>2, NoneCounted
  <2>10. ASSUME NEW w \in Workers,
                Check(w)
      PROVE  Counts'
    <3>1. \A u \in Workers : /\ pc[u] \in Serving <=> pc'[u] \in Serving
                             /\ pc[u] \in Counted <=> pc'[u] \in Counted
      BY <2>10 DEF Check
    <3>2. UNCHANGED <<num_threads_working, num_threads_alive>>
      BY <2>10 DEF Check
    <3> QED
      BY <3>1, <3>2, NoneCounted
  <2>11. ASSUME NEW w \in Workers,
                Unlock(w)
      PROVE  Counts'
    <3>1. \A u \in Workers : /\ pc[u] \in Serving <=> pc'[u] \in Serving
                             /\ pc[u] \in Counted <=> pc'[u] \in Counted
      BY <2>11, UnlockEffect DEF After
    <3>2. UNCHANGED <<num_threads_working, num_threads_alive>>
      BY <2>11, UnlockEffect
    <3> QED
      BY <3>1, <3>2, NoneCounted
  <2>12. ASSUME NEW w \in Workers,
                Alive(w)
      PROVE  Counts'
    <3>1. /\ pc' = [pc EXCEPT ![w] = "alive"] /\ "alive" \in WorkerPC
          /\ pc \in [Workers -> WorkerPC]
          /\ pc[w] \notin Serving /\ "alive" \notin Serving
          /\ pc[w] \notin Counted /\ "alive" \in Counted
      BY <2>12 DEF Alive
    <3> HIDE DEF Serving, Counted, WorkerPC, TypeOK
    <3>2. Cardinality(Here(Serving)') = Cardinality(Here(Serving))
      BY <3>1, OneMoves
    <3>3. Cardinality(Here(Counted)') = Cardinality(Here(Counted)) + 1
      BY <3>1, OneMoves
    <3> QED
      BY <2>12, <3>2, <3>3 DEF Alive, Counts
  <2>13. ASSUME NEW w \in Workers,
                Count(w)
      PROVE  Counts'
    <3>1. /\ pc' = [pc EXCEPT ![w] = "counted"] /\ "counted" \in WorkerPC
          /\ pc \in [Workers -> WorkerPC]
          /\ pc[w] \notin Serving /\ "counted" \in Serving
          /\ pc[w] \in Counted /\ "counted" \in Counted
      BY <2>13 DEF Count
    <3> HIDE DEF Serving, Counted, WorkerPC, TypeOK
    <3>2. Cardinality(Here(Serving)') = Cardinality(Here(Serving)) + 1
      BY <3>1, OneMoves
    <3>3. Cardinality(Here(Counted)') = Cardinality(Here(Counted))
      BY <3>1, OneMoves
    <3> QED
      BY <2>13, <3>2, <3>3 DEF Count, Counts
  <2>14. ASSUME NEW w \in Workers,
                Exit(w)
      PROVE  Counts'
    <3>1. /\ pc' = [pc EXCEPT ![w] = "unlock"] /\ "unlock" \in WorkerPC
          /\ pc \in [Workers -> WorkerPC]
          /\ pc[w] \notin Serving /\ "unlock" \notin Serving
          /\ pc[w] \in Counted /\ "unlock" \notin Counted
      BY <2>14 DEF Exit
    <3> HIDE DEF Serving, Counted, WorkerPC, TypeOK
    <3>2. Cardinality(Here(Serving)') = Cardinality(Here(Serving))
      BY <3>1, OneMoves
    <3>3. Cardinality(Here(Counted)') = Cardinality(Here(Counted)) - 1
      BY <3>1, OneMoves
    <3> QED
      BY <2>14, <3>2, <3>3 DEF Exit, Counts
  <2>15. ASSUME NEW w \in Workers,
                Pull(w)
      PROVE  Counts'
    <3>1. \A u \in Workers : /\ pc[u] \in Serving <=> pc'[u] \in Serving
                             /\ pc[u] \in Counted <=> pc'[u] \in Counted
      BY <2>15 DEF Pull
    <3>2. UNCHANGED <<num_threads_working, num_threads_alive>>
      BY <2>15 DEF Pull
    <3> QED
      BY <3>1, <3>2, NoneCounted
  <2>16. ASSUME NEW w \in Workers,
                Repost(w)
      PROVE  Counts'
    <3>1. \A u \in Workers : /\ pc[u] \in Serving <=> pc'[u] \in Serving
                             /\ pc[u] \in Counted <=> pc'[u] \in Counted
      BY <2>16, RepostEffect
    <3>2. UNCHANGED <<num_threads_working, num_threads_alive>>
      BY <2>16 DEF Repost
    <3> QED
      BY <3>1, <3>2, NoneCounted
  <2>17. ASSUME NEW w \in Workers,
                Run(w)
      PROVE  Counts'
    <3>1. \A u \in Workers : /\ pc[u] \in Serving <=> pc'[u] \in Serving
                             /\ pc[u] \in Counted <=> pc'[u] \in Counted
      BY <2>17 DEF Run
    <3>2. UNCHANGED <<num_threads_working, num_threads_alive>>
      BY <2>17 DEF Run
    <3> QED
      BY <3>1, <3>2, NoneCounted
  <2>18. ASSUME NEW w \in Workers,
                Uncount(w)
      PROVE  Counts'
    <3>1. /\ pc' = [pc EXCEPT ![w] = "uncounted"] /\ "uncounted" \in WorkerPC
          /\ pc \in [Workers -> WorkerPC]
          /\ pc[w] \in Serving /\ "uncounted" \notin Serving
          /\ pc[w] \in Counted /\ "uncounted" \in Counted
      BY <2>18 DEF Uncount
    <3> HIDE DEF Serving, Counted, WorkerPC, TypeOK
    <3>2. Cardinality(Here(Serving)') = Cardinality(Here(Serving)) - 1
      BY <3>1, OneMoves
    <3>3. Cardinality(Here(Counted)') = Cardinality(Here(Counted))
      BY <3>1, OneMoves
    <3> QED
      BY <2>18, <3>2, <3>3 DEF Uncount, Counts
  <2>19. ASSUME NEW c \in Clients, NEW j \in Jobs,
                AddWork(c, j)
      PROVE  Counts'
    BY <2>19, NoneCounted DEF AddWork
  <2>20. ASSUME NEW c \in Clients,
                PushPost(c)
      PROVE  Counts'
    <3>1. \A u \in Workers : /\ pc[u] \in Serving <=> pc'[u] \in Serving
                             /\ pc[u] \in Counted <=> pc'[u] \in Counted
      BY <2>20, PostEffect DEF PushPost
    <3>2. UNCHANGED <<num_threads_working, num_threads_alive>>
      BY <2>20 DEF PushPost
    <3> QED
      BY <3>1, <3>2, NoneCounted
  <2>21. ASSUME NEW c \in Clients,
                WaitCall(c) \/ WaitLock(c) \/ WaitReadLen(c) \/ WaitReadWorking(c)
                  \/ WaitReturn(c)
      PROVE  Counts'
    BY <2>21, NoneCounted DEF WaitCall, WaitLock, WaitReadLen, WaitReadWorking, WaitReturn, CondWait
  <2>22. CASE UNCHANGED vars
    BY <2>22, NoneCounted
  <2> QED
    BY <2>1, <2>2, <2>3, <2>4, <2>5, <2>6, <2>7, <2>8, <2>9, <2>10,
       <2>11, <2>12, <2>13, <2>14, <2>15, <2>16, <2>17, <2>18, <2>19,
       <2>20, <2>21, <2>22
    DEF Next, Over, OwnerStep, WorkerStep, Unlock, ClientStep, ClientCall
<1> QED
  BY <1>1, <1>2, TypeCorrect,
     PTL DEF Spec, TypedPool

(* The same, as the model checker checks it.                               *)
THEOREM CountsExactHold == Spec => []CountsExact
<1>1. Counts => CountsExact
  BY DEF Counts, CountsExact, Here
<1> QED
  BY <1>1, CountsCorrect, PTL

(* No job is lost: one that was added is queued, run, finished or dropped, *)
(* and a client waits only for jobs that were added.                       *)
THEOREM JobsCorrect == Spec => []JobsInv
<1>1. Init => JobsInv
  BY DEF Init, JobsInv
<1>2. TypedPool /\ JobsInv /\ [Next]_vars => JobsInv'
  <2> SUFFICES ASSUME TypedPool, JobsInv, [Next]_vars
      PROVE  JobsInv'
    OBVIOUS
  <2> USE ThreadsAssumption DEF TypedPool, TypeOK, JobHeld, JobsInv,
        HasJob, Goto, CGoto, poolVars, queueVars, workerVars,
        clientVars, lifeVars, vars
  <2>1. CASE ThpoolInit
    BY <2>1 DEF ThpoolInit, Running
  <2>2. CASE ThpoolDestroy
    BY <2>2 DEF ThpoolDestroy, Running
  <2>3. CASE ThpoolInitReturn
    BY <2>3 DEF ThpoolInitReturn, Running
  <2>4. CASE DestroyPoll
    <3>1. \A u \in Workers : pc[u] \in HasJob => pc'[u] \in HasJob /\ job'[u] = job[u]
      BY <2>4 DEF DestroyPoll, BsemPostAll
    <3>2. Running \subseteq Running'
      BY <3>1 DEF Running
    <3> QED
      BY <2>4, <3>2 DEF DestroyPoll
  <2>5. CASE DestroyClear
    <3>1. \A u \in Workers : pc[u] \in HasJob => pc'[u] \in HasJob /\ job'[u] = job[u]
      BY <2>5, PostEffect DEF DestroyClear
    <3>2. Running \subseteq Running'
      BY <3>1 DEF Running
    <3>3. CASE jobqueue # <<>>
      <4>1. In(jobqueue) \subseteq In(jobqueue') \cup dropped' /\ dropped \subseteq dropped'
        BY <2>5, <3>3, TailIn DEF DestroyClear
      <4> QED
        BY <2>5, <3>2, <4>1 DEF DestroyClear
    <3>4. CASE jobqueue = <<>>
      BY <2>5, <3>2, <3>4 DEF DestroyClear
    <3> QED
      BY <3>3, <3>4
  <2>6. ASSUME NEW w \in Workers,
                ThreadInit(w)
      PROVE  JobsInv'
    <3>1. \A u \in Workers : pc[u] \in HasJob => pc'[u] \in HasJob /\ job'[u] = job[u]
      BY <2>6 DEF ThreadInit
    <3>2. Running \subseteq Running'
      BY <3>1 DEF Running
    <3> QED
      BY <2>6, <3>2 DEF ThreadInit
  <2>7. CASE SpuriousWakeup
    <3>1. \A u \in Workers : pc[u] \in HasJob => pc'[u] \in HasJob /\ job'[u] = job[u]
      BY <2>7 DEF SpuriousWakeup
    <3>2. Running \subseteq Running'
      BY <3>1 DEF Running
    <3> QED
      BY <2>7, <3>2 DEF SpuriousWakeup
  <2>8. ASSUME NEW w \in Workers,
                Alive(w) \/ LoopTest(w) \/ BsemWait(w) \/ Check(w) \/ Count(w)
                  \/ Exit(w)
      PROVE  JobsInv'
    <3>1. \A u \in Workers : pc[u] \in HasJob => pc'[u] \in HasJob /\ job'[u] = job[u]
      BY <2>8 DEF Alive, LoopTest, BsemWait, Check, Count, Exit
    <3>2. Running \subseteq Running'
      BY <3>1 DEF Running
    <3> QED
      BY <2>8, <3>2 DEF Alive, LoopTest, BsemWait, Check, Count, Exit
  <2>9. ASSUME NEW w \in Workers,
                Pull(w)
      PROVE  JobsInv'
    <3>1. \A u \in Workers : pc[u] \in HasJob => pc'[u] \in HasJob /\ job'[u] = job[u]
      BY <2>9 DEF Pull
    <3>2. Running \subseteq Running'
      BY <3>1 DEF Running
    <3>3. CASE jobqueue = <<>>
      BY <2>9, <3>2, <3>3 DEF Pull
    <3>4. CASE jobqueue # <<>>
      <4>1. In(jobqueue) = In(jobqueue') \cup {Head(jobqueue)} /\ Head(jobqueue) \in Jobs
        BY <2>9, <3>4, TailIn DEF Pull
      <4>2. job'[w] = Head(jobqueue) /\ pc'[w] \in HasJob
        BY <2>9, <3>4 DEF Pull
      <4>3. Head(jobqueue) \in Running'
        BY <4>1, <4>2, JobsAssumption DEF Running
      <4> QED
        BY <2>9, <3>2, <4>1, <4>3 DEF Pull
    <3> QED
      BY <3>3, <3>4
  <2>10. ASSUME NEW w \in Workers,
                Repost(w)
      PROVE  JobsInv'
    <3>1. \A u \in Workers : pc[u] \in HasJob => pc'[u] \in HasJob
      BY <2>10, RepostEffect
    <3>2. UNCHANGED <<job, jobqueue, finished, dropped, submitted, owed>>
      BY <2>10 DEF Repost
    <3>3. Running \subseteq Running'
      BY <3>1, <3>2 DEF Running
    <3> QED
      BY <3>2, <3>3
  <2>11. ASSUME NEW w \in Workers,
                Run(w)
      PROVE  JobsInv'
    <3>1. \A u \in Workers : u # w /\ pc[u] \in HasJob => pc'[u] \in HasJob /\ job'[u] = job[u]
      BY <2>11 DEF Run
    <3>2. finished' = finished \cup {job[w]}
      BY <2>11 DEF Run
    <3>3. Running \subseteq Running' \cup finished'
      BY <3>1, <3>2 DEF Running
    <3> QED
      BY <2>11, <3>2, <3>3 DEF Run
  <2>12. ASSUME NEW w \in Workers,
                Uncount(w)
      PROVE  JobsInv'
    <3>1. \A u \in Workers : pc[u] \in HasJob => pc'[u] \in HasJob /\ job'[u] = job[u]
      BY <2>12 DEF Uncount
    <3>2. Running \subseteq Running'
      BY <3>1 DEF Running
    <3> QED
      BY <2>12, <3>2 DEF Uncount
  <2>13. ASSUME NEW c \in Clients, NEW j \in Jobs,
                AddWork(c, j)
      PROVE  JobsInv'
    <3>1. In(jobqueue') = In(jobqueue) \cup {j} /\ Running' = Running
      BY <2>13, AppendIn DEF AddWork, Running
    <3> QED
      BY <2>13, <3>1 DEF AddWork
  <2>14. ASSUME NEW c \in Clients,
                PushPost(c)
      PROVE  JobsInv'
    <3>1. \A u \in Workers : pc[u] \in HasJob => pc'[u] \in HasJob /\ job'[u] = job[u]
      BY <2>14, PostEffect DEF PushPost
    <3>2. Running \subseteq Running'
      BY <3>1 DEF Running
    <3> QED
      BY <2>14, <3>2 DEF PushPost
  <2>15. ASSUME NEW c \in Clients,
                WaitCall(c) \/ WaitLock(c) \/ WaitReadLen(c) \/ WaitReadWorking(c)
                  \/ WaitReturn(c)
      PROVE  JobsInv'
    BY <2>15 DEF WaitCall, WaitLock, WaitReadLen, WaitReadWorking, WaitReturn, CondWait, Running
  <2>16. CASE UNCHANGED vars
    BY <2>16 DEF Running
  <2>17. ASSUME NEW w \in Workers,
                Unlock(w)
      PROVE  JobsInv'
    <3>1. \A u \in Workers : pc[u] \in HasJob => pc'[u] \in HasJob /\ job'[u] = job[u]
      BY <2>17, UnlockEffect DEF After
    <3>2. UNCHANGED <<jobqueue, workerVars, clientVars>>
      BY <2>17, UnlockEffect
    <3>3. Running \subseteq Running'
      BY <3>1 DEF Running
    <3> QED
      BY <3>2, <3>3
  <2> QED
    BY <2>1, <2>2, <2>3, <2>4, <2>5, <2>6, <2>7, <2>8, <2>9, <2>10,
       <2>11, <2>12, <2>13, <2>14, <2>15, <2>16, <2>17
    DEF Next, Over, OwnerStep, WorkerStep, Unlock, ClientStep, ClientCall
<1> QED
  BY <1>1, <1>2, TypeCorrect,
     PTL DEF Spec, TypedPool

(* A client that holds thcount_lock and saw num_threads_working = 0 knows  *)
(* that no job runs.                                                       *)
LEMMA NoneWorking ==
    ASSUME Counts, num_threads_working = 0
    PROVE  Running = {}
<1>1. IsFiniteSet(Here(Serving))
  BY ThreadsAssumption, FS_Subset DEF Here
<1>2. Here(Serving) = {}
  BY <1>1, FS_EmptySet DEF Counts
<1> QED
  BY <1>2 DEF Here, Running, HasJob, Serving

(* thpool_wait reads the length of the queue and the number of working     *)
(* threads one after the other, the first without the queue's mutex, and   *)
(* is right all the same: the jobs it waits for left the queue before the  *)
(* first read, and whoever took one was counted before it pulled and cannot *)
(* be uncounted until thcount_lock is released.                            *)
THEOREM WaitCorrect == Spec => []WaitInv
<1>1. Init => WaitInv
  BY DEF Init, WaitInv
<1>2. TypedPool /\ LifeInv /\ LockInv /\ Counts /\ JobsInv /\ WaitInv /\ [Next]_vars => WaitInv'
  <2> SUFFICES ASSUME TypedPool, LifeInv, LockInv, Counts, JobsInv, WaitInv, [Next]_vars
      PROVE  WaitInv'
    OBVIOUS
  <2> USE ThreadsAssumption DEF TypedPool, TypeOK, WaitInv, ClientPC,
        InWait, WaitLocked, Goto, CGoto, poolVars, queueVars,
        workerVars, clientVars, lifeVars, vars
  <2>1. CASE ThpoolInit
    BY <2>1 DEF ThpoolInit
  <2>2. CASE ThpoolDestroy
    BY <2>2 DEF ThpoolDestroy
  <2>3. CASE ThpoolInitReturn
    BY <2>3 DEF ThpoolInitReturn
  <2>4. CASE DestroyPoll
    BY <2>4 DEF DestroyPoll
  <2>5. CASE DestroyClear
    <3>1. \A c \in Clients : cpc'[c] \notin InWait
      BY <2>5, ThreadsAssumption DEF DestroyClear, LifeInv
    <3> QED
      BY <3>1
  <2>6. ASSUME NEW w \in Workers,
                ThreadInit(w)
      PROVE  WaitInv'
    <3>1. UNCHANGED <<cpc, owed, jobqueue, finished>>
      BY <2>6 DEF ThreadInit
    <3> QED
      BY <3>1
  <2>7. CASE SpuriousWakeup
    BY <2>7 DEF SpuriousWakeup
  <2>8. ASSUME NEW w \in Workers,
                Alive(w) \/ LoopTest(w) \/ BsemWait(w) \/ Check(w)
      PROVE  WaitInv'
    <3>1. UNCHANGED <<cpc, owed, jobqueue, finished>>
      BY <2>8 DEF Alive, LoopTest, BsemWait, Check
    <3> QED
      BY <3>1
  <2>9. ASSUME NEW w \in Workers,
                Count(w) \/ Exit(w)
      PROVE  WaitInv'
    <3>1. UNCHANGED <<cpc, owed, jobqueue, finished>>
      BY <2>9 DEF Count, Exit
    <3> QED
      BY <3>1
  <2>10. ASSUME NEW w \in Workers,
                Pull(w)
      PROVE  WaitInv'
    <3>1. CASE jobqueue = <<>>
      BY <2>10, <3>1 DEF Pull
    <3>2. CASE jobqueue # <<>>
      <4>1. In(jobqueue') \subseteq In(jobqueue)
        BY <2>10, <3>2, TailIn DEF Pull
      <4> QED
        BY <2>10, <4>1 DEF Pull
    <3> QED
      BY <3>1, <3>2
  <2>11. ASSUME NEW w \in Workers,
                Repost(w)
      PROVE  WaitInv'
    <3>1. UNCHANGED <<cpc, owed, jobqueue, finished>>
      BY <2>11 DEF Repost
    <3> QED
      BY <3>1
  <2>12. ASSUME NEW w \in Workers,
                Run(w)
      PROVE  WaitInv'
    BY <2>12 DEF Run
  <2>13. ASSUME NEW w \in Workers,
                Uncount(w)
      PROVE  WaitInv'
    <3>1. \A c \in Clients : cpc'[c] = cpc[c] \/ (cpc[c] = "waiting" /\ cpc'[c] = "lock")
      BY <2>13, IdleSignalEffect DEF Uncount
    <3> QED
      BY <2>13, <3>1 DEF Uncount
  <2>14. ASSUME NEW c \in Clients, NEW j \in Jobs,
                AddWork(c, j)
      PROVE  WaitInv'
    <3>1. In(jobqueue') = In(jobqueue) \cup {j} /\ j \notin submitted
      BY <2>14, AppendIn DEF AddWork
    <3> QED
      BY <2>14, <3>1 DEF AddWork, JobsInv
  <2>15. ASSUME NEW c \in Clients,
                PushPost(c)
      PROVE  WaitInv'
    BY <2>15 DEF PushPost
  <2>16. ASSUME NEW c \in Clients,
                WaitCall(c) \/ WaitLock(c) \/ WaitReturn(c)
      PROVE  WaitInv'
    BY <2>16 DEF WaitCall, WaitLock, WaitReturn
  <2>17. ASSUME NEW c \in Clients,
                WaitReadLen(c)
      PROVE  WaitInv'
    <3>1. jobqueue = <<>> => In(jobqueue) = {}
      BY DEF In
    <3> QED
      BY <2>17, <3>1 DEF WaitReadLen, CondWait
  <2>18. ASSUME NEW c \in Clients,
                WaitReadWorking(c)
      PROVE  WaitInv'
    <3>1. CASE num_threads_working = 0
      <4>1. dropped = {}
        BY <2>18 DEF WaitReadWorking, LifeInv
      <4>2. owed[c] \subseteq finished
        BY <2>18, <3>1, <4>1, NoneWorking DEF WaitReadWorking, JobsInv
      <4> QED
        BY <2>18, <4>2 DEF WaitReadWorking, CondWait
    <3>2. CASE num_threads_working # 0
      BY <2>18, <3>2 DEF WaitReadWorking, CondWait
    <3> QED
      BY <3>1, <3>2
  <2>19. CASE UNCHANGED vars
    BY <2>19
  <2>20. ASSUME NEW w \in Workers,
                Unlock(w)
      PROVE  WaitInv'
    BY <2>20, UnlockEffect
  <2> QED
    BY <2>1, <2>2, <2>3, <2>4, <2>5, <2>6, <2>7, <2>8, <2>9, <2>10,
       <2>11, <2>12, <2>13, <2>14, <2>15, <2>16, <2>17, <2>18, <2>19, <2>20
    DEF Next, Over, OwnerStep, WorkerStep, Unlock, ClientStep, ClientCall
<1> QED
  BY <1>1, <1>2, TypeCorrect, LifeCorrect, LockCorrect,
     CountsCorrect, JobsCorrect, PTL DEF Spec, TypedPool

(* thpool_wait is sound: it returns only when every job added before the   *)
(* call has run to its end.                                                *)
THEOREM WaitIsSound == Spec => []WaitSound
<1>1. WaitInv => WaitSound
  BY DEF WaitInv, WaitSound
<1> QED
  BY <1>1, WaitCorrect, PTL

(* A raised semaphore always finds a worker awake: nobody goes to sleep    *)
(* while it is up, and the post that raises it wakes a sleeper.            *)
THEOREM PostIsSeen == Spec => []PostSeen
<1>1. Init => PostSeen
  BY DEF Init, PostSeen
<1>2. TypedPool /\ PostSeen /\ [Next]_vars => PostSeen'
  <2> SUFFICES ASSUME TypedPool, PostSeen, [Next]_vars
      PROVE  PostSeen'
    OBVIOUS
  <2> USE ThreadsAssumption DEF TypedPool, TypeOK, PostSeen, Goto,
        CGoto, poolVars, queueVars, workerVars, clientVars, lifeVars,
        vars
  <2>1. CASE ThpoolInit
    BY <2>1 DEF ThpoolInit
  <2>2. CASE ThpoolDestroy
    BY <2>2 DEF ThpoolDestroy
  <2>3. CASE ThpoolInitReturn
    BY <2>3 DEF ThpoolInitReturn
  <2>4. CASE DestroyPoll
    BY <2>4 DEF DestroyPoll, BsemPostAll
  <2>5. CASE DestroyClear
    BY <2>5, PostEffect DEF DestroyClear
  <2>6. ASSUME NEW w \in Workers,
                ThreadInit(w)
      PROVE  PostSeen'
    BY <2>6 DEF ThreadInit
  <2>7. CASE SpuriousWakeup
    BY <2>7 DEF SpuriousWakeup
  <2>8. ASSUME NEW w \in Workers,
                Alive(w) \/ LoopTest(w) \/ BsemWait(w) \/ Check(w) \/ Count(w)
                  \/ Exit(w)
      PROVE  PostSeen'
    BY <2>8 DEF Alive, LoopTest, BsemWait, Check, Count, Exit
  <2>9. ASSUME NEW w \in Workers,
                Pull(w)
      PROVE  PostSeen'
    BY <2>9 DEF Pull
  <2>10. ASSUME NEW w \in Workers,
                Repost(w)
      PROVE  PostSeen'
    <3>1. \E u \in Workers : pc'[u] # "asleep"
      BY <2>10, RepostEffect
    <3> QED
      BY <3>1
  <2>11. ASSUME NEW w \in Workers,
                Run(w)
      PROVE  PostSeen'
    BY <2>11 DEF Run
  <2>12. ASSUME NEW w \in Workers,
                Uncount(w)
      PROVE  PostSeen'
    BY <2>12 DEF Uncount
  <2>13. ASSUME NEW c \in Clients, NEW j \in Jobs,
                AddWork(c, j)
      PROVE  PostSeen'
    BY <2>13 DEF AddWork
  <2>14. ASSUME NEW c \in Clients,
                PushPost(c)
      PROVE  PostSeen'
    BY <2>14, PostEffect DEF PushPost
  <2>15. ASSUME NEW c \in Clients,
                WaitCall(c) \/ WaitLock(c) \/ WaitReadLen(c) \/ WaitReadWorking(c)
                  \/ WaitReturn(c)
      PROVE  PostSeen'
    BY <2>15 DEF WaitCall, WaitLock, WaitReadLen, WaitReadWorking, WaitReturn, CondWait
  <2>16. CASE UNCHANGED vars
    BY <2>16
  <2>17. ASSUME NEW w \in Workers,
                Unlock(w)
      PROVE  PostSeen'
    BY <2>17, UnlockEffect DEF After
  <2> QED
    BY <2>1, <2>2, <2>3, <2>4, <2>5, <2>6, <2>7, <2>8, <2>9, <2>10,
       <2>11, <2>12, <2>13, <2>14, <2>15, <2>16, <2>17
    DEF Next, Over, OwnerStep, WorkerStep, Unlock, ClientStep, ClientCall
<1> QED
  BY <1>1, <1>2, TypeCorrect,
     PTL DEF Spec, TypedPool

(* Somebody will look at the queue: the semaphore is up, or a worker that  *)
(* took a post is on its way, or a post is about to be made.               *)
Attended ==
    phase = "up" /\ jobqueue # <<>> =>
        \/ has_jobs = 1
        \/ \E w \in Workers : pc[w] \in {"taken", "check", "count", "counted", "pull", "repost"}
        \/ \E c \in Clients : cpc[c] = "post"

(* The binary semaphore loses no job: jobs may outnumber posts, but a pull *)
(* that leaves jobs behind posts again before it releases the queue.       *)
THEOREM QueueAttended == Spec => []Attended
<1>1. Init => Attended
  BY DEF Init, Attended
<1>2. TypedPool /\ LifeInv /\ Attended /\ [Next]_vars => Attended'
  <2> SUFFICES ASSUME TypedPool, LifeInv, Attended, [Next]_vars
      PROVE  Attended'
    OBVIOUS
  <2> USE ThreadsAssumption DEF TypedPool, TypeOK, LifeInv, Attended,
        Goto, CGoto, poolVars, queueVars, workerVars, clientVars,
        lifeVars, vars
  <2>1. CASE ThpoolInit
    BY <2>1 DEF ThpoolInit
  <2>2. CASE ThpoolDestroy
    BY <2>2 DEF ThpoolDestroy
  <2>3. CASE ThpoolInitReturn
    BY <2>3 DEF ThpoolInitReturn
  <2>4. CASE DestroyPoll
    BY <2>4 DEF DestroyPoll, BsemPostAll
  <2>5. CASE DestroyClear
    BY <2>5 DEF DestroyClear
  <2>6. ASSUME NEW w \in Workers,
                ThreadInit(w)
      PROVE  Attended'
    <3>1. \A u \in Workers : pc[u] \in {"taken", "check", "count", "counted", "pull", "repost"} => pc'[u] = pc[u]
      BY <2>6 DEF ThreadInit
    <3> QED
      BY <2>6, <3>1 DEF ThreadInit
  <2>7. CASE SpuriousWakeup
    <3>1. /\ \A u \in Workers : pc[u] \in {"taken", "check", "count", "counted", "pull", "repost"} => pc'[u] = pc[u]
          /\ \A c \in Clients : cpc[c] = "post" => cpc'[c] = "post"
      BY <2>7 DEF SpuriousWakeup
    <3> QED
      BY <2>7, <3>1 DEF SpuriousWakeup
  <2>8. ASSUME NEW w \in Workers,
                Alive(w) \/ LoopTest(w) \/ BsemWait(w) \/ Check(w) \/ Count(w)
                  \/ Exit(w)
      PROVE  Attended'
    <3>1. /\ \A u \in Workers \ {w} : pc'[u] = pc[u]
          /\ UNCHANGED <<phase, jobqueue, cpc>>
          /\ phase = "up" /\ pc[w] \in {"taken", "check", "count"} => pc'[w] \in {"count", "counted"}
          /\ pc[w] \notin {"taken", "counted", "pull", "repost"}
          /\ has_jobs' = has_jobs \/ pc'[w] = "taken"
      BY <2>8 DEF Alive, LoopTest, BsemWait, Check, Count, Exit
    <3> QED
      BY <3>1
  <2>9. ASSUME NEW w \in Workers,
                Pull(w)
      PROVE  Attended'
    <3>1. CASE jobqueue = <<>>
      BY <2>9, <3>1 DEF Pull
    <3>2. CASE jobqueue # <<>> /\ Len(jobqueue) = 1
      <4>1. jobqueue' = Tail(jobqueue)
        BY <2>9, <3>2 DEF Pull
      <4>2. Tail(jobqueue) = <<>>
        BY <3>2, TailEmpty
      <4> QED
        BY <4>1, <4>2
    <3>3. CASE jobqueue # <<>> /\ Len(jobqueue) > 1
      <4>1. pc'[w] = "repost"
        BY <2>9, <3>3 DEF Pull
      <4> QED
        BY <4>1
    <3>4. jobqueue = <<>> \/ Len(jobqueue) = 1 \/ Len(jobqueue) > 1
      BY LengthCases
    <3> QED
      BY <3>1, <3>2, <3>3, <3>4
  <2>10. ASSUME NEW w \in Workers,
                Repost(w)
      PROVE  Attended'
    <3>1. has_jobs' = 1
      BY <2>10, RepostEffect
    <3> QED
      BY <3>1
  <2>11. ASSUME NEW w \in Workers,
                Run(w) \/ Uncount(w)
      PROVE  Attended'
    <3>1. /\ \A u \in Workers : pc[u] \in {"taken", "check", "count", "counted", "pull", "repost"} => pc'[u] = pc[u]
          /\ UNCHANGED <<phase, jobqueue, has_jobs>>
      BY <2>11 DEF Run, Uncount
    <3>2. \A c \in Clients : cpc[c] = "post" => cpc'[c] = "post"
      BY <2>11, IdleSignalEffect DEF Run, Uncount
    <3> QED
      BY <3>1, <3>2
  <2>12. ASSUME NEW c \in Clients, NEW j \in Jobs,
                AddWork(c, j)
      PROVE  Attended'
    BY <2>12 DEF AddWork
  <2>13. ASSUME NEW c \in Clients,
                PushPost(c)
      PROVE  Attended'
    <3>1. has_jobs' = 1
      BY <2>13, PostEffect DEF PushPost
    <3> QED
      BY <3>1
  <2>14. ASSUME NEW c \in Clients,
                WaitCall(c) \/ WaitLock(c) \/ WaitReadLen(c) \/ WaitReadWorking(c)
                  \/ WaitReturn(c)
      PROVE  Attended'
    <3>1. /\ UNCHANGED <<phase, jobqueue, has_jobs, pc>>
          /\ \A d \in Clients : cpc[d] = "post" => cpc'[d] = "post"
      BY <2>14 DEF WaitCall, WaitLock, WaitReadLen, WaitReadWorking, WaitReturn, CondWait
    <3> QED
      BY <3>1
  <2>15. CASE UNCHANGED vars
    BY <2>15
  <2>16. ASSUME NEW w \in Workers,
                Unlock(w)
      PROVE  Attended'
    BY <2>16, UnlockEffect DEF After
  <2> QED
    BY <2>1, <2>2, <2>3, <2>4, <2>5, <2>6, <2>7, <2>8, <2>9, <2>10,
       <2>11, <2>12, <2>13, <2>14, <2>15, <2>16
    DEF Next, Over, OwnerStep, WorkerStep, Unlock, ClientStep, ClientCall
<1> QED
  BY <1>1, <1>2, TypeCorrect, LifeCorrect,
     PTL DEF Spec, TypedPool

(* No job is stranded in the queue of a pool that is up.                   *)
THEOREM NoJobStranded == Spec => []NoStrandedJob
<1>1. PostSeen /\ Attended => NoStrandedJob
  BY DEF PostSeen, Attended, NoStrandedJob
<1> QED
  BY <1>1, PostIsSeen, QueueAttended, PTL

(* The whole invariant, in the form the model checker checks it.           *)
THEOREM PoolInvariant == Spec => []PoolInv
<1>1. TypedPool /\ LifeInv /\ LockInv /\ JobsInv /\ WaitInv /\ PostSeen => PoolInv
  BY DEF TypedPool, PoolInv
<1> QED
  BY <1>1, TypeCorrect, LifeCorrect, LockCorrect, JobsCorrect, WaitCorrect,
     PostIsSeen, PTL
-----------------------------------------------------------------------------
(* The pool never loses a job nor runs one twice, and every step it takes  *)
(* is a step of the pool thpool.h describes (JobPool) or invisible to it.  *)

USE ThreadsAssumption, JobsAssumption

Distinct(q) == \A i, k \in DOMAIN q : q[i] = q[k] => i = k

(* Where jobs are: the queue, the workers' hands, and the two ways out do  *)
(* not meet, and a job is in the queue once and in one hand only.          *)
Placed ==
    /\ Distinct(jobqueue)
    /\ submitted = In(jobqueue) \cup Running \cup finished \cup dropped
    /\ In(jobqueue) \cap (Running \cup finished \cup dropped) = {}
    /\ Running \cap (finished \cup dropped) = {}
    /\ finished \cap dropped = {}

InOneHand ==
    /\ \A w \in Workers : job[w] # NoJob => pc[w] \in HasJob
    /\ \A u, w \in Workers : u # w /\ job[u] = job[w] => job[u] = NoJob

Finite == IsFiniteSet(finished) /\ IsFiniteSet(dropped)

(* No thread starts once thpool_init has returned; when both polling loops *)
(* of thpool_destroy are over all threads are; nothing is left at the end. *)
EndInv ==
    /\ phase # "none" => \A w \in Workers : pc[w] \notin {"none", "start"}
    /\ cpc[Owner] = "clear" => \A w \in Workers : pc[w] \notin Counted
    /\ phase = "freed" => jobqueue = <<>>

OnceInv == Placed /\ InOneHand /\ Finite /\ EndInv

(* The steps that move a job.                                              *)
JobsStay ==
    /\ UNCHANGED <<jobqueue, submitted, finished, dropped, job>>
    /\ \A w \in Workers : pc[w] \in HasJob <=> pc'[w] \in HasJob

Taken(w) ==
    /\ jobqueue # <<>> /\ pc[w] = "pull" /\ pc'[w] \in HasJob
    /\ job' = [job EXCEPT ![w] = Head(jobqueue)] /\ jobqueue' = Tail(jobqueue)
    /\ \A u \in Workers \ {w} : pc'[u] = pc[u]
    /\ UNCHANGED <<submitted, finished, dropped, phase, cpc, owed>>

Ended(w) ==
    /\ pc[w] = "run" /\ pc'[w] = "uncount"
    /\ finished' = finished \cup {job[w]} /\ job' = [job EXCEPT ![w] = NoJob]
    /\ \A u \in Workers \ {w} : pc'[u] = pc[u]
    /\ UNCHANGED <<submitted, jobqueue, dropped, phase, cpc, owed>>

Dropped ==
    /\ jobqueue # <<>> /\ cpc[Owner] = "clear"
    /\ dropped' = dropped \cup {Head(jobqueue)} /\ jobqueue' = Tail(jobqueue)
    /\ \A w \in Workers : pc[w] \in HasJob <=> pc'[w] \in HasJob
    /\ UNCHANGED <<submitted, finished, job, phase, cpc, owed>>

LEMMA JobMoves ==
    ASSUME TypedPool, [Next]_vars
    PROVE  \/ JobsStay
           \/ \E c \in Clients, j \in Jobs : AddWork(c, j)
           \/ \E w \in Workers : Taken(w) \/ Ended(w)
           \/ Dropped
<1> USE DEF TypedPool, TypeOK, WorkerPC, Counted, Serving, HasJob, Goto,
        CGoto, poolVars, queueVars, workerVars, clientVars, lifeVars, vars
<1>1. CASE ThpoolInit \/ ThpoolDestroy \/ ThpoolInitReturn \/ UNCHANGED vars
  BY <1>1 DEF ThpoolInit, ThpoolDestroy, ThpoolInitReturn, JobsStay
<1>2. CASE DestroyPoll
  BY <1>2 DEF DestroyPoll, BsemPostAll, JobsStay
<1>3. CASE DestroyClear
  <2>1. \A w \in Workers : pc[w] \in HasJob <=> pc'[w] \in HasJob
    BY <1>3, PostEffect DEF DestroyClear
  <2> QED
    BY <1>3, <2>1 DEF DestroyClear, JobsStay, Dropped
<1>4. ASSUME NEW w \in Workers, ThreadInit(w)
      PROVE  JobsStay
  BY <1>4 DEF ThreadInit, JobsStay
<1>5. CASE SpuriousWakeup
  BY <1>5 DEF SpuriousWakeup, JobsStay
<1>6. ASSUME NEW w \in Workers, Alive(w) \/ LoopTest(w) \/ BsemWait(w) \/ Check(w)
      PROVE  JobsStay
  BY <1>6 DEF Alive, LoopTest, BsemWait, Check, JobsStay
<1>7. ASSUME NEW w \in Workers, Count(w) \/ Exit(w) \/ Uncount(w)
      PROVE  JobsStay
  BY <1>7 DEF Count, Exit, Uncount, JobsStay
<1>8. ASSUME NEW w \in Workers, Pull(w)
      PROVE  JobsStay \/ Taken(w)
  BY <1>8 DEF Pull, JobsStay, Taken
<1>9. ASSUME NEW w \in Workers, Repost(w)
      PROVE  JobsStay
  <2>1. \A u \in Workers : pc[u] \in HasJob <=> pc'[u] \in HasJob
    BY <1>9, RepostEffect
  <2> QED
    BY <1>9, <2>1 DEF Repost, JobsStay
<1>10. ASSUME NEW w \in Workers, Run(w)
      PROVE  Ended(w)
  BY <1>10 DEF Run, Ended
<1>11. ASSUME NEW c \in Clients, PushPost(c)
      PROVE  JobsStay
  <2>1. \A u \in Workers : pc[u] \in HasJob <=> pc'[u] \in HasJob
    BY <1>11, PostEffect DEF PushPost
  <2> QED
    BY <1>11, <2>1 DEF PushPost, JobsStay
<1>12. ASSUME NEW c \in Clients,
              WaitCall(c) \/ WaitLock(c) \/ WaitReadLen(c) \/ WaitReadWorking(c)
                \/ WaitReturn(c)
      PROVE  JobsStay
  BY <1>12 DEF WaitCall, WaitLock, WaitReadLen, WaitReadWorking, WaitReturn, CondWait, JobsStay
<1>13. ASSUME NEW w \in Workers, Unlock(w)
       PROVE  JobsStay
  BY <1>13, UnlockEffect DEF After, JobsStay
<1> QED
  BY <1>1, <1>2, <1>3, <1>4, <1>5, <1>6, <1>7, <1>8, <1>9, <1>10, <1>11, <1>12, <1>13
  DEF Next, Over, OwnerStep, WorkerStep, Unlock, ClientStep, ClientCall

(* What each does to the set of running jobs.                              *)
LEMMA RunningStays ==
    ASSUME job' = job, \A w \in Workers : pc[w] \in HasJob <=> pc'[w] \in HasJob
    PROVE  Running' = Running
BY DEF Running

LEMMA TakenRuns ==
    ASSUME TypedPool, NEW w \in Workers, Taken(w)
    PROVE  /\ Running' = Running \cup {Head(jobqueue)}
           /\ In(jobqueue) = In(jobqueue') \cup {Head(jobqueue)}
           /\ Head(jobqueue) \in Jobs /\ jobqueue' \in Seq(Jobs)
<1>1. /\ In(jobqueue) = In(jobqueue') \cup {Head(jobqueue)}
      /\ Head(jobqueue) \in Jobs /\ jobqueue' \in Seq(Jobs)
  BY TailIn DEF TypedPool, TypeOK, Taken
<1>2. /\ \A u \in Workers \ {w} : job'[u] = job[u] /\ pc'[u] = pc[u]
      /\ job'[w] = Head(jobqueue) /\ pc'[w] \in HasJob /\ pc[w] \notin HasJob
  BY DEF TypedPool, TypeOK, Taken, HasJob
<1>3. Running' = Running \cup {Head(jobqueue)}
  BY <1>1, <1>2 DEF Running
<1> QED
  BY <1>1, <1>3

LEMMA OverRuns ==
    ASSUME TypedPool, InOneHand, NEW w \in Workers, Ended(w)
    PROVE  Running' = Running \ {job[w]} /\ job[w] \in Running
<1>1. /\ \A u \in Workers \ {w} : job'[u] = job[u] /\ pc'[u] = pc[u]
      /\ pc'[w] \notin HasJob /\ pc[w] \in HasJob /\ job[w] \in Jobs
  BY DEF TypedPool, TypeOK, JobHeld, Ended, HasJob
<1>2. \A u \in Workers \ {w} : job[u] = job[w] => FALSE
  BY <1>1 DEF InOneHand
<1> QED
  BY <1>1, <1>2 DEF Running

-----------------------------------------------------------------------------
(* What jobqueue_push and jobqueue_pull do to a queue of distinct jobs.     *)
LEMMA DistinctTail ==
    ASSUME NEW q \in Seq(Jobs), q # <<>>, Distinct(q)
    PROVE  Distinct(Tail(q)) /\ Head(q) \notin In(Tail(q))
<1>1. /\ Len(q) \in Nat \ {0} /\ DOMAIN q = 1..Len(q)
      /\ DOMAIN Tail(q) = 1..(Len(q) - 1) /\ Head(q) = q[1]
  OBVIOUS
<1>2. \A i \in 1..(Len(q) - 1) : Tail(q)[i] = q[i + 1]
  OBVIOUS
<1> QED
  BY <1>1, <1>2 DEF Distinct, In

LEMMA DistinctAppend ==
    ASSUME NEW q \in Seq(Jobs), NEW j \in Jobs, Distinct(q), j \notin In(q)
    PROVE  Distinct(Append(q, j))
<1>1. DOMAIN Append(q, j) = 1..(Len(q) + 1) /\ DOMAIN q = 1..Len(q) /\ Len(q) \in Nat
  OBVIOUS
<1>2. \A i \in 1..(Len(q) + 1) : Append(q, j)[i] = IF i = Len(q) + 1 THEN j ELSE q[i]
  OBVIOUS
<1> QED
  BY <1>1, <1>2 DEF Distinct, In

LEMMA DistinctLen ==
    ASSUME NEW q \in Seq(Jobs), Distinct(q)
    PROVE  IsFiniteSet(In(q)) /\ Cardinality(In(q)) = Len(q)
<1>1. Len(q) \in Nat /\ DOMAIN q = 1..Len(q) /\ q = [i \in 1..Len(q) |-> q[i]]
  OBVIOUS
<1>2. q \in Surjection(1..Len(q), In(q)) /\ q \in Injection(1..Len(q), In(q))
  BY <1>1 DEF Surjection, Injection, IsInjective, In, Distinct
<1>3. \A n \in Nat : IsFiniteSet(1..n) /\ Cardinality(1..n) = n
  BY FS_Interval
<1> QED
  BY <1>1, <1>2, <1>3, FS_Surjection

(* Each move keeps the places apart.                                       *)
LEMMA PlacedStep ==
    ASSUME TypedPool, Placed, InOneHand, [Next]_vars
    PROVE  Placed'
<1>1. CASE JobsStay
  BY <1>1, RunningStays DEF JobsStay, Placed
<1>2. ASSUME NEW c \in Clients, NEW j \in Jobs, AddWork(c, j)
      PROVE  Placed'
  <2>1. /\ jobqueue' = Append(jobqueue, j) /\ submitted' = submitted \cup {j}
        /\ j \notin submitted /\ UNCHANGED <<finished, dropped>> /\ Running' = Running
    BY <1>2, RunningStays DEF AddWork, workerVars
  <2>2. In(jobqueue') = In(jobqueue) \cup {j}
    BY <2>1, AppendIn DEF TypedPool, TypeOK
  <2>3. Distinct(jobqueue')
    BY <2>1, DistinctAppend DEF TypedPool, TypeOK, Placed
  <2> QED
    BY <2>1, <2>2, <2>3 DEF Placed
<1>3. ASSUME NEW w \in Workers, Taken(w)
      PROVE  Placed'
  <2>1. /\ Running' = Running \cup {Head(jobqueue)}
        /\ In(jobqueue) = In(jobqueue') \cup {Head(jobqueue)}
    BY <1>3, TakenRuns
  <2>2. Distinct(jobqueue') /\ Head(jobqueue) \notin In(jobqueue')
    BY <1>3, DistinctTail DEF TypedPool, TypeOK, Placed, Taken
  <2> QED
    BY <1>3, <2>1, <2>2 DEF Placed, Taken
<1>4. ASSUME NEW w \in Workers, Ended(w)
      PROVE  Placed'
  <2>1. Running' = Running \ {job[w]} /\ job[w] \in Running
    BY <1>4, OverRuns
  <2> QED
    BY <1>4, <2>1 DEF Placed, Ended
<1>5. CASE Dropped
  <2>1. Running' = Running /\ In(jobqueue) = In(jobqueue') \cup {Head(jobqueue)}
    BY <1>5, RunningStays, TailIn DEF Dropped, TypedPool, TypeOK
  <2>2. Distinct(jobqueue') /\ Head(jobqueue) \notin In(jobqueue')
    BY <1>5, DistinctTail DEF TypedPool, TypeOK, Placed, Dropped
  <2> QED
    BY <1>5, <2>1, <2>2 DEF Placed, Dropped
<1> QED
  BY <1>1, <1>2, <1>3, <1>4, <1>5, JobMoves

(* A job pulled is in no other hand; one that ended is in none.            *)
LEMMA HandStep ==
    ASSUME TypedPool, Placed, InOneHand, [Next]_vars
    PROVE  InOneHand'
<1>1. ASSUME JobsStay \/ Dropped \/ (\E c \in Clients, j \in Jobs : AddWork(c, j))
      PROVE  InOneHand'
  <2>1. job' = job /\ \A w \in Workers : pc[w] \in HasJob <=> pc'[w] \in HasJob
    BY <1>1 DEF JobsStay, Dropped, AddWork, workerVars
  <2> QED
    BY <2>1 DEF InOneHand
<1>2. ASSUME NEW w \in Workers, Taken(w)
      PROVE  InOneHand'
  <2>1. Head(jobqueue) \in In(jobqueue) /\ Head(jobqueue) \in Jobs
    BY <1>2, TakenRuns
  <2>2. \A u \in Workers : job[u] # Head(jobqueue)
    BY <2>1 DEF Placed, InOneHand, Running
  <2>3. /\ \A u \in Workers \ {w} : job'[u] = job[u] /\ pc'[u] = pc[u]
        /\ job'[w] = Head(jobqueue) /\ pc'[w] \in HasJob
    BY <1>2 DEF TypedPool, TypeOK, Taken
  <2> QED
    BY <2>2, <2>3 DEF InOneHand
<1>3. ASSUME NEW w \in Workers, Ended(w)
      PROVE  InOneHand'
  <2>1. /\ \A u \in Workers \ {w} : job'[u] = job[u] /\ pc'[u] = pc[u]
        /\ job'[w] = NoJob
    BY <1>3 DEF TypedPool, TypeOK, Ended
  <2> QED
    BY <2>1 DEF InOneHand
<1> QED
  BY <1>1, <1>2, <1>3, JobMoves

LEMMA FiniteStep ==
    ASSUME TypedPool, Finite, [Next]_vars
    PROVE  Finite'
<1>1. \/ UNCHANGED <<finished, dropped>>
      \/ \E j : finished' = finished \cup {j} /\ dropped' = dropped
      \/ \E j : dropped' = dropped \cup {j} /\ finished' = finished
  BY JobMoves DEF JobsStay, AddWork, Taken, Ended, Dropped, workerVars
<1> QED
  BY <1>1, FS_AddElement DEF Finite

(* When thpool_init returns every thread has started, and when the polling *)
(* loops of thpool_destroy are over none is counted: both decide on        *)
(* num_threads_alive alone.                                                *)
LEMMA AliveDecides ==
    ASSUME Counts
    PROVE  /\ num_threads_alive = Cardinality(Workers) =>
                \A w \in Workers : pc[w] \in Counted
           /\ num_threads_alive = 0 => \A w \in Workers : pc[w] \notin Counted
<1>1. Here(Counted) \in SUBSET Workers /\ IsFiniteSet(Here(Counted))
  BY FS_Subset DEF Here
<1>2. Cardinality(Workers) = Cardinality(Here(Counted)) => Workers = Here(Counted)
  BY <1>1, FS_Subset
<1>3. Cardinality(Here(Counted)) = 0 => Here(Counted) = {}
  BY <1>1, FS_EmptySet
<1> QED
  BY <1>2, <1>3 DEF Counts, Here

LEMMA EndStep ==
    ASSUME TypedPool, LifeInv, Counts, EndInv, [Next]_vars
    PROVE  EndInv'
<1> USE DEF TypedPool, TypeOK, WorkerPC, Counted, Serving, HasJob, Goto, CGoto,
        poolVars, queueVars, workerVars, clientVars, lifeVars, vars
<1>1. CASE ThpoolInit \/ ThpoolDestroy \/ UNCHANGED vars
  BY <1>1 DEF ThpoolInit, ThpoolDestroy, EndInv, LifeInv
<1>2. CASE ThpoolInitReturn
  <2>1. \A w \in Workers : pc[w] \in Counted
    BY <1>2, AliveDecides DEF ThpoolInitReturn
  <2> QED
    BY <1>2, <2>1 DEF ThpoolInitReturn, EndInv
<1>3. CASE DestroyPoll
  <2>1. CASE num_threads_alive = 0
    <3>1. \A w \in Workers : pc[w] \notin Counted
      BY <2>1, AliveDecides
    <3> QED
      BY <1>3, <2>1, <3>1 DEF DestroyPoll, EndInv
  <2>2. CASE num_threads_alive # 0
    BY <1>3, <2>2 DEF DestroyPoll, BsemPostAll, EndInv
  <2> QED
    BY <2>1, <2>2
<1>4. CASE DestroyClear
  <2>1. \A w \in Workers : \/ pc'[w] = pc[w]
                           \/ pc[w] = "asleep" /\ pc'[w] = "bsem_wait"
    BY <1>4, PostEffect DEF DestroyClear
  <2>2. cpc[Owner] = "clear" /\ phase = "dying"
    BY <1>4 DEF DestroyClear, LifeInv
  <2>3. \A w \in Workers : pc'[w] = pc[w]
    BY <2>1, <2>2 DEF EndInv
  <2> QED
    BY <1>4, <2>2, <2>3 DEF DestroyClear, EndInv
<1>5. ASSUME NEW w \in Workers, ThreadInit(w)
      PROVE  EndInv'
  BY <1>5 DEF ThreadInit, EndInv, LifeInv
<1>6. CASE SpuriousWakeup
  BY <1>6 DEF SpuriousWakeup, EndInv
<1>7. ASSUME NEW w \in Workers, Alive(w)
      PROVE  EndInv'
  BY <1>7 DEF Alive, EndInv, LifeInv
<1>8. ASSUME NEW w \in Workers,
              LoopTest(w) \/ BsemWait(w) \/ Check(w) \/ Count(w) \/ Exit(w)
      PROVE  EndInv'
  BY <1>8 DEF LoopTest, BsemWait, Check, Count, Exit, EndInv
<1>9. ASSUME NEW w \in Workers, Uncount(w)
      PROVE  EndInv'
  <2>1. \A c \in Clients : cpc'[c] = cpc[c] \/ (cpc[c] = "waiting" /\ cpc'[c] = "lock")
    BY <1>9, IdleSignalEffect DEF Uncount
  <2> QED
    BY <1>9, <2>1 DEF Uncount, EndInv
<1>10. ASSUME NEW w \in Workers, Pull(w)
       PROVE  EndInv'
  BY <1>10 DEF Pull, EndInv
<1>11. ASSUME NEW w \in Workers, Repost(w)
       PROVE  EndInv'
  <2>1. /\ pc[w] = "repost" /\ pc'[w] = "reposted"
        /\ \A u \in Workers \ {w} : \/ pc'[u] = pc[u]
                                    \/ pc[u] = "asleep" /\ pc'[u] = "bsem_wait"
    BY <1>11, RepostEffect
  <2> QED
    BY <1>11, <2>1 DEF Repost, EndInv
<1>12. ASSUME NEW w \in Workers, Run(w)
       PROVE  EndInv'
  BY <1>12 DEF Run, EndInv
<1>13. ASSUME NEW c \in Clients, NEW j \in Jobs, AddWork(c, j)
       PROVE  EndInv'
  BY <1>13 DEF AddWork, EndInv
<1>14. ASSUME NEW c \in Clients, PushPost(c)
       PROVE  EndInv'
  <2>1. \A w \in Workers : \/ pc'[w] = pc[w]
                           \/ pc[w] = "asleep" /\ pc'[w] = "bsem_wait"
    BY <1>14, PostEffect DEF PushPost
  <2> QED
    BY <1>14, <2>1 DEF PushPost, EndInv
<1>15. ASSUME NEW c \in Clients,
              WaitCall(c) \/ WaitLock(c) \/ WaitReadLen(c) \/ WaitReadWorking(c)
                \/ WaitReturn(c)
       PROVE  EndInv'
  BY <1>15 DEF WaitCall, WaitLock, WaitReadLen, WaitReadWorking, WaitReturn, CondWait, EndInv
<1>16. ASSUME NEW w \in Workers, Unlock(w)
       PROVE  EndInv'
  BY <1>16, UnlockEffect DEF After, EndInv
<1> QED
  BY <1>1, <1>2, <1>3, <1>4, <1>5, <1>6, <1>7, <1>8, <1>9, <1>10, <1>11, <1>12,
     <1>13, <1>14, <1>15, <1>16
  DEF Next, Over, OwnerStep, WorkerStep, Unlock, ClientStep, ClientCall

(* Where a job is, in whose hand, and what is left when the pool ends: no  *)
(* interleaving of pulls, stale posts and the clearing of the queue puts   *)
(* one job in two places.                                                  *)
THEOREM OnceCorrect == Spec => []OnceInv
<1>1. Init => OnceInv
  <2> SUFFICES ASSUME Init PROVE OnceInv
    OBVIOUS
  <2>1. In(jobqueue) = {} /\ Running = {}
    BY DEF Init, In, Running
  <2>2. Placed /\ InOneHand /\ EndInv
    BY <2>1 DEF Init, Placed, Distinct, InOneHand, EndInv
  <2>3. Finite
    BY FS_EmptySet DEF Init, Finite
  <2> QED
    BY <2>2, <2>3 DEF OnceInv
<1>2. TypedPool /\ LifeInv /\ Counts /\ OnceInv /\ [Next]_vars => OnceInv'
  BY PlacedStep, HandStep, FiniteStep, EndStep DEF OnceInv
<1> QED
  BY <1>1, <1>2, TypeCorrect, LifeCorrect, CountsCorrect, PTL DEF Spec

(* As many jobs run as workers have one in hand.                           *)
LEMMA RunningSize ==
    ASSUME TypedPool, InOneHand
    PROVE  /\ IsFiniteSet(Running)
           /\ Cardinality(Running) = Cardinality(Here(HasJob))
<1> DEFINE hand == [w \in Here(HasJob) |-> job[w]]
<1>1. IsFiniteSet(Here(HasJob))
  BY FS_Subset DEF Here
<1>2. \A w \in Here(HasJob) : job[w] \in Running
  BY DEF Here, Running, TypedPool, JobHeld
<1>3. hand \in Surjection(Here(HasJob), Running)
  BY <1>2 DEF Surjection, Running, Here
<1>4. hand \in Injection(Here(HasJob), Running)
  BY <1>2 DEF Injection, IsInjective, InOneHand, Here, TypedPool, JobHeld
<1> HIDE DEF hand
<1> QED
  BY <1>1, <1>3, <1>4, FS_Surjection

(* Every job added is queued once, run by one worker, finished or dropped; *)
(* none is lost and none runs twice, whatever stale posts send workers to  *)
(* pull a queue that others have emptied.                                  *)
THEOREM EachJobOnceHolds == Spec => []EachJobOnce
<1>1. TypedPool /\ OnceInv => EachJobOnce
  <2> SUFFICES ASSUME TypedPool, OnceInv
      PROVE  EachJobOnce
    OBVIOUS
  <2> DEFINE out == finished \cup dropped
             gone == Running \cup out
  <2>1. /\ IsFiniteSet(In(jobqueue)) /\ Cardinality(In(jobqueue)) = Len(jobqueue)
        /\ IsFiniteSet(Running) /\ IsFiniteSet(finished) /\ IsFiniteSet(dropped)
    BY DistinctLen, RunningSize DEF TypedPool, TypeOK, OnceInv, Placed, Finite
  <2>2. /\ finished \cap dropped = {} /\ Running \cap out = {}
        /\ In(jobqueue) \cap gone = {} /\ submitted = In(jobqueue) \cup gone
    BY DEF OnceInv, Placed
  <2>3. IsFiniteSet(out) /\ Cardinality(out) = Cardinality(finished) + Cardinality(dropped)
        /\ Cardinality(finished) \in Nat /\ Cardinality(dropped) \in Nat
    BY <2>1, <2>2, DisjointSize
  <2>4. IsFiniteSet(gone) /\ Cardinality(gone) = Cardinality(Running) + Cardinality(out)
        /\ Cardinality(Running) \in Nat
    BY <2>1, <2>2, <2>3, DisjointSize
  <2>5. Cardinality(submitted) = Cardinality(In(jobqueue)) + Cardinality(gone)
        /\ Cardinality(In(jobqueue)) \in Nat
    BY <2>1, <2>2, <2>4, DisjointSize
  <2>6. Cardinality(submitted) = Len(jobqueue) + Cardinality(Running)
                                 + Cardinality(finished) + Cardinality(dropped)
    BY <2>1, <2>3, <2>4, <2>5
  <2> QED
    BY <2>2, <2>6 DEF EachJobOnce, OnceInv, InOneHand
<1> QED
  BY <1>1, TypeCorrect, OnceCorrect, PTL

-----------------------------------------------------------------------------
(* The refinement: what a step does to the state JobPool sees.             *)

(* The clients that wait are the same, for the same jobs.                  *)
AwaitedStay ==
    UNCHANGED owed /\ \A c \in Clients : cpc'[c] \in InWait <=> cpc[c] \in InWait

LEMMA AwaitedSame == ASSUME AwaitedStay PROVE awaited' = awaited
BY DEF AwaitedStay, awaited

(* JobPool sees nothing of a step that moves no job, no waiting client and *)
(* not the pool's life.                                                    *)
LEMMA Unseen ==
    ASSUME JobsStay, AwaitedStay, UNCHANGED phase
    PROVE  UNCHANGED Abstract!jvars
<1>1. Running' = Running /\ awaited' = awaited /\ life' = life
  BY RunningStays, AwaitedSame DEF JobsStay, life
<1> QED
  BY <1>1 DEF JobsStay, Abstract!jvars

LEMMA InitRefines == ASSUME Init PROVE Abstract!Init
<1>1. Running = {} /\ life = "unborn" /\ awaited = [c \in Clients |-> {}]
  BY DEF Init, Running, life, awaited, HasJob, InWait, WaitLocked
<1> QED
  BY <1>1 DEF Init, Abstract!Init

(* A worker that pulls leaves room for the job: fewer run than there are   *)
(* workers.                                                                *)
LEMMA RoomToRun ==
    ASSUME TypedPool, InOneHand, NEW w \in Workers, pc[w] \notin HasJob
    PROVE  Cardinality(Running) < Cardinality(Workers)
<1>1. /\ IsFiniteSet(Workers \ {w}) /\ Cardinality(Workers \ {w}) = Cardinality(Workers) - 1
      /\ Cardinality(Workers) \in Nat
  BY FS_RemoveElement, FS_CardinalityType
<1>2. Here(HasJob) \in SUBSET (Workers \ {w})
  BY DEF Here
<1>3. /\ Cardinality(Here(HasJob)) <= Cardinality(Workers \ {w})
      /\ Cardinality(Here(HasJob)) \in Nat
  BY <1>1, <1>2, FS_Subset, FS_CardinalityType
<1> QED
  BY <1>1, <1>3, RunningSize

(* Each action of thpool.c is a step of JobPool, or unseen by it.          *)
LEMMA StepRefines ==
    ASSUME TypedPool, LifeInv, WaitInv, OnceInv, [Next]_vars
    PROVE  [Abstract!Next]_(Abstract!jvars)
<1> USE DEF TypedPool, TypeOK, OnceInv, WorkerPC, ClientPC, Counted, Serving, HasJob,
        InWait, WaitLocked, Goto, CGoto, poolVars, queueVars, workerVars, clientVars,
        lifeVars
<1>1. CASE ThpoolInit \/ DestroyPoll \/ SpuriousWakeup \/ UNCHANGED vars
  <2>1. JobsStay /\ AwaitedStay /\ UNCHANGED phase
    BY <1>1 DEF ThpoolInit, DestroyPoll, BsemPostAll, SpuriousWakeup, vars,
                JobsStay, AwaitedStay
  <2> QED
    BY <2>1, Unseen
<1>2. CASE ThpoolInitReturn
  <2>1. JobsStay /\ AwaitedStay /\ phase = "none" /\ phase' = "up"
    BY <1>2 DEF ThpoolInitReturn, JobsStay, AwaitedStay
  <2>2. Running' = Running /\ awaited' = awaited /\ life = "unborn" /\ life' = "open"
    BY <2>1, RunningStays, AwaitedSame DEF JobsStay, life
  <2> QED
    BY <2>1, <2>2 DEF JobsStay, Abstract!Next, Abstract!Open
<1>3. CASE ThpoolDestroy
  <2>1. /\ JobsStay /\ AwaitedStay /\ phase = "up" /\ phase' = "dying"
        /\ \A c \in Clients : awaited[c] = {}
    BY <1>3 DEF ThpoolDestroy, JobsStay, AwaitedStay, awaited
  <2>2. Running' = Running /\ awaited' = awaited /\ life = "open" /\ life' = "closing"
    BY <2>1, RunningStays, AwaitedSame DEF JobsStay, life
  <2> QED
    BY <2>1, <2>2 DEF JobsStay, Abstract!Next, Abstract!Close
<1>4. CASE DestroyClear
  <2>1. cpc[Owner] = "clear" /\ phase = "dying" /\ Running = {} /\ life = "closing"
    BY <1>4 DEF DestroyClear, LifeInv, EndInv, Running, life
  <2>2. \A w \in Workers : pc[w] \in HasJob <=> pc'[w] \in HasJob
    BY <1>4, PostEffect DEF DestroyClear
  <2>3. Running' = {}
    BY <1>4, <2>1, <2>2, RunningStays DEF DestroyClear
  <2>4. AwaitedStay
    BY <1>4 DEF DestroyClear, AwaitedStay
  <2>5. CASE jobqueue # <<>>
    <3>1. life' = "closing" /\ jobqueue' = Tail(jobqueue) /\ UNCHANGED <<submitted, finished>>
      BY <1>4, <2>1, <2>5 DEF DestroyClear, life
    <3> QED
      BY <2>1, <2>3, <2>4, <2>5, <3>1, AwaitedSame DEF Abstract!Next, Abstract!Drop
  <2>6. CASE jobqueue = <<>>
    <3>1. life' = "closed" /\ UNCHANGED <<jobqueue, submitted, finished>>
      BY <1>4, <2>6 DEF DestroyClear, life
    <3> QED
      BY <2>1, <2>3, <2>4, <2>6, <3>1, AwaitedSame DEF Abstract!Next, Abstract!Closed
  <2> QED
    BY <2>5, <2>6
<1>5. ASSUME NEW w \in Workers,
             ThreadInit(w) \/ Alive(w) \/ LoopTest(w) \/ BsemWait(w) \/ Check(w) \/ Count(w)
               \/ Exit(w)
      PROVE  UNCHANGED Abstract!jvars
  <2>1. JobsStay /\ AwaitedStay /\ UNCHANGED phase
    BY <1>5 DEF ThreadInit, Alive, LoopTest, BsemWait, Check, Count, Exit,
                JobsStay, AwaitedStay
  <2> QED
    BY <2>1, Unseen
<1>6. ASSUME NEW w \in Workers, Pull(w), jobqueue = <<>>
      PROVE  UNCHANGED Abstract!jvars
  <2>1. JobsStay /\ AwaitedStay /\ UNCHANGED phase
    BY <1>6 DEF Pull, JobsStay, AwaitedStay
  <2> QED
    BY <2>1, Unseen
<1>7. ASSUME NEW w \in Workers, Pull(w), jobqueue # <<>>
      PROVE  Abstract!Begin
  <2>1. Taken(w) /\ pc[w] = "pull" /\ AwaitedStay
    BY <1>7 DEF Pull, Taken, AwaitedStay
  <2>2. Running' = Running \cup {Head(jobqueue)} /\ awaited' = awaited
    BY <2>1, TakenRuns, AwaitedSame
  <2>3. Cardinality(Running) < Cardinality(Workers)
    BY <2>1, RoomToRun
  <2>4. life \in {"open", "closing"} /\ life' = life
    BY <1>7, <2>1 DEF Taken, LifeInv, EndInv, life
  <2>5. Abstract!Cardinality(Running) = Cardinality(Running)
    BY Zenon DEF Cardinality, Abstract!Cardinality
  <2> QED
    BY <2>1, <2>2, <2>3, <2>4, <2>5 DEF Taken, Abstract!Begin
<1>8. ASSUME NEW w \in Workers, Repost(w)
      PROVE  UNCHANGED Abstract!jvars
  <2>1. \A u \in Workers : pc[u] \in HasJob <=> pc'[u] \in HasJob
    BY <1>8, RepostEffect
  <2>2. JobsStay /\ AwaitedStay /\ UNCHANGED phase
    BY <1>8, <2>1 DEF Repost, JobsStay, AwaitedStay
  <2> QED
    BY <2>2, Unseen
<1>9. ASSUME NEW w \in Workers, Run(w)
      PROVE  job[w] \in Jobs /\ Abstract!Finish(job[w])
  <2>1. Ended(w) /\ AwaitedStay /\ job[w] \in Jobs
    BY <1>9 DEF Run, Ended, AwaitedStay, JobHeld
  <2>2. /\ Running' = Running \ {job[w]} /\ job[w] \in Running
        /\ awaited' = awaited /\ life' = life
    BY <2>1, OverRuns, AwaitedSame DEF Ended, life
  <2> QED
    BY <2>1, <2>2 DEF Ended, Abstract!Finish
<1>10. ASSUME NEW w \in Workers, Uncount(w)
       PROVE  UNCHANGED Abstract!jvars
  <2>1. \A c \in Clients : cpc'[c] = cpc[c] \/ (cpc[c] = "waiting" /\ cpc'[c] = "lock")
    BY <1>10, IdleSignalEffect DEF Uncount
  <2>2. JobsStay /\ AwaitedStay /\ UNCHANGED phase
    BY <1>10, <2>1 DEF Uncount, JobsStay, AwaitedStay
  <2> QED
    BY <2>2, Unseen
<1>11. ASSUME NEW c \in Clients, NEW j \in Jobs, AddWork(c, j)
       PROVE  Abstract!Add(j)
  <2>1. UNCHANGED <<job, pc, phase, finished>> /\ phase = "up" /\ AwaitedStay
    BY <1>11 DEF AddWork, AwaitedStay
  <2>2. Running' = Running /\ awaited' = awaited /\ life = "open" /\ life' = life
    BY <2>1, RunningStays, AwaitedSame DEF life
  <2> QED
    BY <1>11, <2>1, <2>2 DEF AddWork, Abstract!Add
<1>12. ASSUME NEW c \in Clients, PushPost(c)
       PROVE  UNCHANGED Abstract!jvars
  <2>1. \A u \in Workers : pc[u] \in HasJob <=> pc'[u] \in HasJob
    BY <1>12, PostEffect DEF PushPost
  <2>2. JobsStay /\ AwaitedStay /\ UNCHANGED phase
    BY <1>12, <2>1 DEF PushPost, JobsStay, AwaitedStay
  <2> QED
    BY <2>2, Unseen
<1>13. ASSUME NEW c \in Clients, WaitCall(c)
       PROVE  Abstract!Wait(c)
  <2>1. JobsStay /\ UNCHANGED phase /\ phase = "up"
    BY <1>13 DEF WaitCall, JobsStay
  <2>2. Running' = Running /\ life = "open" /\ life' = life
    BY <2>1, RunningStays DEF JobsStay, life
  <2>3. awaited[c] = {} /\ awaited' = [awaited EXCEPT ![c] = {submitted}]
    BY <1>13 DEF WaitCall, awaited
  <2> QED
    BY <2>1, <2>2, <2>3 DEF JobsStay, Abstract!Wait
<1>14. ASSUME NEW c \in Clients, WaitLock(c) \/ WaitReadLen(c) \/ WaitReadWorking(c)
       PROVE  UNCHANGED Abstract!jvars
  <2>1. JobsStay /\ AwaitedStay /\ UNCHANGED phase
    BY <1>14 DEF WaitLock, WaitReadLen, WaitReadWorking, CondWait, JobsStay, AwaitedStay
  <2> QED
    BY <2>1, Unseen
<1>15. ASSUME NEW c \in Clients, WaitReturn(c)
       PROVE  Abstract!Return(c)
  <2>1. JobsStay /\ UNCHANGED phase /\ owed[c] \subseteq finished
    BY <1>15 DEF WaitReturn, JobsStay, WaitInv
  <2>2. Running' = Running /\ life' = life
    BY <2>1, RunningStays DEF JobsStay, life
  <2>3. awaited[c] = {owed[c]} /\ awaited' = [awaited EXCEPT ![c] = {}]
    BY <1>15 DEF WaitReturn, awaited
  <2> QED
    BY <2>1, <2>2, <2>3 DEF JobsStay, Abstract!Return
<1>16. ASSUME NEW w \in Workers, Unlock(w)
       PROVE  UNCHANGED Abstract!jvars
  <2>1. \A u \in Workers : pc[u] \in HasJob <=> pc'[u] \in HasJob
    BY <1>16, UnlockEffect DEF After
  <2>2. UNCHANGED <<jobqueue, workerVars, clientVars, lifeVars>>
    BY <1>16, UnlockEffect
  <2>3. JobsStay /\ AwaitedStay /\ UNCHANGED phase
    BY <2>1, <2>2 DEF JobsStay, AwaitedStay
  <2> QED
    BY <2>3, Unseen
<1> HIDE DEF TypedPool, TypeOK, OnceInv
<1> QED
  BY <1>1, <1>2, <1>3, <1>4, <1>5, <1>6, <1>7, <1>8, <1>9, <1>10, <1>11, <1>12,
     <1>13, <1>14, <1>15, <1>16
  DEF Next, Over, OwnerStep, WorkerStep, Unlock, ClientStep, ClientCall, Abstract!Next

(* The pool of thpool.c does only what thpool.h lets a pool do: jobs begin *)
(* in the order they were added and at most Cardinality(Workers) at once,  *)
(* thpool_wait returns when the jobs it found are done, and thpool_destroy *)
(* drops what is queued only when nothing runs. (ImplementsJobPool adds    *)
(* the fairness; TLC checks it.)                                           *)
THEOREM PoolRefinesJobPool == Spec => Abstract!Spec
<1>1. Init => Abstract!Init
  BY InitRefines
<1>2. TypedPool /\ LifeInv /\ WaitInv /\ OnceInv /\ [Next]_vars
        => [Abstract!Next]_(Abstract!jvars)
  BY StepRefines
<1> QED
  BY <1>1, <1>2, TypeCorrect, LifeCorrect, WaitCorrect, OnceCorrect, PTL
  DEF Spec, Abstract!Spec

=============================================================================
