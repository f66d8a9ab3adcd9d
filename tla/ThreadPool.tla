------------------------------ MODULE ThreadPool ------------------------------
(***************************************************************************)
(* The thread pool of src/hpc/thpool/thpool.c, at the granularity of the   *)
(* steps other threads can observe. A worker's critical section is at      *)
(* least two, the last of which unlocks: a signal may stop the worker in   *)
(* between (PausablePool), and the others meet its mutex. A client's is    *)
(* several where its middle can be seen (thpool_wait reads len without     *)
(* rwmutex).                                                               *)
(*                                                                         *)
(* One pool and one lifetime of it: Owner calls thpool_init and, possibly, *)
(* thpool_destroy; Adders call thpool_add_work and Waiters thpool_wait.    *)
(***************************************************************************)
EXTENDS Integers, Sequences, FiniteSets

CONSTANTS
    Workers,    \* the threads thpool_init creates
    Clients,    \* the threads that call the pool's functions
    Owner,      \* the client that creates and destroys the pool
    Adders,     \* the clients that may call thpool_add_work
    Waiters,    \* the clients that may call thpool_wait
    Jobs,       \* the jobs handed to thpool_add_work, each at most once
    NoJob,      \* job_p == NULL
    NoThread    \* no thread holds the mutex

ASSUME ThreadsAssumption ==
    /\ IsFiniteSet(Workers) /\ Workers # {}
    /\ Owner \in Clients /\ Adders \subseteq Clients /\ Waiters \subseteq Clients
    /\ Workers \cap Clients = {}
    /\ NoThread \notin Workers \cup Clients

ASSUME JobsAssumption == NoJob \notin Jobs

VARIABLES
    phase,               \* the life of *thpool_p: none, up, dying, freed
    threads_keepalive,   \* the file-scope flag
    num_threads_alive,
    num_threads_working,
    thcount_lock,        \* its holder
    jobqueue,            \* front .. rear; len is its length
    rwmutex,             \* its holder
    has_jobs,            \* bsem.v
    mutex,               \* bsem.mutex: its holder
    pc,                  \* where each worker is in thread_do
    job,                 \* job_p of each worker
    cpc,                 \* where each client is
    submitted,           \* history: jobs linked into the queue so far
    finished,            \* history: jobs whose function has returned
    dropped,             \* history: jobs freed unrun by jobqueue_clear
    owed                 \* history: jobs submitted before the client's wait

poolVars   == <<num_threads_alive, num_threads_working, thcount_lock>>
queueVars  == <<jobqueue, rwmutex, mutex>>
workerVars == <<job, finished>>
clientVars == <<cpc, submitted, dropped, owed>>
lifeVars   == <<phase, threads_keepalive>>
vars == <<poolVars, queueVars, has_jobs, pc, workerVars, clientVars, lifeVars>>

(* Worker locations: those that hold a job, those after                    *)
(* num_threads_working++ and before --, those counted in                   *)
(* num_threads_alive, and those inside each mutex.                         *)
HasJob   == {"repost", "reposted", "release", "run"}
Serving  == {"counted", "pull", "empty", "uncount"} \cup HasJob
Counted  == {"alive", "loop", "bsem_wait", "asleep", "taken", "check", "count",
             "uncounted", "exit"} \cup Serving
WorkerPC == {"none", "start", "unlock", "done"} \cup Counted
InCount  == {"alive", "counted", "uncounted", "unlock"}
InQueue  == {"empty", "repost", "reposted", "release"}
InBsem   == {"taken", "reposted"}

(* Client locations: inside thpool_wait with and without thcount_lock.     *)
WaitLocked == {"read_len", "read_working", "returning"}
InWait     == {"lock", "waiting"} \cup WaitLocked
ClientPC   == {"idle", "init", "post", "killing", "clear"} \cup InWait

In(q) == {q[i] : i \in DOMAIN q}

Running == {job[w] : w \in {u \in Workers : pc[u] \in HasJob}} \ {NoJob}

-----------------------------------------------------------------------------
(* pthread_cond_signal: one of the threads at `from`, if any, moves to `to`. *)
Signal(f, from, to) ==
    IF \E t \in DOMAIN f : f[t] = from
    THEN {[f EXCEPT ![t] = to] : t \in {u \in DOMAIN f : f[u] = from}}
    ELSE {f}

(* Mutant of bsem_post: signals no one.                                    *)
MutSilentPost(pcs) == mutex = NoThread /\ has_jobs' = 1 /\ pc' = pcs

(* bsem_post: v = 1 and one sleeper of bsem_wait is signalled; pcs is the   *)
(* poster's own step.                                                      *)
BsemPost(pcs) ==
    mutex = NoThread /\ has_jobs' = 1 /\ pc' \in Signal(pcs, "asleep", "bsem_wait")

(* Mutant of bsem_post_all: broadcasts without raising the semaphore.      *)
MutWakeOnly ==
    /\ mutex = NoThread
    /\ has_jobs' = has_jobs
    /\ pc' = [w \in Workers |-> IF pc[w] = "asleep" THEN "bsem_wait" ELSE pc[w]]

(* bsem_post_all: v = 1 and every sleeper is woken.                        *)
BsemPostAll ==
    /\ mutex = NoThread
    /\ has_jobs' = 1
    /\ pc' = [w \in Workers |-> IF pc[w] = "asleep" THEN "bsem_wait" ELSE pc[w]]

Goto(w, there) == pc' = [pc EXCEPT ![w] = there]
CGoto(c, there) == cpc' = [cpc EXCEPT ![c] = there]

-----------------------------------------------------------------------------
(* thpool_init, thread_init                                                *)

Init ==
    /\ phase = "none" /\ threads_keepalive = 0
    /\ num_threads_alive = 0 /\ num_threads_working = 0
    /\ thcount_lock = NoThread /\ rwmutex = NoThread /\ mutex = NoThread
    /\ jobqueue = <<>> /\ has_jobs = 0
    /\ pc = [w \in Workers |-> "none"] /\ job = [w \in Workers |-> NoJob]
    /\ cpc = [c \in Clients |-> "idle"]
    /\ submitted = {} /\ finished = {} /\ dropped = {}
    /\ owed = [c \in Clients |-> {}]

ThpoolInit ==
    /\ phase = "none" /\ cpc[Owner] = "idle"
    /\ threads_keepalive' = 1
    /\ CGoto(Owner, "init")
    /\ UNCHANGED <<phase, poolVars, queueVars, has_jobs, pc, workerVars,
                   submitted, dropped, owed>>

ThreadInit(w) ==
    /\ cpc[Owner] = "init" /\ pc[w] = "none"
    /\ Goto(w, "start")
    /\ UNCHANGED <<poolVars, queueVars, has_jobs, workerVars, clientVars, lifeVars>>

(* while (num_threads_alive != num_threads) {}                             *)
ThpoolInitReturn ==
    /\ cpc[Owner] = "init" /\ phase = "none"
    /\ num_threads_alive = Cardinality(Workers)
    /\ phase' = "up"
    /\ CGoto(Owner, "idle")
    /\ UNCHANGED <<threads_keepalive, poolVars, queueVars, has_jobs, pc,
                   workerVars, submitted, dropped, owed>>

-----------------------------------------------------------------------------
(* thpool_add_work: jobqueue_push links the job, then posts, under rwmutex *)

AddWork(c, j) ==
    /\ phase = "up" /\ c \in Adders /\ cpc[c] = "idle" /\ j \notin submitted
    /\ rwmutex = NoThread
    /\ rwmutex' = c
    /\ jobqueue' = Append(jobqueue, j)
    /\ submitted' = submitted \cup {j}
    /\ CGoto(c, "post")
    /\ UNCHANGED <<poolVars, mutex, has_jobs, pc, workerVars, dropped, owed, lifeVars>>

PushPost(c) ==
    /\ cpc[c] = "post"
    /\ BsemPost(pc)
    /\ rwmutex' = NoThread
    /\ CGoto(c, "idle")
    /\ UNCHANGED <<poolVars, jobqueue, mutex, workerVars, submitted, dropped, owed, lifeVars>>

-----------------------------------------------------------------------------
(* thpool_wait: the loop condition reads len (without rwmutex) and then    *)
(* num_threads_working, both under thcount_lock                            *)

WaitCall(c) ==
    /\ phase = "up" /\ c \in Waiters /\ cpc[c] = "idle"
    /\ owed' = [owed EXCEPT ![c] = submitted]
    /\ CGoto(c, "lock")
    /\ UNCHANGED <<poolVars, queueVars, has_jobs, pc, workerVars, submitted,
                   dropped, lifeVars>>

WaitLock(c) ==
    /\ cpc[c] = "lock" /\ thcount_lock = NoThread
    /\ thcount_lock' = c
    /\ CGoto(c, "read_len")
    /\ UNCHANGED <<num_threads_alive, num_threads_working, queueVars, has_jobs,
                   pc, workerVars, submitted, dropped, owed, lifeVars>>

(* pthread_cond_wait(threads_all_idle): releases thcount_lock and sleeps   *)
CondWait(c) == thcount_lock' = NoThread /\ CGoto(c, "waiting")

(* Mutant: thpool_wait that looks at num_threads_working alone.            *)
MutIgnoreLen(c) ==
    /\ cpc[c] = "read_len"
    /\ CGoto(c, "read_working")
    /\ UNCHANGED <<poolVars, queueVars, has_jobs, pc, workerVars, submitted,
                   dropped, owed, lifeVars>>

WaitReadLen(c) ==
    /\ cpc[c] = "read_len"
    /\ \/ jobqueue # <<>> /\ CondWait(c)
       \/ jobqueue = <<>> /\ CGoto(c, "read_working") /\ UNCHANGED thcount_lock
    /\ UNCHANGED <<num_threads_alive, num_threads_working, queueVars, has_jobs,
                   pc, workerVars, submitted, dropped, owed, lifeVars>>

WaitReadWorking(c) ==
    /\ cpc[c] = "read_working"
    /\ \/ num_threads_working # 0 /\ CondWait(c)
       \/ num_threads_working = 0 /\ CGoto(c, "returning") /\ UNCHANGED thcount_lock
    /\ UNCHANGED <<num_threads_alive, num_threads_working, queueVars, has_jobs,
                   pc, workerVars, submitted, dropped, owed, lifeVars>>

WaitReturn(c) ==
    /\ cpc[c] = "returning"
    /\ thcount_lock' = NoThread
    /\ CGoto(c, "idle")
    /\ UNCHANGED <<num_threads_alive, num_threads_working, queueVars, has_jobs,
                   pc, workerVars, submitted, dropped, owed, lifeVars>>

-----------------------------------------------------------------------------
(* thpool_destroy. Calling it while another client is inside the pool is   *)
(* outside its contract, so every client is idle when it is called.        *)

ThpoolDestroy ==
    /\ phase = "up" /\ \A c \in Clients : cpc[c] = "idle"
    /\ threads_keepalive' = 0
    /\ phase' = "dying"
    /\ CGoto(Owner, "killing")
    /\ UNCHANGED <<poolVars, queueVars, has_jobs, pc, workerVars, submitted,
                   dropped, owed>>

(* Both polling loops: post to everyone while num_threads_alive, which is  *)
(* read without thcount_lock.                                              *)
DestroyPoll ==
    /\ cpc[Owner] = "killing"
    /\ \/ /\ num_threads_alive # 0
          /\ BsemPostAll
          /\ UNCHANGED cpc
       \/ /\ num_threads_alive = 0
          /\ CGoto(Owner, "clear")
          /\ UNCHANGED <<has_jobs, pc>>
    /\ UNCHANGED <<poolVars, queueVars, workerVars, submitted, dropped, owed, lifeVars>>

(* jobqueue_clear frees what jobqueue_pull returns until len = 0; then     *)
(* bsem_reset and the deallocations.                                       *)
DestroyClear ==
    /\ cpc[Owner] = "clear" /\ rwmutex = NoThread
    /\ \/ /\ jobqueue # <<>>
          /\ dropped' = dropped \cup {Head(jobqueue)}
          /\ jobqueue' = Tail(jobqueue)
          /\ IF Len(jobqueue) > 1 THEN BsemPost(pc) ELSE UNCHANGED <<has_jobs, pc>>
          /\ UNCHANGED <<cpc, phase>>
       \/ /\ jobqueue = <<>>
          /\ has_jobs' = 0
          /\ phase' = "freed"
          /\ CGoto(Owner, "idle")
          /\ UNCHANGED <<jobqueue, dropped, pc>>
    /\ UNCHANGED <<poolVars, rwmutex, mutex, workerVars, submitted, owed, threads_keepalive>>

-----------------------------------------------------------------------------
(* thread_do                                                               *)

Alive(w) ==
    /\ pc[w] = "start" /\ thcount_lock = NoThread
    /\ thcount_lock' = w
    /\ num_threads_alive' = num_threads_alive + 1
    /\ Goto(w, "alive")
    /\ UNCHANGED <<num_threads_working, queueVars, has_jobs, workerVars, clientVars,
                   lifeVars>>

(* while (threads_keepalive)                                               *)
LoopTest(w) ==
    /\ pc[w] = "loop"
    /\ Goto(w, IF threads_keepalive = 1 THEN "bsem_wait" ELSE "exit")
    /\ UNCHANGED <<poolVars, queueVars, has_jobs, workerVars, clientVars, lifeVars>>

(* pthread_cond_wait gives the mutex back while the worker sleeps.         *)
BsemWait(w) ==
    /\ pc[w] = "bsem_wait" /\ mutex = NoThread
    /\ \/ has_jobs = 1 /\ has_jobs' = 0 /\ mutex' = w /\ Goto(w, "taken")
       \/ has_jobs = 0 /\ Goto(w, "asleep") /\ UNCHANGED <<has_jobs, mutex>>
    /\ UNCHANGED <<poolVars, jobqueue, rwmutex, workerVars, clientVars, lifeVars>>

(* if (threads_keepalive), after bsem_wait took the post                   *)
Check(w) ==
    /\ pc[w] = "check"
    /\ Goto(w, IF threads_keepalive = 1 THEN "count" ELSE "loop")
    /\ UNCHANGED <<poolVars, queueVars, has_jobs, workerVars, clientVars, lifeVars>>

Count(w) ==
    /\ pc[w] = "count" /\ thcount_lock = NoThread
    /\ thcount_lock' = w
    /\ num_threads_working' = num_threads_working + 1
    /\ Goto(w, "counted")
    /\ UNCHANGED <<num_threads_alive, queueVars, has_jobs, workerVars, clientVars,
                   lifeVars>>

(* Mutants of the pull: no post when jobs remain; front not advanced.      *)
MutNoRepost(w) ==
    /\ pc[w] = "pull" /\ rwmutex = NoThread
    /\ rwmutex' = w
    /\ \/ jobqueue = <<>> /\ Goto(w, "empty") /\ UNCHANGED <<job, jobqueue>>
       \/ /\ jobqueue # <<>> /\ Goto(w, "release")
          /\ job' = [job EXCEPT ![w] = Head(jobqueue)] /\ jobqueue' = Tail(jobqueue)
    /\ UNCHANGED <<poolVars, mutex, has_jobs, finished, clientVars, lifeVars>>
MutKeepFront(w) ==
    /\ pc[w] = "pull" /\ rwmutex = NoThread
    /\ rwmutex' = w
    /\ \/ jobqueue = <<>> /\ Goto(w, "empty") /\ UNCHANGED job
       \/ /\ jobqueue # <<>> /\ Goto(w, IF Len(jobqueue) > 1 THEN "repost" ELSE "release")
          /\ job' = [job EXCEPT ![w] = Head(jobqueue)]
    /\ UNCHANGED <<poolVars, jobqueue, mutex, has_jobs, finished, clientVars, lifeVars>>

(* jobqueue_pull: len 0 returns NULL, len 1 empties the queue, more than   *)
(* one posts again before releasing rwmutex.                               *)
Pull(w) ==
    /\ pc[w] = "pull" /\ rwmutex = NoThread
    /\ rwmutex' = w
    /\ \/ jobqueue = <<>> /\ Goto(w, "empty") /\ UNCHANGED <<job, jobqueue>>
       \/ /\ jobqueue # <<>>
          /\ Goto(w, IF Len(jobqueue) > 1 THEN "repost" ELSE "release")
          /\ job' = [job EXCEPT ![w] = Head(jobqueue)]
          /\ jobqueue' = Tail(jobqueue)
    /\ UNCHANGED <<poolVars, mutex, has_jobs, finished, clientVars, lifeVars>>

Repost(w) ==
    /\ pc[w] = "repost"
    /\ BsemPost([pc EXCEPT ![w] = "reposted"])
    /\ mutex' = w
    /\ UNCHANGED <<poolVars, jobqueue, rwmutex, workerVars, clientVars, lifeVars>>

(* The ends of bsem_wait and of the bsem_post in jobqueue_pull.            *)
BsemUnlock(w) ==
    /\ pc[w] \in InBsem
    /\ mutex' = NoThread
    /\ Goto(w, IF pc[w] = "taken" THEN "check" ELSE "release")
    /\ UNCHANGED <<poolVars, jobqueue, rwmutex, has_jobs, workerVars, clientVars, lifeVars>>

(* Mutants: a worker that found no job skips the uncount; a jobqueue_pull  *)
(* that returns NULL without unlocking.                                    *)
MutSkipUncount(w) ==
    /\ pc[w] \in {"empty", "release"}
    /\ rwmutex' = NoThread
    /\ Goto(w, IF pc[w] = "empty" THEN "loop" ELSE "run")
    /\ UNCHANGED <<poolVars, jobqueue, mutex, has_jobs, workerVars, clientVars, lifeVars>>
MutNoUnlock(w) ==
    /\ pc[w] \in {"empty", "release"}
    /\ rwmutex' = IF pc[w] = "empty" THEN rwmutex ELSE NoThread
    /\ Goto(w, IF pc[w] = "empty" THEN "uncount" ELSE "run")
    /\ UNCHANGED <<poolVars, jobqueue, mutex, has_jobs, workerVars, clientVars, lifeVars>>

PullUnlock(w) ==
    /\ pc[w] \in {"empty", "release"}
    /\ rwmutex' = NoThread
    /\ Goto(w, IF pc[w] = "empty" THEN "uncount" ELSE "run")
    /\ UNCHANGED <<poolVars, jobqueue, mutex, has_jobs, workerVars, clientVars, lifeVars>>

(* func_buff(arg_buff); free(job_p)                                        *)
Run(w) ==
    /\ pc[w] = "run"
    /\ finished' = finished \cup {job[w]}
    /\ job' = [job EXCEPT ![w] = NoJob]
    /\ Goto(w, "uncount")
    /\ UNCHANGED <<poolVars, queueVars, has_jobs, clientVars, lifeVars>>

Uncount(w) ==
    /\ pc[w] = "uncount" /\ thcount_lock = NoThread
    /\ thcount_lock' = w
    /\ num_threads_working' = num_threads_working - 1
    /\ IF num_threads_working' = 0
       THEN cpc' \in Signal(cpc, "waiting", "lock")
       ELSE UNCHANGED cpc
    /\ Goto(w, "uncounted")
    /\ UNCHANGED <<num_threads_alive, queueVars, has_jobs, workerVars, submitted, dropped,
                   owed, lifeVars>>

(* num_threads_alive-- is visible to DestroyPoll before the unlock is over *)
Exit(w) ==
    /\ pc[w] = "exit" /\ thcount_lock = NoThread
    /\ thcount_lock' = w
    /\ num_threads_alive' = num_threads_alive - 1
    /\ Goto(w, "unlock")
    /\ UNCHANGED <<num_threads_working, queueVars, has_jobs, workerVars,
                   clientVars, lifeVars>>

AfterUnlock(there) ==
    CASE there = "counted" -> "pull" [] there = "unlock" -> "done" [] OTHER -> "loop"

CountUnlock(w) ==
    /\ pc[w] \in InCount
    /\ thcount_lock' = NoThread
    /\ Goto(w, AfterUnlock(pc[w]))
    /\ UNCHANGED <<num_threads_alive, num_threads_working, queueVars, has_jobs,
                   workerVars, clientVars, lifeVars>>

(* POSIX lets either condition wait return without a signal.               *)
SpuriousWakeup ==
    \/ /\ \E w \in Workers : pc[w] = "asleep" /\ Goto(w, "bsem_wait")
       /\ UNCHANGED <<poolVars, queueVars, has_jobs, workerVars, clientVars, lifeVars>>
    \/ /\ \E c \in Clients : cpc[c] = "waiting" /\ CGoto(c, "lock")
       /\ UNCHANGED <<poolVars, queueVars, has_jobs, pc, workerVars, submitted,
                      dropped, owed, lifeVars>>

-----------------------------------------------------------------------------
WorkerStep(w) ==
    \/ Alive(w) \/ LoopTest(w) \/ BsemWait(w) \/ Check(w) \/ Count(w)
    \/ Pull(w) \/ Repost(w) \/ BsemUnlock(w) \/ PullUnlock(w)
    \/ Run(w) \/ Uncount(w) \/ Exit(w) \/ CountUnlock(w)

(* The steps a client inside a call takes without choosing anything.       *)
ClientStep(c) ==
    \/ PushPost(c) \/ WaitLock(c) \/ WaitReadLen(c) \/ WaitReadWorking(c)
    \/ WaitReturn(c)

OwnerStep ==
    \/ ThpoolInitReturn \/ DestroyPoll \/ DestroyClear
    \/ \E w \in Workers : ThreadInit(w)

ClientCall(c) == (\E j \in Jobs : AddWork(c, j)) \/ WaitCall(c)

(* The pool is gone and its threads have returned: nothing is left to do.  *)
Over == phase = "freed" /\ (\A w \in Workers : pc[w] = "done") /\ UNCHANGED vars

Next ==
    \/ Over \/ ThpoolInit \/ ThpoolDestroy \/ OwnerStep \/ SpuriousWakeup
    \/ \E w \in Workers : WorkerStep(w)
    \/ \E c \in Clients : ClientCall(c) \/ ClientStep(c)

Spec == Init /\ [][Next]_vars

(* Strong fairness: a thread that waits for a mutex released again and     *)
(* again is eventually given it. Nothing obliges a client to make a call.  *)
Fairness ==
    /\ SF_vars(OwnerStep)
    /\ \A w \in Workers : SF_vars(WorkerStep(w))
    /\ \A c \in Clients : SF_vars(ClientStep(c))

FairSpec == Spec /\ Fairness

-----------------------------------------------------------------------------
TypeOK ==
    /\ phase \in {"none", "up", "dying", "freed"}
    /\ threads_keepalive \in {0, 1} /\ has_jobs \in {0, 1}
    /\ num_threads_alive \in Int /\ num_threads_working \in Int
    /\ thcount_lock \in Workers \cup Clients \cup {NoThread}
    /\ rwmutex \in Workers \cup Clients \cup {NoThread}
    /\ mutex \in Workers \cup {NoThread}
    /\ jobqueue \in Seq(Jobs)
    /\ pc \in [Workers -> WorkerPC]
    /\ job \in [Workers -> Jobs \cup {NoJob}]
    /\ cpc \in [Clients -> ClientPC]
    /\ submitted \subseteq Jobs /\ finished \subseteq Jobs /\ dropped \subseteq Jobs
    /\ owed \in [Clients -> SUBSET Jobs]

(* thpool_wait keeps its promise to each caller: when it returns, every    *)
(* job added before the call has run to its end. A worker between the bsem *)
(* and num_threads_working++, or between the pull and the run, is where an *)
(* early return would slip through.                                        *)
WaitSound ==
    \A c \in Clients : cpc[c] = "returning" => owed[c] \subseteq finished

(* The two counts are exact whatever the interleaving: thpool_wait and     *)
(* thpool_destroy decide on them alone.                                    *)
CountsExact ==
    /\ num_threads_working = Cardinality({w \in Workers : pc[w] \in Serving})
    /\ num_threads_alive = Cardinality({w \in Workers : pc[w] \in Counted})

(* The semaphore is binary while the queue is not, so n posts may leave    *)
(* one: a queued job is never forgotten. Either the semaphore is up and a  *)
(* worker is awake to take it, or someone is on its way to pull or post.   *)
NoStrandedJob ==
    phase = "up" /\ jobqueue # <<>> =>
        \/ has_jobs = 1 /\ \E w \in Workers : pc[w] # "asleep"
        \/ \E w \in Workers : pc[w] \in {"taken", "check", "count", "counted", "pull", "repost"}
        \/ \E c \in Clients : cpc[c] = "post"

(* A job is in one place: queued once, run by one worker, finished or      *)
(* freed by jobqueue_clear; none is lost and none runs twice, although     *)
(* stale posts send workers to pull a queue others have emptied.           *)
EachJobOnce ==
    /\ submitted = In(jobqueue) \cup Running \cup finished \cup dropped
    /\ Cardinality(submitted) = Len(jobqueue) + Cardinality(Running)
                                + Cardinality(finished) + Cardinality(dropped)
    /\ \A u, w \in Workers : u # w /\ job[u] = job[w] => job[u] = NoJob

-----------------------------------------------------------------------------
(* The parts of the inductive invariant the proofs use.                    *)

(* A worker about to run something has a job in hand.                      *)
JobHeld == \A w \in Workers : pc[w] \in HasJob => job[w] \in Jobs

(* What the owner's calls make of the pool's life: nobody waits on a pool  *)
(* being destroyed, and jobs are dropped only then.                        *)
LifeInv ==
    /\ cpc[Owner] = "init" => phase = "none" /\ threads_keepalive = 1
    /\ phase = "up" => threads_keepalive = 1
    /\ phase = "none" => jobqueue = <<>>
    /\ cpc[Owner] \in {"killing", "clear"} => phase = "dying"
    /\ phase \in {"dying", "freed"} => \A c \in Clients : cpc[c] \notin InWait
    /\ dropped # {} => phase \in {"dying", "freed"}

LockInv ==
    /\ \A c \in Clients : cpc[c] \in WaitLocked => thcount_lock = c
    /\ \A w \in Workers :
        /\ pc[w] \in InCount => thcount_lock = w
        /\ pc[w] \in InQueue => rwmutex = w
        /\ pc[w] \in InBsem => mutex = w
    /\ \A c \in Clients : cpc[c] = "post" => rwmutex = c

(* Every job added is somewhere, and a client waits for added jobs only.   *)
JobsInv ==
    /\ submitted \subseteq In(jobqueue) \cup Running \cup finished \cup dropped
    /\ \A c \in Clients : owed[c] \subseteq submitted

(* Between its two reads thpool_wait holds thcount_lock, not rwmutex: jobs *)
(* may be added, but those it waits for have left the queue for good.      *)
WaitInv ==
    \A c \in Clients :
        /\ cpc[c] \in {"read_working", "returning"} => owed[c] \cap In(jobqueue) = {}
        /\ cpc[c] = "returning" => owed[c] \subseteq finished

(* A raised semaphore always finds a worker awake.                         *)
PostSeen == has_jobs = 1 => \E w \in Workers : pc[w] # "asleep"

PoolInv == TypeOK /\ JobHeld /\ LifeInv /\ LockInv /\ JobsInv /\ WaitInv /\ PostSeen

-----------------------------------------------------------------------------
(* The pool as thpool.h describes it; a client waits from its call of      *)
(* thpool_wait to the unlock that ends it.                                 *)
life == CASE phase = "none" -> "unborn" [] phase = "up" -> "open"
          [] phase = "dying" -> "closing" [] phase = "freed" -> "closed"
awaited == [c \in Clients |-> IF cpc[c] \in InWait THEN {owed[c]} ELSE {}]

Abstract == INSTANCE JobPool WITH
    NumWorkers <- Cardinality(Workers), open <- life, added <- submitted,
    queue <- jobqueue, running <- Running, done <- finished, waits <- awaited

(* The pool implements it, safety and liveness.                            *)
ImplementsJobPool == Abstract!FairSpec
=============================================================================
