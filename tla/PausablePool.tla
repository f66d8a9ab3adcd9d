----------------------------- MODULE PausablePool -----------------------------
(***************************************************************************)
(* The thread pool with thpool_pause and thpool_resume. A pause sends      *)
(* SIGUSR1 to every worker; the handler, thread_hold, runs on the worker   *)
(* wherever it is, mutexes in hand or not, raises threads_on_hold and      *)
(* sleeps until it reads 0. Delivery is asynchronous: a signal may arrive  *)
(* when the pool has been resumed, or while it is destroyed.               *)
(***************************************************************************)
EXTENDS ThreadPool

CONSTANT Pausers   \* the clients that may pause and resume the pool

ASSUME PausersAssumption == Pausers \subseteq Clients

VARIABLES
    threads_on_hold,   \* the file-scope flag
    pending,           \* workers with an undelivered SIGUSR1
    held               \* workers inside thread_hold

holdVars == <<threads_on_hold, pending, held>>
pvars == <<vars, holdVars>>

HoldInit == threads_on_hold = 0 /\ pending = {} /\ held = {}

(* thpool_init also clears threads_on_hold.                                *)
PInit == Init /\ HoldInit

(* pthread_kill of every thread; a second signal to a thread that has one  *)
(* pending is merged with it.                                              *)
ThpoolPause(c) ==
    /\ phase = "up" /\ c \in Pausers /\ cpc[c] = "idle"
    /\ pending' = Workers
    /\ UNCHANGED <<vars, threads_on_hold, held>>

(* The pool itself is not used, so that a client may also call it while    *)
(* another one destroys the pool.                                          *)
ThpoolResume(c) ==
    /\ phase \in {"up", "dying"} /\ c \in Pausers /\ cpc[c] = "idle"
    /\ threads_on_hold' = 0
    /\ UNCHANGED <<vars, pending, held>>

(* Mutant of the handler: a worker that has just taken the semaphore       *)
(* starts its loop afresh, as if the signal had interrupted the wait.      *)
MutHoldRestarts(w) ==
    /\ w \in pending \ held /\ pc[w] # "done"
    /\ pending' = pending \ {w}
    /\ held' = held \cup {w}
    /\ threads_on_hold' = 1
    /\ pc' = IF pc[w] = "check" THEN [pc EXCEPT ![w] = "loop"] ELSE pc
    /\ UNCHANGED <<poolVars, queueVars, has_jobs, workerVars, clientVars, lifeVars>>

(* The handler begins; SIGUSR1 is blocked until it returns.                *)
ThreadHold(w) ==
    /\ w \in pending \ held /\ pc[w] # "done"
    /\ pending' = pending \ {w}
    /\ held' = held \cup {w}
    /\ threads_on_hold' = 1
    /\ UNCHANGED vars

(* while (threads_on_hold) sleep(1) is over.                               *)
HoldReturn(w) ==
    /\ w \in held /\ threads_on_hold = 0
    /\ held' = held \ {w}
    /\ UNCHANGED <<vars, threads_on_hold, pending>>

(* A worker on hold takes no step: it stays where it is, except that a     *)
(* post may wake it for when it returns.                                   *)
OnHold == \A w \in held : pc[w] # "asleep" => pc'[w] = pc[w]

PoolNext == Next /\ OnHold /\ UNCHANGED holdVars

PNext ==
    \/ PoolNext
    \/ \E c \in Clients : ThpoolPause(c) \/ ThpoolResume(c)
    \/ \E w \in Workers : ThreadHold(w) \/ HoldReturn(w)

FreeStep(w) == w \notin held /\ WorkerStep(w) /\ UNCHANGED holdVars
HoldStep(w) == ThreadHold(w) \/ HoldReturn(w)

(* Nothing obliges a client to resume what it has paused.                  *)
PSpec ==
    /\ PInit /\ [][PNext]_pvars
    /\ SF_pvars(OwnerStep /\ UNCHANGED holdVars)
    /\ \A w \in Workers : SF_pvars(FreeStep(w)) /\ WF_pvars(HoldStep(w))
    /\ \A c \in Clients : SF_pvars(ClientStep(c) /\ UNCHANGED holdVars)

-----------------------------------------------------------------------------
(* A pause is not over before its last signal has arrived and a resume has *)
(* come after that.                                                        *)
Paused == threads_on_hold = 1 \/ \E w \in pending : pc[w] # "done"

(* thpool.h on thpool_pause: "The threads return to their previous states  *)
(* once thpool_resume is called." When a pause is over for good, no job,   *)
(* no call of a client and no destroying of the pool hangs for it,         *)
(* wherever it caught the workers.                                         *)
PauseLosesNothing ==
    /\ submitted # {} ~> (submitted \subseteq finished \cup dropped \/ Paused)
    /\ \A c \in Clients : cpc[c] # "idle" ~> (cpc[c] = "idle" \/ Paused)

(* thpool.h: "While the thread is being paused, new work can be added." It *)
(* can, also while the pause lasts, unless a worker was caught with one of *)
(* the two mutexes a push needs: in all other cases they are given back.   *)
WorkCanBeAdded ==
    rwmutex # NoThread ~>
        (rwmutex = NoThread \/ \E w \in held : pc[w] \in InQueue \cup InBsem)
=============================================================================
