------------------------------- MODULE TwoPools -------------------------------
(***************************************************************************)
(* Two thread pools in one process, as in the examples of thpool.h. All    *)
(* they share is threads_keepalive, a file-scope flag of thpool.c that     *)
(* thpool_init raises and thpool_destroy clears for every pool.            *)
(***************************************************************************)
EXTENDS Integers, Sequences, FiniteSets

CONSTANTS
    Workers1, Clients1, Owner1, Jobs1,   \* the first pool's threads and jobs
    Workers2, Clients2, Owner2, Jobs2,   \* the second one's
    NoJob, NoThread

VARIABLES
    threads_keepalive,
    phase1, alive1, working1, lock1, jobqueue1, rwmutex1, mutex1, has_jobs1,
    pc1, job1, cpc1, submitted1, finished1, dropped1, owed1,
    phase2, alive2, working2, lock2, jobqueue2, rwmutex2, mutex2, has_jobs2,
    pc2, job2, cpc2, submitted2, finished2, dropped2, owed2

P1 == INSTANCE ThreadPool WITH
    Workers <- Workers1, Clients <- Clients1, Owner <- Owner1, Adders <- Clients1,
    Waiters <- Clients1, Jobs <- Jobs1,
    phase <- phase1, num_threads_alive <- alive1,
    num_threads_working <- working1, thcount_lock <- lock1,
    jobqueue <- jobqueue1, rwmutex <- rwmutex1, mutex <- mutex1, has_jobs <- has_jobs1,
    pc <- pc1, job <- job1, cpc <- cpc1, submitted <- submitted1,
    finished <- finished1, dropped <- dropped1, owed <- owed1

P2 == INSTANCE ThreadPool WITH
    Workers <- Workers2, Clients <- Clients2, Owner <- Owner2, Adders <- Clients2,
    Waiters <- Clients2, Jobs <- Jobs2,
    phase <- phase2, num_threads_alive <- alive2,
    num_threads_working <- working2, thcount_lock <- lock2,
    jobqueue <- jobqueue2, rwmutex <- rwmutex2, mutex <- mutex2, has_jobs <- has_jobs2,
    pc <- pc2, job <- job2, cpc <- cpc2, submitted <- submitted2,
    finished <- finished2, dropped <- dropped2, owed <- owed2

own1 == <<phase1, alive1, working1, lock1, jobqueue1, rwmutex1, mutex1, has_jobs1,
          pc1, job1, cpc1, submitted1, finished1, dropped1, owed1>>
own2 == <<phase2, alive2, working2, lock2, jobqueue2, rwmutex2, mutex2, has_jobs2,
          pc2, job2, cpc2, submitted2, finished2, dropped2, owed2>>
tvars == <<threads_keepalive, own1, own2>>

Init == P1!Init /\ P2!Init

(* The pools take turns in any order; each leaves the other's memory alone. *)
Next ==
    \/ P1!Next /\ UNCHANGED own2
    \/ P2!Next /\ UNCHANGED own1

Fairness ==
    /\ SF_tvars(P1!OwnerStep /\ UNCHANGED own2)
    /\ SF_tvars(P2!OwnerStep /\ UNCHANGED own1)
    /\ \A w \in Workers1 : SF_tvars(P1!WorkerStep(w) /\ UNCHANGED own2)
    /\ \A w \in Workers2 : SF_tvars(P2!WorkerStep(w) /\ UNCHANGED own1)
    /\ \A c \in Clients1 : SF_tvars(P1!ClientStep(c) /\ UNCHANGED own2)
    /\ \A c \in Clients2 : SF_tvars(P2!ClientStep(c) /\ UNCHANGED own1)

Spec == Init /\ [][Next]_tvars
FairSpec == Spec /\ Fairness

-----------------------------------------------------------------------------
(* thpool.h on thpool_wait: "Once the queue is empty and all work has      *)
(* completed, the calling thread (probably the main program) will          *)
(* continue." The jobs of the second pool end and its wait returns, also   *)
(* when the first pool is destroyed meanwhile.                             *)
SecondPoolServes ==
    \A c \in Clients2 : cpc2[c] \in P2!InWait ~> cpc2[c] \notin P2!InWait
=============================================================================
