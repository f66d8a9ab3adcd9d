------------------------------- MODULE JobPool --------------------------------
(***************************************************************************)
(* What src/hpc/thpool/thpool.h promises of a pool: jobs begin in the      *)
(* order they were added, at most NumWorkers at a time; thpool_wait        *)
(* returns once every job added before it has finished; thpool_destroy     *)
(* lets the running jobs finish and drops the queued ones.                 *)
(***************************************************************************)
EXTENDS Naturals, Sequences, FiniteSets

CONSTANTS Clients, Jobs, NumWorkers

VARIABLES
    open,       \* jobs may be added and begun
    added,      \* jobs added so far
    queue,      \* those not begun, oldest first
    running,    \* those begun and not finished
    done,       \* those finished
    waits       \* what a client waits for: one set of jobs, or nothing

jvars == <<open, added, queue, running, done, waits>>

Init ==
    /\ open = "unborn" /\ queue = <<>>
    /\ added = {} /\ running = {} /\ done = {}
    /\ waits = [c \in Clients |-> {}]

Open ==
    /\ open = "unborn" /\ open' = "open"
    /\ UNCHANGED <<added, queue, running, done, waits>>

Add(j) ==
    /\ open = "open" /\ j \notin added
    /\ added' = added \cup {j}
    /\ queue' = Append(queue, j)
    /\ UNCHANGED <<open, running, done, waits>>

(* A worker that passed its test of the keepalive flag still begins a job. *)
Begin ==
    /\ open \in {"open", "closing"} /\ queue # <<>>
    /\ Cardinality(running) < NumWorkers
    /\ running' = running \cup {Head(queue)}
    /\ queue' = Tail(queue)
    /\ UNCHANGED <<open, added, done, waits>>

Finish(j) ==
    /\ j \in running
    /\ running' = running \ {j}
    /\ done' = done \cup {j}
    /\ UNCHANGED <<open, added, queue, waits>>

Wait(c) ==
    /\ open = "open" /\ waits[c] = {}
    /\ waits' = [waits EXCEPT ![c] = {added}]
    /\ UNCHANGED <<open, added, queue, running, done>>

Return(c) ==
    /\ \E S \in waits[c] : S \subseteq done
    /\ waits' = [waits EXCEPT ![c] = {}]
    /\ UNCHANGED <<open, added, queue, running, done>>

Close ==
    /\ open = "open" /\ \A c \in Clients : waits[c] = {}
    /\ open' = "closing"
    /\ UNCHANGED <<added, queue, running, done, waits>>

(* Once nothing runs, the queued jobs are dropped one by one.              *)
Drop ==
    /\ open = "closing" /\ running = {} /\ queue # <<>>
    /\ queue' = Tail(queue)
    /\ UNCHANGED <<open, added, running, done, waits>>

Closed ==
    /\ open = "closing" /\ running = {} /\ queue = <<>>
    /\ open' = "closed"
    /\ UNCHANGED <<added, queue, running, done, waits>>

Next ==
    \/ Open \/ Begin \/ Close \/ Drop \/ Closed
    \/ \E j \in Jobs : Add(j) \/ Finish(j)
    \/ \E c \in Clients : Wait(c) \/ Return(c)

(* A pool that stays open begins the jobs it is given, lets them finish    *)
(* and releases the clients that wait; one that is closing ends.           *)
Fairness ==
    /\ WF_jvars(Begin \/ Drop) /\ WF_jvars(Closed)
    /\ \A j \in Jobs : WF_jvars(Finish(j))
    /\ \A c \in Clients : WF_jvars(Return(c))

Spec == Init /\ [][Next]_jvars
FairSpec == Spec /\ Fairness
=============================================================================
