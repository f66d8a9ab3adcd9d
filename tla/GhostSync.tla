------------------------------- MODULE GhostSync -------------------------------
(***************************************************************************)
(* A loop of the main thread and the ghost thread that runs ahead of it to *)
(* prefetch. Before each pass over the loop a ghost is created (a thread,  *)
(* or a job of the thread pool); after it the ghost is joined. Main stores *)
(* the number of its iteration in a relaxed atomic counter; every          *)
(* sync_frequency iterations the ghost compares it with its own            *)
(* (src/gap/src/pf_support.h, sync): found behind, it skips ahead of main; *)
(* found too far ahead, it serializes each iteration until main catches up.*)
(*                                                                         *)
(* Loads are relaxed: the ghost may read any store that is not older than  *)
(* the last one it read, nor than the last one before its creation.        *)
(* Positions are counted in iterations (stride = 1).                       *)
(***************************************************************************)
EXTENDS Integers, Sequences

CONSTANTS
    NumIters,               \* iterations of the loop
    Passes,                 \* passes over it
    sync_frequency, skip_offset,
    serialize_threshold, unserialize_threshold,
    Resets,                 \* where main may clear the counter for a pass
    FirstValues             \* what the counter may hold before any store

ASSUME LoopAssumption ==
    /\ NumIters \in Nat /\ Passes \in Nat /\ FirstValues \subseteq Nat
    /\ Resets \subseteq {"before", "after", "never"}

(* sync divides by sync_frequency; the command line gives the drivers an   *)
(* unserialize_threshold below the other one.                              *)
ASSUME ParamsAssumption ==
    /\ sync_frequency \in Nat \ {0} /\ skip_offset \in Nat
    /\ serialize_threshold \in Nat /\ unserialize_threshold \in Nat
    /\ unserialize_threshold <= serialize_threshold

VARIABLES
    reset,            \* where this driver clears the counter
    pass,             \* passes ended
    main,             \* where main is: between passes, created, loop
    u,                \* main's iteration in this pass
    counter,          \* the stores the ghost may still read, oldest first
    ghost,            \* the ghost: none, run, done
    i,                \* its iteration
    serialize_flag,
    seen,             \* history: the last value it read in this pass, or -1
    prefetched        \* history: the iterations it executed in this pass

mainVars  == <<reset, pass, main, u>>
ghostVars == <<ghost, i, serialize_flag, seen, prefetched>>
gvars == <<mainVars, counter, ghostVars>>

Init ==
    /\ reset \in Resets
    /\ pass = 0 /\ main = "between" /\ u = 0
    /\ counter \in {<<v>> : v \in FirstValues}
    /\ ghost = "none" /\ i = 0 /\ serialize_flag = FALSE
    /\ seen = -1 /\ prefetched = {}

-----------------------------------------------------------------------------
Latest == counter[Len(counter)]

(* Mutant: a pass whose counter nobody clears.                             *)
MutNoReset ==
    /\ main = "between" /\ pass < Passes
    /\ counter' = <<Latest>>
    /\ main' = "loop" /\ u' = 0
    /\ ghost' = "run" /\ i' = 0 /\ serialize_flag' = FALSE
    /\ seen' = -1 /\ prefetched' = {}
    /\ UNCHANGED <<reset, pass>>

(* Main creates the ghost, which synchronises with it: stores older than   *)
(* the last one are out of the ghost's sight.                              *)
CreateGhost ==
    /\ main = "between" /\ pass < Passes
    /\ counter' = IF reset = "before" THEN <<0>> ELSE <<Latest>>
    /\ main' = IF reset = "after" THEN "created" ELSE "loop"
    /\ u' = 0
    /\ ghost' = "run" /\ i' = 0 /\ serialize_flag' = FALSE
    /\ seen' = -1 /\ prefetched' = {}
    /\ UNCHANGED <<reset, pass>>

(* time_diff.set(1, 0) after the thread has been created.                  *)
LateReset ==
    /\ main = "created"
    /\ counter' = Append(counter, 0)
    /\ main' = "loop"
    /\ UNCHANGED <<reset, pass, u, ghostVars>>

(* One iteration of main's loop, with its store of the iteration's number. *)
MainIter ==
    /\ main = "loop" /\ u < NumIters
    /\ counter' = Append(counter, u)
    /\ u' = u + 1
    /\ UNCHANGED <<reset, pass, main, ghostVars>>

(* PF.join(), or thpool_wait.                                              *)
Join ==
    /\ main = "loop" /\ u = NumIters /\ ghost = "done"
    /\ main' = "between" /\ pass' = pass + 1
    /\ ghost' = "none"
    /\ counter' = <<Latest>>
    /\ UNCHANGED <<reset, u, i, serialize_flag, seen, prefetched>>

-----------------------------------------------------------------------------
(* Mutants of the skip: swapped sign; the flag not cleared.                *)
MutSkipBack(c) == i' = c - skip_offset + 1 /\ serialize_flag' = FALSE
MutSkipFlagged(c) == i' = c + skip_offset + 1 /\ UNCHANGED serialize_flag

(* The ghost is too slow: i = main_counter + skip_offset, then i++.        *)
Skip(c) == i' = c + skip_offset + 1 /\ serialize_flag' = FALSE

(* The ghost is ahead by d iterations; between the thresholds the flag     *)
(* keeps its value.                                                        *)
Pace(d) ==
    /\ i' = i + 1
    /\ serialize_flag' = \/ d > serialize_threshold
                         \/ serialize_flag /\ d >= unserialize_threshold

(* Mutant: the lead is tested before the lag, as in the copies of this     *)
(* scheme in camel_tpf.c, is_tpf.c and kangaroo_tpf.c: a ghost that is     *)
(* behind has a small lead and never skips.                                *)
MutSync(c) == Pace(i - c)

Sync(c) == IF c >= i THEN Skip(c) ELSE Pace(i - c)

Due == i % sync_frequency = 0 \/ serialize_flag

(* One iteration of the ghost's loop: the prefetches, sync, i++.           *)
GhostIter ==
    /\ ghost = "run" /\ i < NumIters
    /\ prefetched' = prefetched \cup {i}
    /\ \/ /\ ~Due
          /\ i' = i + 1
          /\ UNCHANGED <<counter, serialize_flag, seen>>
       \/ /\ Due
          /\ \E k \in DOMAIN counter :
                /\ Sync(counter[k])
                /\ seen' = counter[k]
                /\ counter' = SubSeq(counter, k, Len(counter))
    /\ UNCHANGED <<mainVars, ghost>>

GhostEnd ==
    /\ ghost = "run" /\ i >= NumIters
    /\ ghost' = "done"
    /\ UNCHANGED <<mainVars, counter, i, serialize_flag, seen, prefetched>>

-----------------------------------------------------------------------------
Over == pass = Passes /\ UNCHANGED gvars

MainStep == CreateGhost \/ LateReset \/ MainIter \/ Join
GhostStep == GhostIter \/ GhostEnd

Next == MainStep \/ GhostStep \/ Over

(* Both threads run until they have nothing left to do.                    *)
Spec == Init /\ [][Next]_gvars
FairSpec == Spec /\ WF_gvars(MainStep) /\ WF_gvars(GhostStep)

-----------------------------------------------------------------------------
TypeOK ==
    /\ reset \in Resets
    /\ pass \in Nat /\ pass <= Passes
    /\ main \in {"between", "created", "loop"}
    /\ u \in Nat /\ u <= NumIters
    /\ counter \in Seq(Nat) /\ counter # <<>>
    /\ ghost \in {"none", "run", "done"}
    /\ i \in Nat /\ serialize_flag \in BOOLEAN
    /\ seen \in Nat \cup {-1}
    /\ prefetched \subseteq Nat

(* Whatever the ghost leaves out, main has reached it or is about to: what *)
(* it has passed without prefetching lies at most skip_offset iterations   *)
(* past main. That needs the counter cleared before the ghost is created.  *)
SkipsGrounded ==
    reset = "before" /\ ghost = "run" =>
        \A x \in 0 .. i - 1 : x \in prefetched \/ x <= u + skip_offset

(* A ghost that has seen main's progress is past it: it wastes no          *)
(* iteration on work it knows main has done.                               *)
GhostAhead == ghost = "run" /\ seen # -1 => i > seen

(* The ghost serializes only while it knows that it leads by at least      *)
(* unserialize_threshold: the delay never outlasts its cause, also after   *)
(* a skip, a late counter or a pass that ended flagged.                    *)
DelayJustified ==
    ghost = "run" /\ serialize_flag => i - seen > unserialize_threshold

(* What sync is for: the ghost is ahead of main as far as it has seen, and *)
(* delays itself only when it is too far ahead.                            *)
KeepsDistance == GhostAhead /\ DelayJustified

(* A pass that has begun is one of Passes.                                 *)
PassOpen == main # "between" => pass < Passes

(* With the counter cleared in time, all the ghost can read is main's      *)
(* progress in this pass.                                                  *)
CounterGrounded ==
    reset = "before" =>
        /\ main # "created"
        /\ ghost # "none" => /\ main = "loop"
                             /\ \A k \in DOMAIN counter : counter[k] <= u

(* Every pass ends: the ghost reaches the end of the loop and main joins   *)
(* it.                                                                     *)
PassesEnd == <>(pass = Passes)
=============================================================================
