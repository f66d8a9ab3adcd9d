---------------------------- MODULE MCThreadPool ------------------------------
(* A pool of two workers, used by a main thread and one more client.       *)
EXTENDS ThreadPool

CONSTANTS w1, w2, c1, c2, j1, j2, j3, nojob, nothread
=============================================================================
