--------------------------- MODULE MCPausablePool -----------------------------
(* Two workers; c1 adds jobs and waits, c2 pauses and resumes.             *)
EXTENDS PausablePool

CONSTANTS w1, w2, c1, c2, j1, j2, nojob, nothread
=============================================================================
