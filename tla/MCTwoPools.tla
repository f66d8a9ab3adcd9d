----------------------------- MODULE MCTwoPools -------------------------------
(* Two pools of one worker each, each used by one client of its own.       *)
EXTENDS TwoPools

CONSTANTS w1, w2, c1, c2, j1, j2, nojob, nothread
=============================================================================
