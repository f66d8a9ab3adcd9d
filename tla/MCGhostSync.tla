---------------------------- MODULE MCGhostSync -------------------------------
(* Two passes over a short loop, with a counter main may find cleared, or  *)
(* holding anything up to a value past the loop's end.                     *)
EXTENDS GhostSync

MCFirstValues == {0, NumIters, NumIters + 2}
=============================================================================
