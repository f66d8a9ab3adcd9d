---------------------------- MODULE MCIntegerSort ----------------------------
EXTENDS IntegerSort

(* Six keys below 4 for two iterations: spread, and all but two the same.  *)
MCInputs ==
    [buckets : BOOLEAN, keys : {<<3, 0, 1, 0, 2, 1>>, <<2, 2, 2, 2, 2, 2>>}]
=============================================================================
