-------------------------- MODULE MCNoPartitionJoin ----------------------------
(* Two threads; relations whose chains have one bucket, two and four, with *)
(* and without duplicate keys, and a number of tuples that does not divide *)
(* evenly.                                                                 *)
EXTENDS NoPartitionJoin

MCInputs == {
    << <<0, 1, 2, 3>>,       <<3, 0, 0>> >>,      \* one bucket each
    << <<0, 2, 0, 2, 1>>,    <<0, 1, 0>> >>,      \* one chain of two
    << <<1, 5, 1, 5, 1, 5, 1>>, <<1, 3>> >>       \* one chain of four
}
=============================================================================
