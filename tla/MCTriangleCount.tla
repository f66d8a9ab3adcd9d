---------------------------- MODULE MCTriangleCount ----------------------------
EXTENDS TriangleCount

CONSTANTS t1, t2

(* In place: which of eight edges between five vertices there are; they    *)
(* come with a self-loop and a duplicate. And a self-loop alone.           *)
Candidates == <<<<3, 0>>, <<0, 1>>, <<1, 0>>, <<2, 0>>, <<1, 2>>, <<0, 3>>, <<2, 3>>, <<4, 2>>>>
Lists == {<<<<1, 1>>, <<2, 1>>, <<2, 1>>>> \o
              SelectSeq(Candidates, LAMBDA e : e \in E) : E \in SUBSET ToSet(Candidates)}
         \cup {<<<<1, 1>>>>}

(* In parallel: a triangle with a self-loop and an edge listed both ways.  *)
Few == {<<<<0, 1>>, <<1, 2>>, <<2, 0>>, <<1, 0>>>>, <<<<2, 1>>, <<1, 1>>, <<0, 2>>, <<2, 1>>>>}

MCInputs ==
    [el : Lists, symmetrize : BOOLEAN, in_place : {TRUE}]
    \cup [el : Few, symmetrize : BOOLEAN, in_place : {FALSE}]
=============================================================================
