------------------------ MODULE MCAsyncStreamChannel ------------------------
(* Instances of AsyncStreamChannel for TLC: the bounds are given by the    *)
(* configurations.                                                         *)
EXTENDS AsyncStreamChannel
=============================================================================
