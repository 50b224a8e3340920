--------------------------- MODULE MCEntropyPool ----------------------------
(* Three words to draw, so that RDSEED may leave RDRAND none, one or more,  *)
(* and three random words, so that a run of three can be sane.              *)
EXTENDS EntropyPool

CONSTANTS r1, r2, r3

MCRandom == {r1, r2, r3}
=============================================================================
