--------------------------- MODULE MCStickWriter ---------------------------
(***************************************************************************)
(* Two sticks, one file name on each and two things to save, so that every *)
(* name is taken, free, half written or left by another computer.          *)
(***************************************************************************)
EXTENDS StickWriter

CONSTANTS s1, s2, n1

MCSticks == {s1, s2}
MCNames == {n1}
=============================================================================
