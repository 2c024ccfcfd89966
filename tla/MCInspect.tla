----------------------------- MODULE MCInspect ------------------------------
(***************************************************************************)
(* Inspect with one inspection that repeats itself, or with two at once.   *)
(***************************************************************************)
EXTENDS Inspect
CONSTANTS i1, i2, j1, j2, s1, s2
=============================================================================
