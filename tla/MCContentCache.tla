---------------------------- MODULE MCContentCache ----------------------------
(***************************************************************************)
(* ContentCache for TLC.  Two requests meet in every pair of steps; copies *)
(* of different regions differ in their key only.                          *)
(***************************************************************************)
EXTENDS ContentCache, TLC

Symmetry == Permutations(Requests) \cup Permutations(Regions)
==============================================================================
