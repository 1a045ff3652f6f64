------------------------------ MODULE MCMessaging ------------------------------
(***************************************************************************)
(* Messaging for TLC.                                                      *)
(***************************************************************************)
EXTENDS Messaging, TLC

Symmetry == Permutations(Users) \cup Permutations(Calls)
==============================================================================
