---------------------------- MODULE MCTokenTransfer ----------------------------
(***************************************************************************)
(* TokenTransfer for TLC.  Transactions do not interact, so one is enough; *)
(* two patches at a time and two statuses give every mix of stale writes.  *)
(***************************************************************************)
EXTENDS TokenTransfer, TLC

Symmetry == Permutations(Editors) \cup Permutations(PatchStatuses)
==============================================================================
