----------------------------- MODULE MCAccounts -----------------------------
(***************************************************************************)
(* Accounts for TLC.  Accounts share nothing, so one is enough; every      *)
(* request is made at most once, so their number bounds a behaviour: one   *)
(* makes the account, and the others overlap or follow each other.         *)
(***************************************************************************)
EXTENDS Accounts, TLC

Symmetry == Permutations(Requests)
=============================================================================
