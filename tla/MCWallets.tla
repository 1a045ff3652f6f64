------------------------------- MODULE MCWallets -------------------------------
(***************************************************************************)
(* Wallets for TLC.  Three requests let two connections race while a third *)
(* one disconnects or connects another address.                            *)
(***************************************************************************)
EXTENDS Wallets, TLC

Symmetry == Permutations(Users) \cup Permutations(Addresses) \cup Permutations(Requests)
==============================================================================
