---------------------------- MODULE MCNotifications ----------------------------
(***************************************************************************)
(* Notifications for TLC.  Two users take turns with one token, whose      *)
(* registrations may overlap, so a user may have two active rows of it.    *)
(***************************************************************************)
EXTENDS Notifications, TLC

Symmetry == Permutations(Users) \cup Permutations(Clients) \cup Permutations(Procs)
==============================================================================
