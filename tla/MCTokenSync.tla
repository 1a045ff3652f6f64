------------------------------ MODULE MCTokenSync ------------------------------
(***************************************************************************)
(* TokenSync for TLC: one transfer, of the second contract, so that a run  *)
(* goes through both.  Transfers meet only in the bound on a query's       *)
(* events, and what it cuts off is left out by name; two of them, with     *)
(* rows that others post and delete, are too many states for the liveness  *)
(* property.                                                               *)
(***************************************************************************)
EXTENDS TokenSync, TLC

CONSTANT t1

OfTheSecond == [t \in {t1} |-> 2]
==============================================================================
