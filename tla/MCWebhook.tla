----------------------------- MODULE MCWebhook -----------------------------
(***************************************************************************)
(* Webhook for TLC.  Webhooks are interchangeable, and so are instances;   *)
(* the run with liveness uses no symmetry.                                 *)
(***************************************************************************)
EXTENDS Webhook, TLC

Symmetry == Permutations(Hooks) \cup Permutations(Procs)
=============================================================================
