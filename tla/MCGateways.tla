----------------------------- MODULE MCGateways -----------------------------
(***************************************************************************)
(* The gateways for TLC: one user (users do not interact) with four        *)
(* sockets.  The overlaps of MessageGateway need three, one leaving, one   *)
(* joining and one established; with four connections and a limit of one   *)
(* attempt two disconnections in a row reach PresenceGateway's limit.      *)
(***************************************************************************)
EXTENDS Gateways

CONSTANTS u1, s1, s2, s3, s4

OneUser == [s \in {s1, s2, s3, s4} |-> u1]
=============================================================================
