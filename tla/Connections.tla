----------------------------- MODULE Connections -----------------------------
(***************************************************************************)
(* What MessageGateway and PresenceGateway have in common: each serves the *)
(* sockets of the same users, whose id is what ws-jwt.guard.ts and the     *)
(* client put in the handshake, and both keep typing in conversations.     *)
(* The gateways have connections and state of their own.                   *)
(***************************************************************************)
CONSTANTS
    Users,
    Sockets,        \* client ids
    Owner,          \* the user of each socket: handshake.auth.userId
    Conversations,
    MaxTimers       \* bound: pending timers of a user, of one kind

ASSUME OwnerAssumption == Owner \in [Sockets -> Users]

SocketsOf(u) == {s \in Sockets : Owner[s] = u}
==============================================================================
