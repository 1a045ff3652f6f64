------------------------------- MODULE Gateways -------------------------------
(***************************************************************************)
(* MessageGateway and PresenceGateway side by side.  They are classes of   *)
(* one process and share no state, so that a step of one commutes with     *)
(* every step of the other: nothing is lost by letting one of the two take *)
(* its steps while the other is as it starts.  Restart, which ends the     *)
(* process of both, is a step of Presence only: MessageGateway is modelled *)
(* within one life of the process.                                         *)
(***************************************************************************)
EXTENDS MessageGateway, Presence

GatewaysInit == GatewayInit /\ Init

GatewaysNext ==
    \/ Init /\ GatewayNext /\ UNCHANGED vars
    \/ GatewayInit /\ Next /\ UNCHANGED gatewayVars

GatewaysSpec == GatewaysInit /\ [][GatewaysNext]_<<gatewayVars, vars>>

\* The fairness of each: what has begun in one of the gateways is all that is
\* under way.
FairGatewaysSpec ==
    /\ GatewaysSpec
    /\ \A s \in Sockets : WF_gatewayVars(Joined(s) \/ JoinFails(s))
    /\ \A u \in Users : WF_gatewayVars(TimerFires(u))
    /\ \A u \in Users, c \in Conversations : WF_vars(TypingTimerFires(u, c))
===============================================================================
