---------------------------- MODULE WalletRegistry ----------------------------
(***************************************************************************)
(* What the wallets of the application promise, without requests, nonces   *)
(* that expire or failures: an address is claimed by a user for whom its   *)
(* holder signed a challenge, by one user only, and for good.              *)
(***************************************************************************)

CONSTANTS Users, Addresses, Challenges, None

VARIABLES
    issued,     \* the user each challenge was issued to, or None
    owner       \* the user each address belongs to, or None

vars == <<issued, owner>>

Init ==
    /\ issued = [n \in Challenges |-> None]
    /\ owner = [a \in Addresses |-> None]

Issue(u, n) ==
    /\ issued[n] = None
    /\ issued' = [issued EXCEPT ![n] = u]
    /\ UNCHANGED owner

Claim(u, a) ==
    /\ owner[a] = None
    /\ \E n \in Challenges : issued[n] = u
    /\ owner' = [owner EXCEPT ![a] = u]
    /\ UNCHANGED issued

Next ==
    \/ \E u \in Users, n \in Challenges : Issue(u, n)
    \/ \E u \in Users, a \in Addresses : Claim(u, a)

Spec == Init /\ [][Next]_vars

==============================================================================
