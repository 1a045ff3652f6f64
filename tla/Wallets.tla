-------------------------------- MODULE Wallets --------------------------------
(***************************************************************************)
(* WalletService: a user asks for a nonce, signs it with the key of an     *)
(* address and connects the address; the account contract on the chain     *)
(* checks the signature.  Nonces are in the memory of the process, one for *)
(* each user; wallets and their activities are rows.  Every await may      *)
(* fail, and requests interleave at each.                                  *)
(*                                                                         *)
(* Abstracted: a nonce is the number of its issue, a signature the nonce   *)
(* it signs (0 when it signs none), and of the activities of a wallet only *)
(* which kinds there are.                                                  *)
(*                                                                         *)
(* An address is the string that the client sends: the code compares and   *)
(* stores it as it is, so that two spellings of one account on the chain   *)
(* (leading zeros, letter case) are two addresses here as they are there.  *)
(* And the chain may answer here what the code's own call cannot get: the  *)
(* contract it calls is made with an ABI that has no is_valid_signature,   *)
(* so that ChainFails is what happens; ChainAnswers is the code after a    *)
(* call that works.                                                        *)
(***************************************************************************)
EXTENDS Naturals

CONSTANTS
    Users,
    Addresses,
    Requests,       \* requests in progress or still to come
    MaxNonces,      \* bound: nonces ever issued
    None            \* no user, no address

ASSUME NoneAssumption == None \notin Users /\ None \notin Addresses
ASSUME MaxNoncesAssumption == MaxNonces \in Nat

VARIABLES
    wallet,         \* wallets: the user of each address, or None
    activities,     \* wallet_activities: the kinds logged for each address
    nonce,          \* WalletService.nonces: per user, 0 when there is none
    expired,        \* nonces issued more than five minutes ago
    req,            \* requests
    \* History variables, read by properties only.
    issued,         \* per nonce: the user it was issued to, or None
    used,           \* per address: the nonce it was connected with, or 0
    together        \* users two of whose signatures were with the chain at a time

vars == <<wallet, activities, nonce, expired, req, issued, used, together>>
historyVars == <<issued, used, together>>

Nonces == 1..MaxNonces
Activities == {"connect", "disconnect", "balance_check"}

\* What an await is for; "chain" also reads a balance.
Request == [pc : {"idle", "chain", "insert", "log", "logDisconnect", "remove", "balance",
                  "logBalance", "done"},
            user : Users \cup {None}, address : Addresses \cup {None},
            signed : 0..MaxNonces, nonce : 0..MaxNonces,
            answer : {"", "ok", "refused", "failed"}]

Init ==
    /\ wallet = [a \in Addresses |-> None]
    /\ activities = [a \in Addresses |-> {}]
    /\ nonce = [u \in Users |-> 0]
    /\ expired = {}
    /\ req = [r \in Requests |-> [pc |-> "idle", user |-> None, address |-> None,
                                  signed |-> 0, nonce |-> 0, answer |-> ""]]
    /\ issued = [n \in Nonces |-> None]
    /\ used = [a \in Addresses |-> 0]
    /\ together = {}

------------------------------------------------------------------------------
(* Nonces *)

\* generateNonce replaces the user's nonce, in use or not.
GenerateNonce(u, n) ==
    /\ \A m \in Nonces : issued[m] = None <=> m >= n
    /\ nonce' = [nonce EXCEPT ![u] = n]
    /\ issued' = [issued EXCEPT ![n] = u]
    /\ UNCHANGED <<wallet, activities, expired, req, used, together>>

Expire(n) ==
    /\ issued[n] # None /\ n \notin expired
    /\ expired' = expired \cup {n}
    /\ UNCHANGED <<wallet, activities, nonce, req, historyVars>>

\* The process stops and is started again: the nonces and the requests are lost.
Restart ==
    /\ nonce' = [u \in Users |-> 0]
    /\ req' = [r \in Requests |-> [req[r] EXCEPT !.pc = IF @ = "idle" THEN @ ELSE "done"]]
    /\ UNCHANGED <<wallet, activities, expired, historyVars>>

------------------------------------------------------------------------------
(* connectWallet *)

Goto(r, pc) == req' = [req EXCEPT ![r].pc = pc]

Answer(r, answer) == req' = [req EXCEPT ![r].pc = "done", ![r].answer = answer]

NonceIsValid(u) == nonce[u] # 0 /\ nonce[u] \notin expired

Verifying(u) == {r \in Requests : req[r].pc = "chain" /\ req[r].user = u}

\* The address is free and the user has a nonce: the signature goes to the chain.
\* Otherwise the answer is 409 or 401, and nothing changed.
Connect(r, u, a, signed) ==
    /\ req[r].pc = "idle"
    /\ wallet[a] = None /\ NonceIsValid(u)
    /\ req' = [req EXCEPT ![r] = [pc |-> "chain", user |-> u, address |-> a,
                                  signed |-> signed, nonce |-> nonce[u], answer |-> ""]]
    /\ together' = IF Verifying(u) = {} THEN together ELSE together \cup {u}
    /\ UNCHANGED <<wallet, activities, nonce, expired, issued, used>>

\* Variant: the nonce is forgotten when the wallet is stored.
ChainAnswersKeepingNonce(r) ==
    /\ req[r].pc = "chain"
    /\ IF req[r].signed = req[r].nonce THEN Goto(r, "insert") ELSE Answer(r, "refused")
    /\ UNCHANGED <<wallet, activities, nonce, expired, historyVars>>

\* The chain's answer, right or wrong, uses up the nonce that the user has by now.
ChainAnswers(r) ==
    /\ req[r].pc = "chain"
    /\ nonce' = [nonce EXCEPT ![req[r].user] = 0]
    /\ IF req[r].signed = req[r].nonce THEN Goto(r, "insert") ELSE Answer(r, "refused")
    /\ UNCHANGED <<wallet, activities, expired, historyVars>>

\* A signature without two parts, or a call that fails (one of a method that the ABI
\* does not have, for one), leaves it.
ChainFails(r) ==
    /\ req[r].pc = "chain"
    /\ Answer(r, "refused")
    /\ UNCHANGED <<wallet, activities, nonce, expired, historyVars>>

\* Variant: the row of an address is replaced.
StoreOver(r) ==
    /\ req[r].pc = "insert"
    /\ wallet' = [wallet EXCEPT ![req[r].address] = req[r].user]
    /\ used' = [used EXCEPT ![req[r].address] = req[r].nonce]
    /\ Goto(r, "log")
    /\ UNCHANGED <<activities, nonce, expired, issued, together>>

\* The column address is unique: of two requests that found it free one is refused
\* (by RequestFails).
Store(r) ==
    LET a == req[r].address IN
    /\ req[r].pc = "insert"
    /\ wallet[a] = None
    /\ wallet' = [wallet EXCEPT ![a] = req[r].user]
    /\ used' = [used EXCEPT ![a] = req[r].nonce]
    /\ Goto(r, "log")
    /\ UNCHANGED <<activities, nonce, expired, issued, together>>

\* logActivity: the row refers to the wallet's.
LogActivity(a, kind) ==
    /\ wallet[a] # None
    /\ activities' = [activities EXCEPT ![a] = @ \cup {kind}]

LogConnect(r) ==
    /\ req[r].pc = "log"
    /\ LogActivity(req[r].address, "connect")
    /\ Answer(r, "ok")
    /\ UNCHANGED <<wallet, nonce, expired, historyVars>>

------------------------------------------------------------------------------
(* disconnectWallet and getBalance, of a wallet of the user (404 otherwise) *)

Find(r, u, a, pc) ==
    /\ req[r].pc = "idle"
    /\ wallet[a] = u
    /\ req' = [req EXCEPT ![r].pc = pc, ![r].user = u, ![r].address = a]
    /\ UNCHANGED <<wallet, activities, nonce, expired, historyVars>>

Disconnect(r, u, a) == Find(r, u, a, "logDisconnect")

LogDisconnect(r) ==
    /\ req[r].pc = "logDisconnect"
    /\ LogActivity(req[r].address, "disconnect")
    /\ Goto(r, "remove")
    /\ UNCHANGED <<wallet, nonce, expired, historyVars>>

\* Variant: nothing refers to a wallet.
RemoveUnchecked(r) ==
    /\ req[r].pc = "remove"
    /\ wallet' = [wallet EXCEPT ![req[r].address] = None]
    /\ Answer(r, "ok")
    /\ UNCHANGED <<activities, nonce, expired, historyVars>>

\* The DELETE is refused while an activity refers to the wallet: the foreign key has
\* no ON DELETE.
Remove(r) ==
    LET a == req[r].address IN
    /\ req[r].pc = "remove"
    /\ IF activities[a] = {}
       THEN wallet' = [wallet EXCEPT ![a] = None] /\ Answer(r, "ok")
       ELSE UNCHANGED wallet /\ Answer(r, "failed")
    /\ UNCHANGED <<activities, nonce, expired, historyVars>>

GetBalance(r, u, a) == Find(r, u, a, "balance")

ReadBalance(r) ==
    /\ req[r].pc = "balance"
    /\ Goto(r, "logBalance")
    /\ UNCHANGED <<wallet, activities, nonce, expired, historyVars>>

LogBalance(r) ==
    /\ req[r].pc = "logBalance"
    /\ LogActivity(req[r].address, "balance_check")
    /\ Answer(r, "ok")
    /\ UNCHANGED <<wallet, nonce, expired, historyVars>>

\* A statement or the chain fails, between any two steps: what was stored stays.
RequestFails(r) ==
    /\ req[r].pc \notin {"idle", "chain", "done"}
    /\ Answer(r, "failed")
    /\ UNCHANGED <<wallet, activities, nonce, expired, historyVars>>

------------------------------------------------------------------------------
Step(r) ==
    \/ \E u \in Users, a \in Addresses :
          \/ \E signed \in {0} \cup {n \in Nonces : issued[n] # None} : Connect(r, u, a, signed)
          \/ Disconnect(r, u, a)
          \/ GetBalance(r, u, a)
    \/ ChainAnswers(r)
    \/ ChainFails(r)
    \/ Store(r)
    \/ LogConnect(r)
    \/ LogDisconnect(r)
    \/ Remove(r)
    \/ ReadBalance(r)
    \/ LogBalance(r)
    \/ RequestFails(r)

Next ==
    \/ \E u \in Users, n \in Nonces : GenerateNonce(u, n)
    \/ \E n \in Nonces : Expire(n)
    \/ Restart
    \/ \E r \in Requests : Step(r)

Spec == Init /\ [][Next]_vars

------------------------------------------------------------------------------
(* Properties. *)

\* The types, and the foreign key of the activities.
TypeOK ==
    /\ \A a \in Addresses : activities[a] # {} => wallet[a] # None
    /\ wallet \in [Addresses -> Users \cup {None}]
    /\ activities \in [Addresses -> SUBSET Activities]
    /\ nonce \in [Users -> 0..MaxNonces]
    /\ expired \subseteq Nonces
    /\ req \in [Requests -> Request]
    /\ issued \in [Nonces -> Users \cup {None}]
    /\ used \in [Addresses -> 0..MaxNonces]
    /\ together \subseteq Users

\* A nonce connects one wallet, of the user it was issued to, although it is only
\* forgotten after the chain answered: it connects two only if two signatures of the
\* user were with the chain at a time.
NonceIsUsedOnce ==
    \A a, b \in Addresses :
       wallet[a] # None =>
          /\ used[a] \in Nonces /\ issued[used[a]] = wallet[a]
          /\ used[b] = used[a] => a = b \/ wallet[a] \in together

\* The wallets implement the registry: whatever requests overlap, fail or are lost in
\* a restart, an address gets a user once, one to whom a nonce was issued, and never
\* changes hands; disconnecting does not release it.
Registry == INSTANCE WalletRegistry WITH Challenges <- Nonces, owner <- wallet

ImplementsRegistry == Registry!Spec

==============================================================================
