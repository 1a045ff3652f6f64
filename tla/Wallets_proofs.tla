----------------------------- MODULE Wallets_proofs -----------------------------
(***************************************************************************)
(* Type correctness of Wallets, that a nonce connects one wallet, and that *)
(* the wallets implement WalletRegistry, for any sets of users, addresses  *)
(* and requests and any number of nonces.                                  *)
(*                                                                         *)
(* The invariant Sound says of each user's nonce, of each wallet and of    *)
(* each request with the chain or before its INSERT which nonces they hold *)
(* and that, of a user no two of whose signatures were with the chain at a *)
(* time, no two of them hold the same.                                     *)
(***************************************************************************)
EXTENDS Wallets, TLAPS

Pcs == {"idle", "chain", "insert", "log", "logDisconnect", "remove", "balance",
        "logBalance", "done"}

Carrying(r) == req[r].pc \in {"chain", "insert"}

\* Nothing but where it is, and the answer, of one request changes.
Moves(r, pc) ==
    /\ req' \in [Requests -> Request]
    /\ req'[r].pc = pc
    /\ \A q \in Requests : /\ req'[q].user = req[q].user
                           /\ req'[q].address = req[q].address
                           /\ req'[q].signed = req[q].signed
                           /\ req'[q].nonce = req[q].nonce
                           /\ q # r => req'[q].pc = req[q].pc

LEMMA GotoMoves ==
    ASSUME TypeOK, NEW r \in Requests, NEW pc \in Pcs, Goto(r, pc)
    PROVE  Moves(r, pc)
<1>1. req' = [req EXCEPT ![r].pc = pc] /\ req \in [Requests -> Request]
  BY DEF Goto, TypeOK
<1>2. req' = [req EXCEPT ![r] = [req[r] EXCEPT !.pc = pc]]
  BY <1>1
<1>3. req[r] \in Request
  BY <1>1
<1>4. [req[r] EXCEPT !.pc = pc] \in Request
  BY <1>3 DEF Request, Pcs
<1>5. req'[r] = [req[r] EXCEPT !.pc = pc] /\ \A q \in Requests : q # r => req'[q] = req[q]
  BY <1>1, <1>2
<1>6. req' \in [Requests -> Request]
  BY <1>1, <1>2, <1>4
<1>7. /\ req'[r].pc = pc
      /\ req'[r].user = req[r].user /\ req'[r].address = req[r].address
      /\ req'[r].signed = req[r].signed /\ req'[r].nonce = req[r].nonce
  BY <1>3, <1>5 DEF Request
<1>8. ASSUME NEW q \in Requests
      PROVE  /\ req'[q].user = req[q].user /\ req'[q].address = req[q].address
             /\ req'[q].signed = req[q].signed /\ req'[q].nonce = req[q].nonce
             /\ q # r => req'[q].pc = req[q].pc
  BY <1>5, <1>7
<1> QED
  BY <1>6, <1>7, <1>8 DEF Moves

LEMMA AnswerMoves ==
    ASSUME TypeOK, NEW r \in Requests, NEW a \in {"", "ok", "refused", "failed"}, Answer(r, a)
    PROVE  Moves(r, "done")
<1>1. req' = [req EXCEPT ![r].pc = "done", ![r].answer = a] /\ req \in [Requests -> Request]
  BY DEF Answer, TypeOK
<1>2. req' = [req EXCEPT ![r] = [req[r] EXCEPT !.pc = "done", !.answer = a]]
  BY <1>1
<1>3. req[r] \in Request
  BY <1>1
<1>4. [req[r] EXCEPT !.pc = "done", !.answer = a] \in Request
  BY <1>3 DEF Request
<1>5. req'[r] = [req[r] EXCEPT !.pc = "done", !.answer = a] /\ \A q \in Requests : q # r => req'[q] = req[q]
  BY <1>1, <1>2
<1>6. req' \in [Requests -> Request]
  BY <1>1, <1>2, <1>4
<1>7. /\ req'[r].pc = "done"
      /\ req'[r].user = req[r].user /\ req'[r].address = req[r].address
      /\ req'[r].signed = req[r].signed /\ req'[r].nonce = req[r].nonce
  BY <1>3, <1>5 DEF Request
<1>8. ASSUME NEW q \in Requests
      PROVE  /\ req'[q].user = req[q].user /\ req'[q].address = req[q].address
             /\ req'[q].signed = req[q].signed /\ req'[q].nonce = req[q].nonce
             /\ q # r => req'[q].pc = req[q].pc
  BY <1>5, <1>7
<1> QED
  BY <1>6, <1>7, <1>8 DEF Moves

\* A request to disconnect or for a balance names a wallet and carries no nonce.
LEMMA FindBegins ==
    ASSUME TypeOK, NEW r \in Requests, NEW u \in Users, NEW a \in Addresses,
           NEW pc \in {"logDisconnect", "balance"}, Find(r, u, a, pc)
    PROVE  /\ req' \in [Requests -> Request]
           /\ req'[r].pc = pc /\ req'[r].address = a
           /\ \A q \in Requests \ {r} : req'[q] = req[q]
<1>1. /\ req' = [req EXCEPT ![r].pc = pc, ![r].user = u, ![r].address = a]
      /\ req \in [Requests -> Request]
  BY DEF Find, TypeOK
<1>2. req' = [req EXCEPT ![r] = [req[r] EXCEPT !.pc = pc, !.user = u, !.address = a]]
  BY <1>1
<1>3. req[r] \in Request
  BY <1>1
<1>4. [req[r] EXCEPT !.pc = pc, !.user = u, !.address = a] \in Request
  BY <1>3 DEF Request
<1>5. req' \in [Requests -> Request]
  BY <1>1, <1>2, <1>4
<1>6. req'[r] = [req[r] EXCEPT !.pc = pc, !.user = u, !.address = a]
  BY <1>1, <1>2
<1>7. req'[r].pc = pc /\ req'[r].address = a
  BY <1>3, <1>6 DEF Request
<1> QED
  BY <1>1, <1>5, <1>7

LEMMA ConnectBegins ==
    ASSUME TypeOK, NEW r \in Requests, NEW u \in Users, NEW a \in Addresses,
           NEW signed \in {0} \cup Nonces, Connect(r, u, a, signed)
    PROVE  /\ req' \in [Requests -> Request]
           /\ req'[r].pc = "chain" /\ req'[r].user = u /\ req'[r].address = a
           /\ req'[r].nonce = nonce[u] /\ nonce[u] \in Nonces
           /\ \A q \in Requests \ {r} : req'[q] = req[q]
<1> DEFINE new == [pc |-> "chain", user |-> u, address |-> a, signed |-> signed,
                   nonce |-> nonce[u], answer |-> ""]
<1>1. req' = [req EXCEPT ![r] = new] /\ req \in [Requests -> Request]
  BY DEF Connect, TypeOK
<1>2. nonce[u] \in 0..MaxNonces /\ nonce[u] # 0
  BY DEF TypeOK, Connect, NonceIsValid
<1>3. nonce[u] \in Nonces /\ signed \in 0..MaxNonces
  BY <1>2, MaxNoncesAssumption DEF Nonces
<1>4. new \in Request
  BY <1>2, <1>3 DEF Request
<1> QED
  BY <1>1, <1>3, <1>4

LEMMA RestartMoves ==
    ASSUME TypeOK, Restart
    PROVE  /\ req' \in [Requests -> Request]
           /\ \A q \in Requests : req'[q].pc \in {"idle", "done"}
<1>1. req \in [Requests -> Request]
  BY DEF TypeOK
<1>2. req' = [r \in Requests |-> [req[r] EXCEPT !.pc = IF @ = "idle" THEN @ ELSE "done"]]
  BY DEF Restart
<1>3. ASSUME NEW q \in Requests PROVE req'[q] \in Request /\ req'[q].pc \in {"idle", "done"}
  <2>1. req'[q] = [req[q] EXCEPT !.pc = IF req[q].pc = "idle" THEN req[q].pc ELSE "done"]
    BY <1>2
  <2>2. req[q] \in Request
    BY <1>1
  <2> QED
    BY <2>1, <2>2 DEF Request
<1> QED
  BY <1>2, <1>3

------------------------------------------------------------------------------
(* Types. *)

LEMMA TypeInit == Init => TypeOK
<1> SUFFICES ASSUME Init PROVE TypeOK
  OBVIOUS
<1>0. 0 \in 0..MaxNonces
  BY MaxNoncesAssumption
<1>1. nonce \in [Users -> 0..MaxNonces] /\ used \in [Addresses -> 0..MaxNonces]
  BY <1>0 DEF Init
<1>2. req \in [Requests -> Request]
  <2> DEFINE first == [pc |-> "idle", user |-> None, address |-> None,
                       signed |-> 0, nonce |-> 0, answer |-> ""]
  <2>1. first \in Request
    BY <1>0 DEF Request
  <2>2. req = [r \in Requests |-> first]
    BY DEF Init
  <2> HIDE DEF first
  <2> QED
    BY <2>1, <2>2
<1> QED
  BY <1>1, <1>2 DEF Init, TypeOK, Nonces, Activities

\* The steps that change the requests only.
LEMMA TypeMoves ==
    ASSUME TypeOK, req' \in [Requests -> Request],
           UNCHANGED <<wallet, activities, expired, issued, used, together>>,
           nonce' \in [Users -> 0..MaxNonces]
    PROVE  TypeOK'
BY DEF TypeOK

LEMMA TypeLog ==
    ASSUME TypeOK, req' \in [Requests -> Request], NEW a \in Addresses,
           NEW kind \in Activities, LogActivity(a, kind),
           UNCHANGED <<wallet, nonce, expired, issued, used, together>>
    PROVE  TypeOK'
<1>1. activities' = [activities EXCEPT ![a] = activities[a] \cup {kind}] /\ wallet[a] # None
  BY DEF LogActivity
<1>2. activities' \in [Addresses -> SUBSET Activities]
  BY <1>1 DEF TypeOK
<1>3. \A b \in Addresses : activities'[b] # {} => wallet'[b] # None
  BY <1>1 DEF TypeOK
<1> QED
  BY <1>2, <1>3 DEF TypeOK

LEMMA UnusedNonce ==
    ASSUME TypeOK, NEW u \in Users, NEW n \in Nonces, GenerateNonce(u, n)
    PROVE  n \in 0..MaxNonces /\ n # 0 /\ issued[n] = None
<1>1. n \in 1..MaxNonces
  BY DEF Nonces
<1>2. issued[n] = None
  BY <1>1 DEF GenerateNonce, Nonces
<1> QED
  BY <1>1, <1>2, MaxNoncesAssumption

------------------------------------------------------------------------------
(* The invariant. *)

UserInv(u) == nonce[u] # 0 => issued[nonce[u]] = u

WalletInv(a) ==
    /\ wallet[a] = None => used[a] = 0
    /\ wallet[a] # None => used[a] \in Nonces /\ issued[used[a]] = wallet[a]

\* A request on its way to the INSERT has a nonce of its user, one that was
\* disconnecting has logged that: the DELETE to come is refused.
RequestInv(r) ==
    /\ Carrying(r) => /\ req[r].user \in Users /\ req[r].address \in Addresses
                      /\ req[r].nonce \in Nonces /\ issued[req[r].nonce] = req[r].user
    /\ req[r].pc \notin {"idle", "done"} => req[r].address \in Addresses
    /\ req[r].pc = "remove" => activities[req[r].address] # {}

Alone(u) == u \notin together

\* The nonces that a user, the wallets and the requests hold are different ones.
FreshNonce(u) == Alone(u) /\ nonce[u] # 0 => \A a \in Addresses : used[a] # nonce[u]

FreshRequest(r) ==
    Carrying(r) /\ Alone(req[r].user) =>
       /\ \A a \in Addresses : used[a] # req[r].nonce
       /\ req[r].pc = "insert" => nonce[req[r].user] # req[r].nonce
       /\ \A q \in Requests \ {r} :
             Carrying(q) /\ req[q].user = req[r].user => req[q].nonce # req[r].nonce

FreshWallet(a) ==
    wallet[a] # None /\ Alone(wallet[a]) => \A b \in Addresses : used[b] = used[a] => a = b

Sound ==
    /\ \A u \in Users : UserInv(u) /\ FreshNonce(u)
    /\ \A a \in Addresses : WalletInv(a) /\ FreshWallet(a)
    /\ \A r \in Requests : RequestInv(r) /\ FreshRequest(r)

LEMMA SoundInit == Init => Sound
<1> SUFFICES ASSUME Init PROVE Sound
  OBVIOUS
<1>1. \A u \in Users : UserInv(u) /\ FreshNonce(u)
  BY DEF Init, UserInv, FreshNonce
<1>2. \A a \in Addresses : WalletInv(a) /\ FreshWallet(a)
  BY DEF Init, WalletInv, FreshWallet
<1>3. \A r \in Requests : req[r].pc = "idle"
  BY DEF Init
<1>4. \A r \in Requests : RequestInv(r) /\ FreshRequest(r)
  BY <1>3 DEF RequestInv, FreshRequest, Carrying
<1> QED
  BY <1>1, <1>2, <1>4 DEF Sound

Same(r) ==
    /\ req'[r].pc = req[r].pc
    /\ req'[r].user = req[r].user /\ req'[r].address = req[r].address
    /\ req'[r].nonce = req[r].nonce

\* A request that carries no nonce, or not any more.
Lets(r) ==
    /\ req'[r].pc \notin {"chain", "insert"}
    /\ req'[r].pc \notin {"idle", "done"} => req'[r].address \in Addresses
    /\ req'[r].pc = "remove" => activities'[req'[r].address] # {}

\* Steps of requests that bring no nonce anywhere: all but Connect, the chain's
\* answer, Store and GenerateNonce.
LEMMA SoundLets ==
    ASSUME TypeOK, Sound, UNCHANGED <<wallet, issued, used, together>>,
           \A u \in Users : nonce'[u] \in {0, nonce[u]},
           \A a \in Addresses : activities[a] # {} => activities'[a] # {},
           \A r \in Requests : Same(r) \/ Lets(r)
    PROVE  Sound'
<1>1. ASSUME NEW u \in Users PROVE UserInv(u)' /\ FreshNonce(u)'
  BY <1>1 DEF Sound, UserInv, FreshNonce, Alone
<1>2. ASSUME NEW a \in Addresses PROVE WalletInv(a)' /\ FreshWallet(a)'
  BY <1>2 DEF Sound, WalletInv, FreshWallet, Alone
<1>3. ASSUME NEW r \in Requests PROVE RequestInv(r)'
  <2>1. CASE Same(r)
    BY <2>1 DEF Sound, RequestInv, Carrying, Same
  <2>2. CASE Lets(r)
    BY <2>2 DEF RequestInv, Carrying, Lets
  <2> QED
    BY <1>3, <2>1, <2>2
<1>4. ASSUME NEW r \in Requests PROVE FreshRequest(r)'
  <2> SUFFICES ASSUME Carrying(r)', Alone(req[r].user)'
               PROVE  FreshRequest(r)'
    <3>1. CASE Same(r)
      BY <3>1 DEF FreshRequest, Same
    <3>2. CASE Lets(r)
      BY <3>2 DEF FreshRequest, Lets, Carrying
    <3> QED
      BY <3>1, <3>2
  <2>1. Same(r) /\ Carrying(r) /\ Alone(req[r].user)
    BY DEF Lets, Carrying, Same, Alone
  <2>2. FreshRequest(r) /\ RequestInv(r) /\ req[r].user \in Users /\ req[r].nonce \in Nonces
    BY <2>1 DEF Sound, RequestInv
  <2>3. \A a \in Addresses : used'[a] # req'[r].nonce
    BY <2>1, <2>2 DEF FreshRequest, Same
  <2>4. req'[r].pc = "insert" => nonce'[req'[r].user] # req'[r].nonce
    BY <2>1, <2>2 DEF FreshRequest, Same, Nonces
  <2>5. ASSUME NEW q \in Requests \ {r}, Carrying(q)', req'[q].user = req'[r].user
        PROVE  req'[q].nonce # req'[r].nonce
    <3>1. Same(q) /\ Carrying(q)
      BY <2>5 DEF Lets, Carrying, Same
    <3> QED
      BY <2>1, <2>2, <2>5, <3>1 DEF FreshRequest, Same
  <2> QED
    BY <2>3, <2>4, <2>5 DEF FreshRequest
<1> QED
  BY <1>1, <1>2, <1>3, <1>4 DEF Sound

LEMMA SoundGenerate ==
    ASSUME TypeOK, Sound, NEW u \in Users, NEW n \in Nonces, GenerateNonce(u, n)
    PROVE  Sound'
<1>1. /\ nonce' = [nonce EXCEPT ![u] = n] /\ issued' = [issued EXCEPT ![n] = u]
      /\ UNCHANGED <<wallet, activities, req, used, together>>
      /\ issued[n] = None /\ n # 0
  BY UnusedNonce DEF GenerateNonce
<1>2. nonce'[u] = n /\ \A v \in Users : v # u => nonce'[v] = nonce[v]
  BY <1>1 DEF TypeOK
<1>3. issued'[n] = u /\ \A m \in Nonces : issued[m] # None => m # n /\ issued'[m] = issued[m]
  BY <1>1 DEF TypeOK
<1>4. \A a \in Addresses : used[a] # n
  BY <1>1, NoneAssumption DEF Sound, WalletInv, TypeOK
<1>5. \A r \in Requests : Carrying(r) => req[r].nonce # n
  BY <1>1, NoneAssumption DEF Sound, RequestInv
<1>6. ASSUME NEW v \in Users PROVE UserInv(v)' /\ FreshNonce(v)'
  <2>1. CASE v = u
    BY <1>1, <1>2, <1>3, <1>4, <2>1 DEF UserInv, FreshNonce
  <2>2. CASE v # u
    <3>1. nonce[v] \in 0..MaxNonces
      BY DEF TypeOK
    <3>2. nonce[v] # 0 => nonce[v] \in Nonces /\ issued[nonce[v]] = v /\ v # None
      BY <3>1, NoneAssumption, MaxNoncesAssumption DEF Nonces, Sound, UserInv
    <3> QED
      BY <1>1, <1>2, <1>3, <2>2, <3>2 DEF Sound, UserInv, FreshNonce, Alone
  <2> QED
    BY <2>1, <2>2
<1>7. ASSUME NEW a \in Addresses PROVE WalletInv(a)' /\ FreshWallet(a)'
  <2>1. WalletInv(a) /\ FreshWallet(a)
    BY DEF Sound
  <2> QED
    BY <1>1, <1>3, <2>1 DEF WalletInv, FreshWallet, Alone
<1>8. ASSUME NEW r \in Requests PROVE RequestInv(r)' /\ FreshRequest(r)'
  <2>1. RequestInv(r) /\ FreshRequest(r)
    BY DEF Sound
  <2>2. RequestInv(r)'
    BY <1>1, <1>3, <2>1, NoneAssumption DEF RequestInv, Carrying
  <2>3. Carrying(r) => nonce'[req[r].user] # req[r].nonce \/ nonce'[req[r].user] = nonce[req[r].user]
    BY <1>2, <1>5, <2>1 DEF RequestInv
  <2>4. FreshRequest(r)'
    BY <1>1, <2>1, <2>3 DEF FreshRequest, Carrying, Alone
  <2> QED
    BY <2>2, <2>4
<1> QED
  BY <1>6, <1>7, <1>8 DEF Sound

LEMMA SoundConnect ==
    ASSUME TypeOK, Sound, NEW r \in Requests, NEW u \in Users, NEW a \in Addresses,
           NEW signed \in {0} \cup Nonces, Connect(r, u, a, signed)
    PROVE  Sound'
<1> DEFINE n == nonce[u]
<1>1. /\ req'[r].pc = "chain" /\ req'[r].user = u /\ req'[r].address = a
      /\ req'[r].nonce = n /\ n \in Nonces
      /\ \A q \in Requests \ {r} : req'[q] = req[q]
  BY ConnectBegins
<1>2. /\ UNCHANGED <<wallet, activities, nonce, issued, used>>
      /\ together' = IF Verifying(u) = {} THEN together ELSE together \cup {u}
      /\ req[r].pc = "idle"
  BY DEF Connect
<1>3. \A v : Alone(v)' => Alone(v)
  BY <1>2 DEF Alone
<1>4. Alone(u)' => Verifying(u) = {}
  BY <1>2 DEF Alone
<1>5. n # 0 /\ issued[n] = u
  BY <1>1, MaxNoncesAssumption DEF Sound, UserInv, Nonces
<1>6. ASSUME NEW v \in Users PROVE UserInv(v)' /\ FreshNonce(v)'
  BY <1>2, <1>3 DEF Sound, UserInv, FreshNonce
<1>7. ASSUME NEW b \in Addresses PROVE WalletInv(b)' /\ FreshWallet(b)'
  BY <1>2, <1>3 DEF Sound, WalletInv, FreshWallet
<1>8. ASSUME NEW q \in Requests PROVE RequestInv(q)'
  <2>1. CASE q = r
    BY <1>1, <1>2, <1>5, <2>1 DEF RequestInv, Carrying
  <2>2. CASE q # r
    BY <1>1, <1>2, <2>2 DEF Sound, RequestInv, Carrying
  <2> QED
    BY <2>1, <2>2
\* A request of the same user that carries a signature has had the chain's answer.
<1>9. ASSUME NEW q \in Requests \ {r}, Carrying(q), req[q].user = u, Alone(u)'
      PROVE  req[q].nonce # n
  <2>1. req[q].pc = "insert"
    BY <1>4, <1>9 DEF Carrying, Verifying
  <2> QED
    BY <1>3, <1>9, <2>1 DEF Sound, FreshRequest
<1>10. ASSUME NEW q \in Requests PROVE FreshRequest(q)'
  <2>1. CASE q = r
    <3> SUFFICES ASSUME Alone(u)' PROVE FreshRequest(r)'
      BY <1>1, <2>1 DEF FreshRequest
    <3>1. \A b \in Addresses : used'[b] # req'[r].nonce
      BY <1>1, <1>2, <1>3, <1>5 DEF Sound, FreshNonce
    <3>2. \A p \in Requests \ {r} :
             Carrying(p)' /\ req'[p].user = req'[r].user => req'[p].nonce # req'[r].nonce
      BY <1>1, <1>9 DEF Carrying
    <3> QED
      BY <1>1, <3>1, <3>2 DEF FreshRequest
  <2>2. CASE q # r
    <3> SUFFICES ASSUME Carrying(q)', req'[q].user \notin together' PROVE FreshRequest(q)'
      BY DEF FreshRequest, Alone
    <3>1. req'[q] = req[q] /\ Carrying(q) /\ Alone(req[q].user)
      BY <1>1, <1>3, <2>2 DEF Carrying, Alone
    <3>2. FreshRequest(q)
      BY DEF Sound
    <3>3. ASSUME NEW p \in Requests \ {q}, Carrying(p)', req'[p].user = req'[q].user
          PROVE  req'[p].nonce # req'[q].nonce
      <4>1. CASE p = r
        <5>1. req[q].user = u /\ Alone(u)' /\ req'[p].nonce = n
          BY <1>1, <3>1, <3>3, <4>1 DEF Alone
        <5> QED
          BY <1>9, <2>2, <3>1, <5>1
      <4>2. CASE p # r
        BY <1>1, <3>1, <3>2, <3>3, <4>2 DEF FreshRequest, Carrying
      <4> QED
        BY <4>1, <4>2
    <3> QED
      BY <1>2, <3>1, <3>2, <3>3 DEF FreshRequest
  <2> QED
    BY <2>1, <2>2
<1> QED
  BY <1>6, <1>7, <1>8, <1>10 DEF Sound

\* The signature was right: the nonce is forgotten and the row is next.
LEMMA SoundAccepted ==
    ASSUME TypeOK, Sound, NEW r \in Requests, req[r].pc = "chain", Moves(r, "insert"),
           nonce' = [nonce EXCEPT ![req[r].user] = 0],
           UNCHANGED <<wallet, activities, issued, used, together>>
    PROVE  Sound'
<1>1. RequestInv(r) /\ FreshRequest(r) /\ req[r].user \in Users /\ req[r].nonce \in Nonces
  BY DEF Sound, RequestInv, Carrying
<1>2. /\ nonce'[req[r].user] = 0
      /\ \A v \in Users : nonce'[v] = 0 \/ nonce'[v] = nonce[v]
  BY <1>1 DEF TypeOK
<1>3. 0 \notin Nonces
  BY MaxNoncesAssumption DEF Nonces
<1>4. \A q \in Requests : /\ req'[q].user = req[q].user /\ req'[q].address = req[q].address
                          /\ req'[q].nonce = req[q].nonce
                          /\ Carrying(q)' <=> Carrying(q)
                          /\ q # r => req'[q].pc = req[q].pc
  BY DEF Moves, Carrying
<1>5. ASSUME NEW v \in Users PROVE UserInv(v)' /\ FreshNonce(v)'
  BY <1>2 DEF Sound, UserInv, FreshNonce, Alone
<1>6. ASSUME NEW b \in Addresses PROVE WalletInv(b)' /\ FreshWallet(b)'
  BY DEF Sound, WalletInv, FreshWallet, Alone
<1>7. ASSUME NEW q \in Requests PROVE RequestInv(q)'
  <2>1. CASE q = r
    BY <1>1, <1>4, <2>1 DEF RequestInv, Moves, Carrying
  <2>2. CASE q # r
    BY <1>4, <2>2 DEF Sound, RequestInv
  <2> QED
    BY <2>1, <2>2
<1>8. ASSUME NEW q \in Requests PROVE FreshRequest(q)'
  <2> SUFFICES ASSUME Carrying(q), req[q].user \notin together PROVE FreshRequest(q)'
    BY <1>4 DEF FreshRequest, Alone
  <2>1. FreshRequest(q) /\ RequestInv(q) /\ req[q].user \in Users /\ req[q].nonce \in Nonces
    BY DEF Sound, RequestInv
  <2>2. \A b \in Addresses : used'[b] # req'[q].nonce
    BY <1>4, <2>1 DEF FreshRequest, Alone
  <2>3. req'[q].pc = "insert" => nonce'[req'[q].user] # req'[q].nonce
    BY <1>2, <1>3, <1>4, <2>1 DEF FreshRequest, Alone
  <2>4. \A p \in Requests \ {q} :
           Carrying(p)' /\ req'[p].user = req'[q].user => req'[p].nonce # req'[q].nonce
    BY <1>4, <2>1 DEF FreshRequest, Alone
  <2> QED
    BY <2>2, <2>3, <2>4 DEF FreshRequest
<1> QED
  BY <1>5, <1>6, <1>7, <1>8 DEF Sound

LEMMA SoundStore ==
    ASSUME TypeOK, Sound, NEW r \in Requests, Store(r)
    PROVE  Sound'
<1> DEFINE a == req[r].address
           u == req[r].user
           n == req[r].nonce
<1>1. /\ req[r].pc = "insert" /\ wallet[a] = None
      /\ wallet' = [wallet EXCEPT ![a] = u]
      /\ used' = [used EXCEPT ![a] = n]
      /\ UNCHANGED <<activities, nonce, issued, together>>
      /\ Moves(r, "log")
  BY GotoMoves DEF Store, Pcs
<1>2. /\ a \in Addresses /\ u \in Users /\ n \in Nonces /\ issued[n] = u
      /\ FreshRequest(r) /\ Carrying(r)
  BY <1>1 DEF Sound, RequestInv, Carrying
<1>3. /\ wallet'[a] = u /\ used'[a] = n
      /\ \A b \in Addresses : b # a => wallet'[b] = wallet[b] /\ used'[b] = used[b]
  BY <1>1, <1>2 DEF TypeOK
<1>4. \A q \in Requests : /\ req'[q].user = req[q].user /\ req'[q].address = req[q].address
                          /\ req'[q].nonce = req[q].nonce
                          /\ Carrying(q)' => Carrying(q) /\ q # r
                          /\ q # r => req'[q].pc = req[q].pc
  BY <1>1 DEF Moves, Carrying
<1>5. n # 0 /\ u # None
  BY <1>2, MaxNoncesAssumption, NoneAssumption DEF Nonces
<1>6. u \notin together => \A b \in Addresses : used[b] # n
  BY <1>2 DEF FreshRequest, Alone
<1>7. ASSUME NEW v \in Users PROVE UserInv(v)' /\ FreshNonce(v)'
  <2>1. UserInv(v) /\ FreshNonce(v)
    BY DEF Sound
  <2>2. v \notin together /\ nonce[v] # 0 => nonce[v] # n
    BY <1>1, <1>2, <2>1 DEF UserInv, FreshRequest, Alone
  <2> QED
    BY <1>1, <1>3, <2>1, <2>2 DEF UserInv, FreshNonce, Alone
<1>8. ASSUME NEW b \in Addresses PROVE WalletInv(b)' /\ FreshWallet(b)'
  <2>1. WalletInv(b) /\ FreshWallet(b)
    BY DEF Sound
  <2>2. WalletInv(b)'
    BY <1>1, <1>2, <1>3, <1>5, <2>1 DEF WalletInv
  <2>3. CASE b = a
    BY <1>1, <1>2, <1>3, <1>6, <2>2, <2>3 DEF FreshWallet, Alone
  <2>4. CASE b # a
    <3>1. used[b] = n /\ wallet[b] # None => wallet[b] = u
      BY <1>2, <2>1 DEF WalletInv
    <3> QED
      BY <1>1, <1>3, <1>6, <2>1, <2>2, <2>4, <3>1 DEF FreshWallet, Alone
  <2> QED
    BY <2>2, <2>3, <2>4
<1>9. ASSUME NEW q \in Requests PROVE RequestInv(q)'
  <2>1. RequestInv(q)
    BY DEF Sound
  <2>2. CASE q = r
    BY <1>1, <1>2, <1>4, <2>2 DEF RequestInv, Moves
  <2>3. CASE q # r
    BY <1>1, <1>4, <2>1, <2>3 DEF RequestInv
  <2> QED
    BY <2>2, <2>3
<1>10. ASSUME NEW q \in Requests PROVE FreshRequest(q)'
  <2> SUFFICES ASSUME Carrying(q)', req[q].user \notin together PROVE FreshRequest(q)'
    BY <1>1, <1>4 DEF FreshRequest, Alone
  <2>1. FreshRequest(q) /\ RequestInv(q) /\ Carrying(q) /\ q # r
    BY <1>4 DEF Sound
  <2>2. n # req[q].nonce
    BY <1>2, <2>1 DEF FreshRequest, RequestInv, Alone
  <2>3. \A b \in Addresses : used'[b] # req'[q].nonce
    BY <1>3, <1>4, <2>1, <2>2 DEF FreshRequest, Alone
  <2>4. req'[q].pc = "insert" => nonce'[req'[q].user] # req'[q].nonce
    BY <1>1, <1>4, <2>1 DEF FreshRequest, Alone
  <2>5. \A p \in Requests \ {q} :
           Carrying(p)' /\ req'[p].user = req'[q].user => req'[p].nonce # req'[q].nonce
    BY <1>4, <2>1 DEF FreshRequest, Alone
  <2> QED
    BY <2>3, <2>4, <2>5 DEF FreshRequest
<1> QED
  BY <1>7, <1>8, <1>9, <1>10 DEF Sound

------------------------------------------------------------------------------
(* The steps. *)

Inv == TypeOK /\ Sound

\* A request that goes on to `pc', and carries nothing there.
LEMMA InvMoves ==
    ASSUME Inv, NEW r \in Requests, NEW pc \in Pcs \ {"chain", "insert", "remove"}, Moves(r, pc),
           pc = "done" \/ req[r].pc \notin {"idle", "done"},
           UNCHANGED <<wallet, activities, expired, issued, used, together>>,
           nonce' \in [Users -> 0..MaxNonces], \A v \in Users : nonce'[v] \in {0, nonce[v]}
    PROVE  Inv'
<1>1. TypeOK'
  BY TypeMoves DEF Inv, Moves
<1>2. ASSUME NEW q \in Requests PROVE Same(q) \/ Lets(q)
  <2>1. RequestInv(r)
    BY DEF Inv, Sound
  <2> QED
    BY <2>1 DEF Moves, Same, Lets, RequestInv
<1>3. Sound'
  BY <1>2, SoundLets DEF Inv
<1> QED
  BY <1>1, <1>3 DEF Inv

LEMMA InvLogs ==
    ASSUME Inv, NEW r \in Requests, NEW pc \in {"remove", "done"}, Moves(r, pc),
           req[r].pc \notin {"idle", "done"},
           NEW kind \in Activities, LogActivity(req[r].address, kind),
           UNCHANGED <<wallet, nonce, expired, issued, used, together>>
    PROVE  Inv'
<1> DEFINE a == req[r].address
<1>1. a \in Addresses
  BY DEF Inv, Sound, RequestInv
<1>2. TypeOK'
  BY <1>1, TypeLog DEF Inv, Moves
<1>3. activities' = [activities EXCEPT ![a] = activities[a] \cup {kind}]
  BY DEF LogActivity
<1>4. activities \in [Addresses -> SUBSET Activities]
  BY DEF Inv, TypeOK
<1>5. activities'[a] # {} /\ \A b \in Addresses : activities[b] # {} => activities'[b] # {}
  BY <1>1, <1>3, <1>4
<1>6. \A q \in Requests : Same(q) \/ Lets(q)
  BY <1>1, <1>5 DEF Moves, Same, Lets
<1>7. Sound'
  BY <1>5, <1>6, SoundLets DEF Inv
<1> QED
  BY <1>2, <1>7 DEF Inv

LEMMA InvFind ==
    ASSUME Inv, NEW r \in Requests, NEW u \in Users, NEW a \in Addresses,
           NEW pc \in {"logDisconnect", "balance"}, Find(r, u, a, pc)
    PROVE  Inv'
<1>1. /\ req' \in [Requests -> Request]
      /\ req'[r].pc = pc /\ req'[r].address = a
      /\ \A q \in Requests \ {r} : req'[q] = req[q]
  BY FindBegins DEF Inv
<1>2. UNCHANGED <<wallet, activities, nonce, expired, issued, used, together>>
  BY DEF Find, historyVars
<1>3. TypeOK'
  BY <1>1, <1>2 DEF Inv, TypeOK
<1>4. \A q \in Requests : Same(q) \/ Lets(q)
  BY <1>1 DEF Same, Lets
<1>5. Sound'
  BY <1>2, <1>4, SoundLets DEF Inv
<1> QED
  BY <1>3, <1>5 DEF Inv

LEMMA InvChainAnswers ==
    ASSUME Inv, NEW r \in Requests, ChainAnswers(r)
    PROVE  Inv'
<1>1. /\ req[r].pc = "chain"
      /\ nonce' = [nonce EXCEPT ![req[r].user] = 0]
      /\ UNCHANGED <<wallet, activities, expired, issued, used, together>>
  BY DEF ChainAnswers, historyVars
<1>2. req[r].user \in Users
  BY <1>1 DEF Inv, Sound, RequestInv, Carrying
<1>3. 0 \in 0..MaxNonces
  BY MaxNoncesAssumption
<1>4. nonce' \in [Users -> 0..MaxNonces] /\ \A v \in Users : nonce'[v] \in {0, nonce[v]}
  BY <1>1, <1>2, <1>3 DEF Inv, TypeOK
<1>5. CASE Goto(r, "insert")
  <2>1. Moves(r, "insert")
    BY <1>5, GotoMoves DEF Inv, Pcs
  <2>2. TypeOK'
    BY <1>1, <1>4, <2>1, TypeMoves DEF Inv, Moves
  <2> QED
    BY <1>1, <2>1, <2>2, SoundAccepted DEF Inv
<1>6. CASE Answer(r, "refused")
  <2>1. Moves(r, "done")
    BY <1>6, AnswerMoves DEF Inv
  <2> QED
    BY <1>1, <1>4, <2>1, InvMoves DEF Pcs
<1> QED
  BY <1>5, <1>6 DEF ChainAnswers

LEMMA InvStore ==
    ASSUME Inv, NEW r \in Requests, Store(r)
    PROVE  Inv'
<1>1. /\ req[r].pc = "insert"
      /\ wallet' = [wallet EXCEPT ![req[r].address] = req[r].user]
      /\ used' = [used EXCEPT ![req[r].address] = req[r].nonce]
      /\ UNCHANGED <<activities, nonce, expired, issued, together>>
      /\ Goto(r, "log")
  BY DEF Store
<1>2. Moves(r, "log")
  BY <1>1, GotoMoves DEF Inv, Pcs
<1>3. /\ req[r].user \in Users /\ req[r].address \in Addresses /\ req[r].nonce \in 0..MaxNonces
  BY <1>1, MaxNoncesAssumption DEF Inv, Sound, RequestInv, Carrying, Nonces
<1>4. wallet' \in [Addresses -> Users \cup {None}] /\ used' \in [Addresses -> 0..MaxNonces]
  BY <1>1, <1>3 DEF Inv, TypeOK
<1>5. \A b \in Addresses : activities'[b] # {} => wallet'[b] # None
  BY <1>1, <1>3, NoneAssumption DEF Inv, TypeOK
<1>6. TypeOK'
  BY <1>1, <1>2, <1>4, <1>5 DEF Inv, TypeOK, Moves
<1> QED
  BY <1>6, SoundStore DEF Inv

\* The DELETE always fails: an activity, of the disconnecting at least, is there.
LEMMA RemoveIsRefused ==
    ASSUME Inv, NEW r \in Requests, Remove(r)
    PROVE  Answer(r, "failed") /\ UNCHANGED wallet
BY DEF Inv, Sound, RequestInv, Remove

LEMMA InvGenerate ==
    ASSUME Inv, NEW u \in Users, NEW n \in Nonces, GenerateNonce(u, n)
    PROVE  Inv'
<1>1. n \in 0..MaxNonces
  BY UnusedNonce DEF Inv
<1>2. TypeOK'
  BY <1>1 DEF Inv, TypeOK, GenerateNonce
<1> QED
  BY <1>2, SoundGenerate DEF Inv

LEMMA InvConnect ==
    ASSUME Inv, NEW r \in Requests, NEW u \in Users, NEW a \in Addresses,
           NEW signed \in {0} \cup Nonces, Connect(r, u, a, signed)
    PROVE  Inv'
<1>1. req' \in [Requests -> Request]
  BY ConnectBegins DEF Inv
<1>2. TypeOK'
  BY <1>1 DEF Inv, TypeOK, Connect
<1> QED
  BY <1>2, SoundConnect DEF Inv

LEMMA InvRestart == Inv /\ Restart => Inv'
<1> SUFFICES ASSUME Inv, Restart PROVE Inv'
  OBVIOUS
<1>1. req' \in [Requests -> Request] /\ \A q \in Requests : req'[q].pc \in {"idle", "done"}
  BY RestartMoves DEF Inv
<1>2. nonce' = [u \in Users |-> 0]
      /\ UNCHANGED <<wallet, activities, expired, issued, used, together>>
  BY DEF Restart, historyVars
<1>3. 0 \in 0..MaxNonces
  BY MaxNoncesAssumption
<1>4. nonce' \in [Users -> 0..MaxNonces] /\ \A u \in Users : nonce'[u] = 0
  BY <1>2, <1>3
<1>5. TypeOK'
  BY <1>1, <1>2, <1>4, TypeMoves DEF Inv
<1>6. \A q \in Requests : Lets(q)
  BY <1>1 DEF Lets
<1> QED
  BY <1>2, <1>4, <1>5, <1>6, SoundLets DEF Inv

LEMMA InvStep ==
    ASSUME Inv, NEW r \in Requests, Step(r)
    PROVE  Inv'
<1>1. ASSUME NEW u \in Users, NEW a \in Addresses,
             NEW signed \in {0} \cup {n \in Nonces : issued[n] # None}, Connect(r, u, a, signed)
      PROVE  Inv'
  BY <1>1, InvConnect
<1>2. ASSUME NEW u \in Users, NEW a \in Addresses, Disconnect(r, u, a) \/ GetBalance(r, u, a)
      PROVE  Inv'
  BY <1>2, InvFind DEF Disconnect, GetBalance
<1>3. CASE ChainAnswers(r)
  BY <1>3, InvChainAnswers
<1>4. CASE Store(r)
  BY <1>4, InvStore
<1>5. CASE LogConnect(r) \/ LogBalance(r)
  <2>1. Moves(r, "done")
    BY <1>5, AnswerMoves DEF Inv, LogConnect, LogBalance
  <2> QED
    BY <1>5, <2>1, InvLogs DEF LogConnect, LogBalance, Activities, historyVars
<1>6. CASE LogDisconnect(r)
  <2>1. Moves(r, "remove")
    BY <1>6, GotoMoves DEF Inv, LogDisconnect, Pcs
  <2> QED
    BY <1>6, <2>1, InvLogs DEF LogDisconnect, Activities, historyVars
<1>7. CASE ChainFails(r) \/ Remove(r) \/ RequestFails(r)
  <2>1. /\ Answer(r, "refused") \/ Answer(r, "failed")
        /\ UNCHANGED <<wallet, activities, nonce, expired, issued, used, together>>
    BY <1>7, RemoveIsRefused DEF ChainFails, RequestFails, Remove, historyVars
  <2>2. Moves(r, "done") /\ nonce \in [Users -> 0..MaxNonces]
    BY <2>1, AnswerMoves DEF Inv, TypeOK
  <2> QED
    BY <2>1, <2>2, InvMoves DEF Pcs
<1>8. CASE ReadBalance(r)
  <2>1. Moves(r, "logBalance") /\ nonce \in [Users -> 0..MaxNonces]
    BY <1>8, GotoMoves DEF Inv, TypeOK, ReadBalance, Pcs
  <2> QED
    BY <1>8, <2>1, InvMoves DEF ReadBalance, Pcs, historyVars
<1> QED
  BY <1>1, <1>2, <1>3, <1>4, <1>5, <1>6, <1>7, <1>8 DEF Step

LEMMA InvNext == Inv /\ [Next]_vars => Inv'
<1> SUFFICES ASSUME Inv, [Next]_vars PROVE Inv'
  OBVIOUS
<1>1. ASSUME NEW u \in Users, NEW n \in Nonces, GenerateNonce(u, n) PROVE Inv'
  BY <1>1, InvGenerate
<1>2. ASSUME NEW n \in Nonces, Expire(n) PROVE Inv'
  <2>1. /\ UNCHANGED <<wallet, activities, nonce, req, issued, used, together>>
        /\ expired' = expired \cup {n}
    BY <1>2 DEF Expire, historyVars
  <2>2. TypeOK'
    BY <2>1 DEF Inv, TypeOK
  <2>3. \A q \in Requests : Same(q)
    BY <2>1 DEF Same
  <2> QED
    BY <2>1, <2>2, <2>3, SoundLets DEF Inv
<1>3. CASE Restart
  BY <1>3, InvRestart
<1>4. ASSUME NEW r \in Requests, Step(r) PROVE Inv'
  BY <1>4, InvStep
<1>5. CASE UNCHANGED vars
  <2>1. UNCHANGED <<wallet, activities, nonce, expired, req, issued, used, together>>
    BY <1>5 DEF vars
  <2>2. TypeOK'
    BY <2>1 DEF Inv, TypeOK
  <2>3. \A q \in Requests : Same(q)
    BY <2>1 DEF Same
  <2> QED
    BY <2>1, <2>2, <2>3, SoundLets DEF Inv
<1> QED
  BY <1>1, <1>2, <1>3, <1>4, <1>5 DEF Next

LEMMA InvHolds == Spec => []Inv
<1>1. Init => Inv
  BY TypeInit, SoundInit DEF Inv
<1> QED
  BY <1>1, InvNext, PTL DEF Spec

\* TypeOK, with the foreign key of the activities (wallet.service.ts:227-235), holds
\* whatever requests overlap, fail or are lost in a restart.
THEOREM TypeCorrect == Spec => []TypeOK
<1>1. Inv => TypeOK
  BY DEF Inv
<1> QED
  BY <1>1, InvHolds, PTL

\* A nonce, forgotten only after an await (wallet.service.ts:101-111), connects two
\* addresses only if two signatures of its user were with the chain at a time.
THEOREM NonceIsUsedOnceHolds == Spec => []NonceIsUsedOnce
<1>1. Inv => NonceIsUsedOnce
  BY DEF Inv, Sound, WalletInv, FreshWallet, NonceIsUsedOnce, Alone
<1> QED
  BY <1>1, InvHolds, PTL

------------------------------------------------------------------------------
(* The refinement. *)

RegistryVars == <<issued, wallet>>

LEMMA RegistryInit == Init => Registry!Init
BY DEF Init, Registry!Init

\* A signature is checked against a nonce issued to the user that stores the wallet.
LEMMA StoreClaims ==
    ASSUME Inv, NEW r \in Requests, Store(r)
    PROVE  Registry!Claim(req[r].user, req[r].address)
           /\ req[r].user \in Users /\ req[r].address \in Addresses
<1>1. /\ req[r].user \in Users /\ req[r].address \in Addresses
      /\ req[r].nonce \in Nonces /\ issued[req[r].nonce] = req[r].user
  BY DEF Inv, Sound, RequestInv, Carrying, Store
<1> QED
  BY <1>1 DEF Store, Registry!Claim

LEMMA GenerateIssues ==
    ASSUME Inv, NEW u \in Users, NEW n \in Nonces, GenerateNonce(u, n)
    PROVE  Registry!Issue(u, n)
BY UnusedNonce DEF Inv, GenerateNonce, Registry!Issue

LEMMA StepImplements ==
    ASSUME Inv, NEW r \in Requests, Step(r), ~ Store(r)
    PROVE  UNCHANGED RegistryVars
<1>1. ASSUME NEW u \in Users, NEW a \in Addresses, NEW signed, Connect(r, u, a, signed)
      PROVE  UNCHANGED RegistryVars
  BY <1>1 DEF Connect, RegistryVars
<1>2. ASSUME NEW u \in Users, NEW a \in Addresses, Disconnect(r, u, a) \/ GetBalance(r, u, a)
      PROVE  UNCHANGED RegistryVars
  BY <1>2 DEF Disconnect, GetBalance, Find, RegistryVars, historyVars
<1>3. CASE ChainAnswers(r) \/ ChainFails(r) \/ RequestFails(r)
  BY <1>3 DEF ChainAnswers, ChainFails, RequestFails, RegistryVars, historyVars
<1>4. CASE LogConnect(r) \/ LogBalance(r) \/ LogDisconnect(r) \/ ReadBalance(r)
  BY <1>4 DEF LogConnect, LogBalance, LogDisconnect, ReadBalance, RegistryVars, historyVars
<1>5. CASE Remove(r)
  BY <1>5, RemoveIsRefused DEF Remove, RegistryVars, historyVars
<1> QED
  BY <1>1, <1>2, <1>3, <1>4, <1>5 DEF Step

LEMMA NextImplements == Inv /\ [Next]_vars => [Registry!Next]_(Registry!vars)
<1> SUFFICES ASSUME Inv, [Next]_vars PROVE Registry!Next \/ UNCHANGED RegistryVars
  BY DEF Registry!vars, RegistryVars
<1>1. ASSUME NEW u \in Users, NEW n \in Nonces, GenerateNonce(u, n) PROVE Registry!Next
  BY <1>1, GenerateIssues DEF Registry!Next
<1>2. ASSUME NEW n \in Nonces, Expire(n) PROVE UNCHANGED RegistryVars
  BY <1>2 DEF Expire, RegistryVars, historyVars
<1>3. CASE Restart
  BY <1>3 DEF Restart, RegistryVars, historyVars
<1>4. ASSUME NEW r \in Requests, Store(r) PROVE Registry!Next
  BY <1>4, StoreClaims DEF Registry!Next
<1>5. ASSUME NEW r \in Requests, Step(r), ~ Store(r) PROVE UNCHANGED RegistryVars
  BY <1>5, StepImplements
<1>6. CASE UNCHANGED vars
  BY <1>6 DEF vars, RegistryVars
<1> QED
  BY <1>1, <1>2, <1>3, <1>4, <1>5, <1>6 DEF Next

\* WalletService implements the registry: an address gets a user once, one to whom a
\* nonce was issued, and keeps it (wallet.service.ts:117-166).
THEOREM ImplementsRegistryHolds == Spec => ImplementsRegistry
<1>1. Init => Registry!Init
  BY RegistryInit
<1>2. Inv /\ [Next]_vars => [Registry!Next]_(Registry!vars)
  BY NextImplements
<1> QED
  BY <1>1, <1>2, InvHolds, PTL DEF Spec, ImplementsRegistry, Registry!Spec

==============================================================================
