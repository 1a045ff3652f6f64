----------------------- MODULE MessageGateway_proofs -----------------------
(***************************************************************************)
(* Theorems about MessageGateway, for any users, sockets, conversations    *)
(* and number of timers.                                                   *)
(***************************************************************************)
EXTENDS MessageGateway, TLAPS

(***************************************************************************)
(* Type correctness.                                                       *)
(***************************************************************************)
LEMMA DroppedType ==
  ASSUME GatewayTypeOK, socket' \in [Sockets -> SocketState], NEW s \in Sockets, Dropped(s)
  PROVE  GatewayTypeOK'
  <1>u. Owner[s] \in Users
    BY OwnerAssumption
  <1>1. StartsTimer(s) \in BOOLEAN
    BY DEF StartsTimer
  <1>2. clients' \in [Users -> SUBSET Sockets] /\ pending' \in [Users -> Nat]
    BY <1>u DEF GatewayTypeOK, Dropped, DropClient
  <1>3. handle' \in [Users -> BOOLEAN]
    BY <1>u, <1>1 DEF GatewayTypeOK, Dropped, DropClient
  <1>4. raced' \in [Users -> BOOLEAN]
    BY <1>u DEF GatewayTypeOK, Dropped, DropClient, Race
  <1>5. typing' \in [Conversations -> SUBSET Users]
    BY DEF GatewayTypeOK, Dropped, CleanTyping
  <1> QED
    BY <1>2, <1>3, <1>4, <1>5 DEF GatewayTypeOK, Dropped, DropClient

LEMMA NextType == GatewayTypeOK /\ [GatewayNext]_gatewayVars => GatewayTypeOK'
  <1> SUFFICES ASSUME GatewayTypeOK, [GatewayNext]_gatewayVars
               PROVE  GatewayTypeOK'
    OBVIOUS
  <1>u. \A s \in Sockets : Owner[s] \in Users
    BY OwnerAssumption
  <1>1. ASSUME NEW s \in Sockets, StoreClient(s)
        PROVE  GatewayTypeOK'
    BY <1>1, <1>u DEF GatewayTypeOK, StoreClient, SocketState
  <1>2. ASSUME NEW s \in Sockets, Joined(s)
        PROVE  GatewayTypeOK'
    <2>1. socket' \in [Sockets -> SocketState] /\ told' \in [Users -> {"nothing", "online", "offline"}]
      BY <1>2, <1>u DEF GatewayTypeOK, Joined, SocketState
    <2>2. pending' \in [Users -> Nat] /\ handle' \in [Users -> BOOLEAN]
      BY <1>2, <1>u DEF GatewayTypeOK, Joined, ClearTimer
    <2> QED
      BY <1>2, <2>1, <2>2 DEF GatewayTypeOK, Joined
  <1>3. ASSUME NEW s \in Sockets, JoinFails(s)
        PROVE  GatewayTypeOK'
    <2>1. socket' \in [Sockets -> SocketState]
      BY <1>3 DEF GatewayTypeOK, JoinFails, SocketState
    <2> QED
      BY <1>3, <2>1, DroppedType DEF JoinFails, GatewayTypeOK
  <1>4. ASSUME NEW s \in Sockets, Disconnect(s)
        PROVE  GatewayTypeOK'
    <2>1. socket' \in [Sockets -> SocketState]
      BY <1>4 DEF GatewayTypeOK, Disconnect, SocketState
    <2> QED
      BY <1>4, <2>1, DroppedType DEF Disconnect
  <1>5. ASSUME NEW s \in Sockets, NEW c \in Conversations, NEW isTyping \in BOOLEAN,
               Typing(s, c, isTyping)
        PROVE  GatewayTypeOK'
    BY <1>5, <1>u DEF GatewayTypeOK, Typing
  <1>6. ASSUME NEW u \in Users, TimerFires(u)
        PROVE  GatewayTypeOK'
    <2>1. pending' \in [Users -> Nat]
      BY <1>6 DEF GatewayTypeOK, TimerFires
    <2>2. raced' \in [Users -> BOOLEAN]
      BY <1>6 DEF GatewayTypeOK, TimerFires, Race
    <2> QED
      BY <1>6, <2>1, <2>2 DEF GatewayTypeOK, TimerFires
  <1>7. CASE UNCHANGED gatewayVars
    BY <1>7 DEF GatewayTypeOK, gatewayVars
  <1> QED
    BY <1>1, <1>2, <1>3, <1>4, <1>5, <1>6, <1>7 DEF GatewayNext

\* In every reachable state the gateway's variables have their types.
THEOREM TypeCorrect == GatewaySpec => []GatewayTypeOK
  <1>1. GatewayInit => GatewayTypeOK
    BY DEF GatewayInit, GatewayTypeOK, SocketState
  <1> QED
    BY <1>1, NextType, PTL DEF GatewaySpec

(***************************************************************************)
(* The bookkeeping of a user to whom no overlap has happened.  The three   *)
(* properties need each other: a timer empties the entry, so it must only  *)
(* fire when no socket is left; a disconnection starts a timer when the    *)
(* entry is empty, so the entry must be the user's sockets.  Two more      *)
(* facts make them inductive: no handler of such a user is still awaiting  *)
(* for a client that left, and a nonempty set is in the map.               *)
(***************************************************************************)
NoOpen(u) == \A s \in SocketsOf(u) : socket[s] # "open"

Sound(u) ==
    /\ clients[u] = LiveClients(u)
    /\ pending[u] > 0 => pending[u] = 1 /\ handle[u] /\ NoOpen(u)
    /\ told[u] = "online" /\ LiveClients(u) = {} => pending[u] = 1
    /\ told[u] = "offline" => NoOpen(u)
    /\ \A s \in SocketsOf(u) : socket[s] # "left"

GatewayInv ==
    \A u \in Users : /\ clients[u] # {} => u \in tracked
                     /\ ~raced[u] => Sound(u)

\* A step that concerns another user's sockets and state only.
LEMMA OthersSound ==
  ASSUME GatewayTypeOK, NEW u \in Users, Sound(u),
         \A s \in SocketsOf(u) : socket'[s] = socket[s],
         clients'[u] = clients[u], pending'[u] = pending[u], handle'[u] = handle[u],
         told'[u] = told[u]
  PROVE  Sound(u)'
  BY DEF Sound, LiveClients, NoOpen, SocketsOf

LEMMA DroppedSound ==
  ASSUME GatewayTypeOK, GatewayInv, NEW s \in Sockets, Dropped(s),
         socket[s] \in {"joining", "open"}, NEW state \in {"unused", "left"},
         socket' = [socket EXCEPT ![s] = state]
  PROVE  GatewayInv'
  <1> DEFINE u == Owner[s]
  <1>u. u \in Users /\ s \in SocketsOf(u) /\ \A v \in Users \ {u} : s \notin SocketsOf(v)
    BY OwnerAssumption DEF SocketsOf
  <1>1. \A v \in Users : clients'[v] # {} => v \in tracked'
    BY <1>u DEF GatewayTypeOK, GatewayInv, Dropped, DropClient
  <1>2. ASSUME NEW v \in Users \ {u}, ~raced'[v]
        PROVE  Sound(v)'
    <2>1. ~raced[v] /\ Sound(v)
      BY <1>2, <1>u DEF GatewayTypeOK, GatewayInv, Dropped, DropClient, Race
    <2> QED
      BY <1>u, <1>2, <2>1, OthersSound DEF GatewayTypeOK, Dropped, DropClient
  <1>3. ASSUME ~raced'[u]
        PROVE  Sound(u)'
    <2>1. /\ ~raced[u] /\ socket'[s] # "left"
          /\ StartsTimer(s) => pending[u] = 0
      BY <1>3, <1>u DEF GatewayTypeOK, Dropped, DropClient, Race
    <2>2. Sound(u) /\ state = "unused" /\ s \in LiveClients(u)
      BY <1>u, <2>1 DEF GatewayTypeOK, GatewayInv, LiveClients
    <2>3. LiveClients(u)' = LiveClients(u) \ {s} /\ clients'[u] = LiveClients(u) \ {s}
      BY <1>u, <2>2 DEF GatewayTypeOK, LiveClients, SocketsOf, Sound, Dropped, DropClient
    <2>4. StartsTimer(s) <=> LiveClients(u)' = {}
      BY <1>u, <2>2, <2>3 DEF StartsTimer, Sound, GatewayInv
    <2>5. \A t \in SocketsOf(u) : socket'[t] # "left" /\ (socket'[t] = "open" => socket[t] = "open")
      BY <2>2 DEF GatewayTypeOK, Sound, SocketsOf
    <2>6. CASE StartsTimer(s)
      <3>1. pending'[u] = 1 /\ handle'[u]
        <4>1. pending[u] = 0 /\ pending' = [pending EXCEPT ![u] = IF StartsTimer(s) THEN @ + 1 ELSE @]
          BY <2>1, <2>6 DEF Dropped, DropClient
        <4>2. handle' = [handle EXCEPT ![u] = @ \/ StartsTimer(s)]
          BY DEF Dropped, DropClient
        <4>3. pending'[u] = 1
          BY <1>u, <2>6, <4>1 DEF GatewayTypeOK
        <4>4. handle'[u]
          BY <1>u, <2>6, <4>2 DEF GatewayTypeOK
        <4> QED
          BY <4>3, <4>4
      <3>2. NoOpen(u)'
        BY <2>4, <2>6 DEF NoOpen, LiveClients
      <3> QED
        BY <1>u, <2>3, <2>5, <3>1, <3>2 DEF Sound, Dropped, DropClient, SocketsOf
    <2>7. CASE ~StartsTimer(s)
      <3>1. pending'[u] = pending[u] /\ handle'[u] = handle[u] /\ told' = told
        BY <1>u, <2>7 DEF GatewayTypeOK, Dropped, DropClient
      <3>2. NoOpen(u) => NoOpen(u)'
        BY <2>5 DEF NoOpen, SocketsOf
      <3> QED
        BY <2>2, <2>3, <2>4, <2>5, <2>7, <3>1, <3>2 DEF Sound, SocketsOf
    <2> QED
      BY <2>6, <2>7
  <1> QED
    BY <1>1, <1>2, <1>3 DEF GatewayInv

LEMMA NextSound == GatewayTypeOK /\ GatewayInv /\ [GatewayNext]_gatewayVars => GatewayInv'
  <1> SUFFICES ASSUME GatewayTypeOK, GatewayInv, [GatewayNext]_gatewayVars
               PROVE  GatewayInv'
    OBVIOUS
  <1>u. \A s \in Sockets : /\ Owner[s] \in Users
                           /\ s \in SocketsOf(Owner[s])
                           /\ \A v \in Users \ {Owner[s]} : s \notin SocketsOf(v)
    BY OwnerAssumption DEF SocketsOf
  <1>1. ASSUME NEW s \in Sockets, StoreClient(s)
        PROVE  GatewayInv'
    <2> DEFINE u == Owner[s]
    <2>1. ASSUME NEW v \in Users \ {u}
          PROVE  ~raced'[v] => Sound(v)'
      BY <1>1, <1>u, <2>1, OthersSound DEF GatewayTypeOK, GatewayInv, StoreClient
    <2>2. LiveClients(u)' = LiveClients(u) \cup {s}
      BY <1>1, <1>u DEF GatewayTypeOK, StoreClient, LiveClients, SocketsOf
    <2>3. \A t \in SocketsOf(u) : socket'[t] # "left" <=> socket[t] # "left"
      BY <1>1 DEF GatewayTypeOK, StoreClient, SocketsOf
    <2>4. NoOpen(u)' <=> NoOpen(u)
      BY <1>1 DEF GatewayTypeOK, StoreClient, NoOpen, SocketsOf
    <2>5. ~raced'[u] => Sound(u)'
      BY <1>1, <1>u, <2>2, <2>3, <2>4 DEF GatewayTypeOK, GatewayInv, StoreClient, Sound, SocketsOf
    <2>6. \A v \in Users : clients'[v] # {} => v \in tracked'
      BY <1>1, <1>u DEF GatewayTypeOK, GatewayInv, StoreClient
    <2> QED
      BY <2>1, <2>5, <2>6 DEF GatewayInv
  <1>2. ASSUME NEW s \in Sockets, Joined(s)
        PROVE  GatewayInv'
    <2> DEFINE u == Owner[s]
    <2>1. ASSUME NEW v \in Users \ {u}
          PROVE  ~raced'[v] => Sound(v)'
      <3>1. /\ \A t \in SocketsOf(v) : socket'[t] = socket[t]
            /\ clients' = clients /\ raced' = raced
        BY <1>2, <1>u, <2>1 DEF GatewayTypeOK, Joined
      <3>2. pending'[v] = pending[v] /\ handle'[v] = handle[v] /\ told'[v] = told[v]
        BY <1>2, <1>u, <2>1 DEF GatewayTypeOK, Joined, ClearTimer
      <3> QED
        BY <3>1, <3>2, OthersSound DEF GatewayInv
    <2>2. ASSUME ~raced[u]
          PROVE  Sound(u)'
      <3>1. Sound(u) /\ socket[s] = "joining" /\ socket' = [socket EXCEPT ![s] = "open"]
        BY <1>2, <1>u, <2>2 DEF GatewayInv, Sound, Joined
      <3>2. LiveClients(u)' = LiveClients(u) /\ s \in LiveClients(u)
        BY <1>u, <3>1 DEF GatewayTypeOK, LiveClients, SocketsOf
      <3>3. pending'[u] = 0
        BY <1>2, <1>u, <3>1 DEF GatewayTypeOK, Sound, Joined, ClearTimer
      <3>4. \A t \in SocketsOf(u) : socket'[t] # "left"
        BY <3>1 DEF GatewayTypeOK, Sound, SocketsOf
      <3> QED
        BY <1>2, <1>u, <3>1, <3>2, <3>3, <3>4 DEF GatewayTypeOK, Sound, Joined, SocketsOf
    <2>3. \A v \in Users : clients'[v] # {} => v \in tracked'
      BY <1>2 DEF GatewayInv, Joined
    <2> QED
      BY <1>2, <2>1, <2>2, <2>3 DEF GatewayInv, Joined
  <1>3. ASSUME NEW s \in Sockets, JoinFails(s)
        PROVE  GatewayInv'
    <2>1. CASE socket[s] = "joining"
      BY <1>3, <2>1, DroppedSound DEF JoinFails
    <2>2. CASE socket[s] = "left"
      <3>1. raced[Owner[s]]
        BY <1>u, <2>2 DEF GatewayInv, Sound
      <3>2. ASSUME NEW v \in Users, ~raced'[v]
            PROVE  Sound(v)'
        <4>1. /\ socket' = [socket EXCEPT ![s] = "unused"]
              /\ UNCHANGED <<tracked, clients, pending, handle, told, raced>>
          BY <1>3, <2>2 DEF JoinFails
        <4>2. \A t \in SocketsOf(v) : socket'[t] = socket[t]
          BY <1>u, <3>1, <3>2, <4>1 DEF GatewayTypeOK, SocketsOf
        <4> QED
          BY <3>2, <4>1, <4>2, OthersSound DEF GatewayInv
      <3> QED
        BY <1>3, <2>2, <3>2 DEF GatewayInv, JoinFails
    <2> QED
      BY <1>3, <2>1, <2>2 DEF JoinFails
  <1>4. ASSUME NEW s \in Sockets, Disconnect(s)
        PROVE  GatewayInv'
    <2>1. PICK state \in {"unused", "left"} : socket' = [socket EXCEPT ![s] = state]
      BY <1>4 DEF Disconnect
    <2> QED
      BY <1>4, <2>1, DroppedSound DEF Disconnect
  <1>5. ASSUME NEW s \in Sockets, NEW c \in Conversations, NEW isTyping \in BOOLEAN,
               Typing(s, c, isTyping)
        PROVE  GatewayInv'
    BY <1>5 DEF GatewayInv, Typing, Sound, LiveClients, NoOpen
  <1>6. ASSUME NEW u \in Users, TimerFires(u)
        PROVE  GatewayInv'
    <2>1. ASSUME NEW v \in Users \ {u}
          PROVE  ~raced'[v] => Sound(v)'
      BY <1>6, <2>1, OthersSound DEF GatewayTypeOK, GatewayInv, TimerFires, Race
    <2>2. ASSUME ~raced'[u]
          PROVE  Sound(u)'
      <3>1. ~raced[u] /\ ~Joining(u) /\ Sound(u)
        BY <1>6, <2>2 DEF GatewayTypeOK, GatewayInv, TimerFires, Race
      <3>2. LiveClients(u) = {} /\ NoOpen(u)
        BY <1>6, <3>1 DEF GatewayTypeOK, TimerFires, Sound, NoOpen, LiveClients, Joining, SocketsOf
      <3>3. pending'[u] = 0 /\ clients'[u] = {} /\ told'[u] = "offline" /\ socket' = socket
        BY <1>6, <3>1 DEF GatewayTypeOK, TimerFires, Sound
      <3> QED
        BY <3>1, <3>2, <3>3 DEF Sound, LiveClients, NoOpen, SocketsOf
    <2>3. \A v \in Users : clients'[v] # {} => v \in tracked'
      BY <1>6 DEF GatewayTypeOK, GatewayInv, TimerFires
    <2> QED
      BY <2>1, <2>2, <2>3 DEF GatewayInv
  <1>7. CASE UNCHANGED gatewayVars
    BY <1>7 DEF gatewayVars, GatewayInv, Sound, LiveClients, NoOpen
  <1> QED
    BY <1>1, <1>2, <1>3, <1>4, <1>5, <1>6, <1>7 DEF GatewayNext

\* Until one of the three overlaps happens to a user, the gateway knows the user's
\* sockets, its timer is where the next connection finds it, and no connected user
\* is shown offline.
THEOREM BookkeepingExactHolds == GatewaySpec => []BookkeepingExact
  <1>1. GatewayInit => GatewayInv
    <2> SUFFICES ASSUME GatewayInit, NEW u \in Users
                 PROVE  ~(clients[u] # {}) /\ Sound(u)
      BY DEF GatewayInv
    <2>1. \A s \in SocketsOf(u) : socket[s] = "unused"
      BY DEF GatewayInit, SocketsOf
    <2>2. LiveClients(u) = {} /\ NoOpen(u)
      BY <2>1 DEF LiveClients, NoOpen
    <2> QED
      BY <2>1, <2>2 DEF GatewayInit, Sound
  <1>2. GatewayInv => BookkeepingExact
    BY DEF GatewayInv, Sound, NoOpen, BookkeepingExact, ClientsExact, TimerExact, OfflineIsGone
  <1> QED
    BY <1>1, <1>2, NextSound, TypeCorrect, PTL DEF GatewaySpec

\* A user in a typing set always has a connected socket, overlaps or not: every
\* handleDisconnect removes the user from every set.
THEOREM TypingConnected == GatewaySpec => []TypingIsConnected
  <1>1. GatewayInit => TypingIsConnected
    BY DEF GatewayInit, TypingIsConnected
  <1>2. GatewayTypeOK /\ TypingIsConnected /\ [GatewayNext]_gatewayVars => TypingIsConnected'
    <2> SUFFICES ASSUME GatewayTypeOK, TypingIsConnected, [GatewayNext]_gatewayVars
                 PROVE  TypingIsConnected'
      OBVIOUS
    <2>o. \A s \in Sockets : Owner[s] \in Users
      BY OwnerAssumption
    <2>k. ASSUME UNCHANGED typing, \A u \in Users : LiveClients(u) \subseteq LiveClients(u)'
          PROVE  TypingIsConnected'
      BY <2>k DEF GatewayTypeOK, TypingIsConnected
    <2>d. ASSUME NEW s \in Sockets, Dropped(s), NEW state \in SocketState,
                 socket' = [socket EXCEPT ![s] = state]
          PROVE  TypingIsConnected'
      <3>1. \A u \in Users \ {Owner[s]} : LiveClients(u)' = LiveClients(u)
        BY <2>d DEF GatewayTypeOK, LiveClients, SocketsOf
      <3> QED
        BY <2>d, <3>1 DEF GatewayTypeOK, TypingIsConnected, Dropped, CleanTyping
    <2>1. ASSUME NEW s \in Sockets, StoreClient(s)
          PROVE  TypingIsConnected'
      BY <2>1, <2>k DEF GatewayTypeOK, StoreClient, LiveClients
    <2>2. ASSUME NEW s \in Sockets, Joined(s)
          PROVE  TypingIsConnected'
      BY <2>2, <2>k DEF GatewayTypeOK, Joined, LiveClients
    <2>3. ASSUME NEW s \in Sockets, JoinFails(s)
          PROVE  TypingIsConnected'
      <3>1. CASE socket[s] = "joining"
        BY <2>3, <2>d, <3>1 DEF JoinFails, SocketState
      <3>2. CASE socket[s] = "left"
        <4>1. socket' = [socket EXCEPT ![s] = "unused"] /\ UNCHANGED typing
          BY <2>3, <3>2 DEF JoinFails
        <4> QED
          BY <2>k, <3>2, <4>1 DEF GatewayTypeOK, LiveClients
      <3> QED
        BY <2>3, <3>1, <3>2 DEF JoinFails
    <2>4. ASSUME NEW s \in Sockets, Disconnect(s)
          PROVE  TypingIsConnected'
      BY <2>4, <2>d DEF Disconnect, SocketState
    <2>5. ASSUME NEW s \in Sockets, NEW c \in Conversations, NEW isTyping \in BOOLEAN,
                 Typing(s, c, isTyping)
          PROVE  TypingIsConnected'
      <3>1. Owner[s] \in Users /\ s \in LiveClients(Owner[s])
        BY <2>5, <2>o DEF Typing, LiveClients, SocketsOf
      <3>2. \A d \in Conversations : typing'[d] \subseteq typing[d] \cup {Owner[s]}
        BY <2>5 DEF GatewayTypeOK, Typing
      <3>3. \A u \in Users : LiveClients(u)' = LiveClients(u)
        BY <2>5 DEF Typing, LiveClients
      <3> QED
        BY <3>1, <3>2, <3>3 DEF GatewayTypeOK, TypingIsConnected
    <2>6. ASSUME NEW u \in Users, TimerFires(u)
          PROVE  TypingIsConnected'
      BY <2>6, <2>k DEF TimerFires, LiveClients
    <2>7. CASE UNCHANGED gatewayVars
      BY <2>7, <2>k DEF gatewayVars, LiveClients
    <2> QED
      BY <2>1, <2>2, <2>3, <2>4, <2>5, <2>6, <2>7 DEF GatewayNext
  <1> QED
    BY <1>1, <1>2, TypeCorrect, PTL DEF GatewaySpec

=============================================================================
