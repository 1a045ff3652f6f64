----------------------------- MODULE Caches_proofs -----------------------------
(***************************************************************************)
(* Presence and ContentCache, the two components whose state is a copy of  *)
(* something else: of the sockets that are open, and of a row.             *)
(*                                                                         *)
(* The invariants of Presence, for any number of users and devices and any *)
(* limit of reconnection attempts, and that a limit of at least one keeps  *)
(* every user from ever being shown offline.  Then, for any number of      *)
(* requests, regions and versions, that the copies of a row are current    *)
(* once its writes have invalidated, and that reads keep the row.          *)
(***************************************************************************)
EXTENDS Presence, ContentCache, FiniteSetTheorems, TLAPS

LEMMA TypeInit == Init => TypeOK
BY MaxReconnectAssumption DEF Init, TypeOK, Unknown, PresenceType

\* An update of a user's entry that keeps its type.
LEMMA EntryType ==
    ASSUME TypeOK, NEW u \in Users, NEW status \in {"unknown", "online", "offline"},
           NEW n \in Nat, NEW typing \in Conversations \cup {NotTyping}
    PROVE  /\ [presence[u] EXCEPT !.status = status, !.deviceCount = n] \in PresenceType
           /\ [presence[u] EXCEPT !.typing = typing] \in PresenceType
BY DEF TypeOK, PresenceType

(* An entry with one device less is one, and offline when it was the last. *)
LEMMA WithoutDeviceEntry ==
    ASSUME NEW entry \in PresenceType
    PROVE  /\ WithoutDevice(entry) \in PresenceType
           /\ WithoutDevice(entry).typing = entry.typing
           /\ WithoutDevice(entry).deviceCount =
                IF entry.deviceCount = 0 THEN 0 ELSE entry.deviceCount - 1
           /\ WithoutDevice(entry).status =
                IF entry.deviceCount <= 1 THEN "offline" ELSE entry.status
<1> DEFINE left == IF entry.deviceCount = 0 THEN 0 ELSE entry.deviceCount - 1
           status == IF left = 0 THEN "offline" ELSE entry.status
<1>1. entry.deviceCount \in Nat
  BY DEF PresenceType
<1>2. left \in Nat /\ (left = 0 <=> entry.deviceCount <= 1)
  BY <1>1
<1>3. status \in {"unknown", "online", "offline"}
  BY DEF PresenceType
<1>4. WithoutDevice(entry) = [entry EXCEPT !.deviceCount = left, !.status = status]
  BY DEF WithoutDevice, PresenceType
<1>5. status = IF entry.deviceCount <= 1 THEN "offline" ELSE entry.status
  BY <1>2
<1> HIDE DEF left, status
<1>6. /\ WithoutDevice(entry) \in PresenceType
      /\ WithoutDevice(entry).typing = entry.typing
      /\ WithoutDevice(entry).deviceCount = left
      /\ WithoutDevice(entry).status = status
  BY <1>2, <1>3, <1>4 DEF PresenceType
<1>7. QED
  BY <1>5, <1>6 DEF left

LEMMA TypeDropDevice ==
    ASSUME TypeOK, NEW s \in Sockets, DropDevice(s)
    PROVE  presence' \in [Users -> PresenceType] /\ beating' \subseteq Sockets
<1>1. Owner[s] \in Users /\ presence[Owner[s]] \in PresenceType
  BY OwnerAssumption DEF TypeOK
<1>2. WithoutDevice(presence[Owner[s]]) \in PresenceType
  BY <1>1, WithoutDeviceEntry
<1>3. QED
  BY <1>1, <1>2 DEF DropDevice, TypeOK

LEMMA TypeNext == TypeOK /\ [Next]_vars => TypeOK'
<1> SUFFICES ASSUME TypeOK, [Next]_vars PROVE TypeOK'
  OBVIOUS
<1>1. ASSUME NEW s \in Sockets, Connect(s) PROVE TypeOK'
  <2> DEFINE u == Owner[s]
             n == presence[u].deviceCount + 1
  <2>1. u \in Users /\ presence[u] \in PresenceType
    BY OwnerAssumption DEF TypeOK
  <2>2. n \in Nat
    BY <2>1 DEF PresenceType
  <2>3. presence' = [presence EXCEPT ![u] = [presence[u] EXCEPT !.status = "online", !.deviceCount = n]]
    BY <1>1, <2>1 DEF Connect, TypeOK, PresenceType
  <2> HIDE DEF n
  <2>4. [presence[u] EXCEPT !.status = "online", !.deviceCount = n] \in PresenceType
    BY <2>1, <2>2, EntryType
  <2>5. presence' \in [Users -> PresenceType]
    BY <2>3, <2>4 DEF TypeOK
  <2>6. QED
    BY <1>1, <2>1, <2>5, MaxReconnectAssumption DEF Connect, TypeOK
<1>2. ASSUME NEW s \in Sockets, DisconnectBacksOff(s) PROVE TypeOK'
  <2>1. Owner[s] \in Users
    BY OwnerAssumption
  <2>2. attempts[Owner[s]] + 1 \in 0..MaxReconnectAttempts
    BY <1>2, <2>1, MaxReconnectAssumption DEF DisconnectBacksOff, TypeOK
  <2>3. QED
    BY <1>2, <2>1, <2>2 DEF DisconnectBacksOff, TypeOK
<1>3. ASSUME NEW s \in Sockets, DisconnectGivesUp(s) PROVE TypeOK'
  <2>1. Owner[s] \in Users
    BY OwnerAssumption
  <2>2. presence' \in [Users -> PresenceType] /\ beating' \subseteq Sockets
    BY <1>3, TypeDropDevice DEF DisconnectGivesUp
  <2>3. attempts' \in [Users -> 0..MaxReconnectAttempts]
    <3>1. 0 \in 0..MaxReconnectAttempts
      BY MaxReconnectAssumption
    <3>2. attempts' = [attempts EXCEPT ![Owner[s]] = 0]
      BY <1>3 DEF DisconnectGivesUp
    <3>3. QED
      BY <3>1, <3>2 DEF TypeOK
  <2>4. /\ sock' \in [Sockets -> {"unused", "open", "closed"}]
        /\ UNCHANGED <<backoff, typingTimers>>
    BY <1>3, <2>1 DEF DisconnectGivesUp, TypeOK
  <2>5. QED
    BY <2>2, <2>3, <2>4 DEF TypeOK
<1>4. ASSUME NEW s \in Sockets, BackoffFires(s) PROVE TypeOK'
  <2>1. presence' \in [Users -> PresenceType] /\ beating' \subseteq Sockets
    BY <1>4, TypeDropDevice DEF BackoffFires, TypeOK
  <2>2. QED
    BY <1>4, <2>1 DEF BackoffFires, TypeOK
<1>5. ASSUME NEW u \in Users, NEW typing \in Conversations \cup {NotTyping},
             presence' = [presence EXCEPT ![u].typing = typing],
             typingTimers' \in [Users \X Conversations -> Nat],
             UNCHANGED <<sock, attempts, backoff, beating>>
      PROVE TypeOK'
  <2>1. presence' = [presence EXCEPT ![u] = [presence[u] EXCEPT !.typing = typing]]
    BY <1>5 DEF TypeOK, PresenceType
  <2>2. [presence[u] EXCEPT !.typing = typing] \in PresenceType
    BY DEF TypeOK, PresenceType
  <2>3. presence' \in [Users -> PresenceType]
    BY <2>1, <2>2 DEF TypeOK
  <2>4. QED
    BY <1>5, <2>3 DEF TypeOK
<1>6. ASSUME NEW s \in Sockets, NEW c \in Conversations, StartTyping(s, c) PROVE TypeOK'
  <2>1. Owner[s] \in Users
    BY OwnerAssumption
  <2>2. typingTimers' \in [Users \X Conversations -> Nat]
    BY <1>6, <2>1 DEF StartTyping, TypeOK
  <2>3. QED
    BY <1>5, <1>6, <2>1, <2>2 DEF StartTyping
<1>7. ASSUME NEW s \in Sockets, StopTyping(s) PROVE TypeOK'
  <2>1. Owner[s] \in Users
    BY OwnerAssumption
  <2>2. typingTimers' \in [Users \X Conversations -> Nat]
    BY <1>7 DEF StopTyping, TypeOK
  <2>3. QED
    BY <1>5, <1>7, <2>1, <2>2 DEF StopTyping
<1>8. ASSUME NEW u \in Users, NEW c \in Conversations, TypingTimerFires(u, c) PROVE TypeOK'
  <2> DEFINE typing == IF presence[u].typing = c THEN NotTyping ELSE presence[u].typing
  <2>1. typing \in Conversations \cup {NotTyping}
    BY DEF TypeOK, PresenceType
  <2>2. typingTimers' \in [Users \X Conversations -> Nat]
    BY <1>8 DEF TypingTimerFires, TypeOK
  <2>3. presence' = [presence EXCEPT ![u].typing = typing]
    BY <1>8 DEF TypingTimerFires, TypeOK, PresenceType
  <2> HIDE DEF typing
  <2>4. QED
    BY <1>5, <1>8, <2>1, <2>2, <2>3 DEF TypingTimerFires
<1>9. CASE Restart
  BY <1>9, MaxReconnectAssumption DEF Restart, TypeOK, Unknown, PresenceType
<1>10. CASE UNCHANGED vars
  BY <1>10 DEF vars, TypeOK
<1>11. QED
  BY <1>1, <1>2, <1>3, <1>4, <1>6, <1>7, <1>8, <1>9, <1>10 DEF Next, HeartbeatFires

(* Every reachable state has the stated types. *)
THEOREM TypeCorrect == Spec => []TypeOK
BY TypeInit, TypeNext, PTL DEF Spec

------------------------------------------------------------------------------
(* What the counters of a user say about the user's devices.  Every device that *)
(* left without being taken away is in attempts, until a connection or the      *)
(* disconnection beyond the limit forgets them.                                 *)

CountInv(u) == presence[u].deviceCount >= Cardinality(Live(u)) + attempts[u]

StatusInv(u) ==
    /\ presence[u].status \in {"online", "offline", "unknown"}
    /\ presence[u].status = "unknown" => Live(u) = {} /\ presence[u].typing = NotTyping
    /\ presence[u].status = "offline" => Live(u) = {}

DeviceInv(s) ==
    /\ sock[s] = "open" => s \in beating
    /\ s \in backoff => sock[s] = "closed"

Counted ==
    /\ \A u \in Users : CountInv(u) /\ StatusInv(u)
    /\ \A s \in Sockets : DeviceInv(s)

LEMMA LiveFinite == \A u \in Users : IsFiniteSet(Live(u)) /\ Cardinality(Live(u)) \in Nat
<1>1. \A u \in Users : Live(u) \subseteq Sockets
  BY DEF Live, SocketsOf
<1>2. QED
  BY <1>1, SocketsAssumption, FS_Subset, FS_CardinalityType

(* One socket of a user opens or closes; other users' devices stay. *)
LEMMA LiveOpens ==
    ASSUME TypeOK, NEW s \in Sockets, sock[s] = "unused", sock' = [sock EXCEPT ![s] = "open"]
    PROVE  /\ Live(Owner[s])' = Live(Owner[s]) \cup {s}
           /\ Cardinality(Live(Owner[s])') = Cardinality(Live(Owner[s])) + 1
           /\ \A u \in Users : u # Owner[s] => Live(u)' = Live(u)
<1>1. Owner[s] \in Users
  BY OwnerAssumption
<1>2. Live(Owner[s])' = Live(Owner[s]) \cup {s} /\ s \notin Live(Owner[s])
  BY DEF Live, SocketsOf, TypeOK
<1>3. Cardinality(Live(Owner[s]) \cup {s}) = Cardinality(Live(Owner[s])) + 1
  BY <1>1, <1>2, LiveFinite, FS_AddElement
<1>4. \A u \in Users : u # Owner[s] => Live(u)' = Live(u)
  BY DEF Live, SocketsOf, TypeOK
<1>5. QED
  BY <1>2, <1>3, <1>4

LEMMA LiveCloses ==
    ASSUME TypeOK, NEW s \in Sockets, sock[s] = "open", sock' = [sock EXCEPT ![s] = "closed"]
    PROVE  /\ Live(Owner[s])' \subseteq Live(Owner[s]) /\ Live(Owner[s]) # {}
           /\ Cardinality(Live(Owner[s])') = Cardinality(Live(Owner[s])) - 1
           /\ Live(Owner[s])' # {} => Cardinality(Live(Owner[s])') > 0
           /\ \A u \in Users : u # Owner[s] => Live(u)' = Live(u)
<1>1. Owner[s] \in Users
  BY OwnerAssumption
<1>2. Live(Owner[s])' = Live(Owner[s]) \ {s} /\ s \in Live(Owner[s])
  BY DEF Live, SocketsOf, TypeOK
<1>3. Cardinality(Live(Owner[s]) \ {s}) = Cardinality(Live(Owner[s])) - 1
  BY <1>1, <1>2, LiveFinite, FS_RemoveElement
<1>4. \A u \in Users : u # Owner[s] => Live(u)' = Live(u)
  BY DEF Live, SocketsOf, TypeOK
<1>5. Live(Owner[s])' # {} => Cardinality(Live(Owner[s])') > 0
  <2>1. IsFiniteSet(Live(Owner[s]) \ {s})
    BY <1>1, LiveFinite, FS_Subset
  <2>2. Live(Owner[s]) \ {s} # {} => Cardinality(Live(Owner[s]) \ {s}) # 0
    BY <2>1, FS_EmptySet
  <2>3. Cardinality(Live(Owner[s]) \ {s}) \in Nat
    BY <2>1, FS_CardinalityType
  <2>4. QED
    BY <1>2, <2>2, <2>3
<1>6. QED
  BY <1>2, <1>3, <1>4, <1>5

(* A step that touches neither the sockets nor a user's counters. *)
LEMMA CountersStay ==
    ASSUME NEW u \in Users, CountInv(u), StatusInv(u), Live(u)' = Live(u),
           presence'[u].deviceCount = presence[u].deviceCount,
           presence'[u].status = presence[u].status, attempts'[u] = attempts[u],
           presence[u].status = "unknown" => presence'[u].typing = NotTyping
    PROVE  CountInv(u)' /\ StatusInv(u)'
BY DEF CountInv, StatusInv

LEMMA CountedInit == Init => Counted
<1> SUFFICES ASSUME Init PROVE Counted
  OBVIOUS
<1>1. ASSUME NEW u \in Users PROVE CountInv(u) /\ StatusInv(u)
  <2>1. Live(u) = {}
    BY DEF Init, Live, SocketsOf
  <2>2. presence[u] = Unknown /\ attempts[u] = 0
    BY DEF Init
  <2>3. QED
    BY <2>1, <2>2, FS_EmptySet DEF CountInv, StatusInv, Unknown
<1>2. \A s \in Sockets : DeviceInv(s)
  BY DEF Init, DeviceInv
<1>3. QED
  BY <1>1, <1>2 DEF Counted

LEMMA CountedNext == TypeOK /\ Counted /\ [Next]_vars => Counted'
<1> SUFFICES ASSUME TypeOK, Counted, [Next]_vars PROVE Counted'
  OBVIOUS
<1>0. /\ \A u \in Users : CountInv(u) /\ StatusInv(u)
      /\ \A s \in Sockets : DeviceInv(s) /\ Owner[s] \in Users
      /\ \A u \in Users : /\ presence[u] \in PresenceType /\ presence[u].deviceCount \in Nat
                          /\ attempts[u] \in Nat /\ Cardinality(Live(u)) \in Nat
  BY OwnerAssumption, LiveFinite, MaxReconnectAssumption DEF Counted, TypeOK, PresenceType
<1>1. ASSUME NEW s \in Sockets, Connect(s) PROVE Counted'
  <2> DEFINE u == Owner[s]
  <2>1. /\ presence'[u].status = "online"
        /\ presence'[u].deviceCount = presence[u].deviceCount + 1
        /\ attempts'[u] = 0
        /\ \A v \in Users : v # u => presence'[v] = presence[v] /\ attempts'[v] = attempts[v]
    BY <1>0, <1>1 DEF Connect, TypeOK, PresenceType
  <2>2. /\ Cardinality(Live(u)') = Cardinality(Live(u)) + 1
        /\ \A v \in Users : v # u => Live(v)' = Live(v)
    BY <1>1, LiveOpens DEF Connect
  <2>3. CountInv(u)'
    <3>1. presence[u].deviceCount >= Cardinality(Live(u)) + attempts[u]
      BY <1>0 DEF CountInv
    <3>2. presence[u].deviceCount + 1 >= Cardinality(Live(u)) + 1 + 0
      BY <1>0, <3>1
    <3>3. QED
      BY <2>1, <2>2, <3>2 DEF CountInv
  <2>4. StatusInv(u)'
    BY <2>1 DEF StatusInv
  <2>5. ASSUME NEW v \in Users, v # u PROVE CountInv(v)' /\ StatusInv(v)'
    BY <1>0, <2>1, <2>2, <2>5 DEF CountInv, StatusInv
  <2>6. \A r \in Sockets : DeviceInv(r)'
    BY <1>0, <1>1 DEF Connect, DeviceInv, TypeOK
  <2>7. QED
    BY <2>3, <2>4, <2>5, <2>6 DEF Counted
<1>2. ASSUME NEW s \in Sockets, DisconnectBacksOff(s) PROVE Counted'
  <2> DEFINE u == Owner[s]
  <2>1. /\ attempts'[u] = attempts[u] + 1 /\ UNCHANGED presence
        /\ \A v \in Users : v # u => attempts'[v] = attempts[v]
    BY <1>0, <1>2 DEF DisconnectBacksOff, TypeOK
  <2>2. /\ Cardinality(Live(u)') = Cardinality(Live(u)) - 1
        /\ Live(u) # {} /\ \A v \in Users : v # u => Live(v)' = Live(v)
    BY <1>2, LiveCloses DEF DisconnectBacksOff
  <2>3. CountInv(u)'
    <3>1. presence[u].deviceCount >= Cardinality(Live(u)) + attempts[u]
      BY <1>0 DEF CountInv
    <3>2. presence[u].deviceCount >= (Cardinality(Live(u)) - 1) + (attempts[u] + 1)
      BY <1>0, <3>1
    <3>3. QED
      BY <2>1, <2>2, <3>2 DEF CountInv
  <2>4. StatusInv(u)'
    BY <1>0, <2>1, <2>2 DEF StatusInv
  <2>5. ASSUME NEW v \in Users, v # u PROVE CountInv(v)' /\ StatusInv(v)'
    BY <1>0, <2>1, <2>2, <2>5 DEF CountInv, StatusInv
  <2>6. \A r \in Sockets : DeviceInv(r)'
    BY <1>0, <1>2 DEF DisconnectBacksOff, DeviceInv, TypeOK
  <2>7. QED
    BY <2>3, <2>4, <2>5, <2>6 DEF Counted
<1>3. ASSUME NEW s \in Sockets, DisconnectGivesUp(s) PROVE Counted'
  <2> DEFINE u == Owner[s]
             n == presence[u].deviceCount
  <2>1. /\ Cardinality(Live(u)') = Cardinality(Live(u)) - 1
        /\ Live(u)' # {} => Cardinality(Live(u)') > 0
        /\ Live(u) # {} /\ \A v \in Users : v # u => Live(v)' = Live(v)
    BY <1>3, LiveCloses DEF DisconnectGivesUp
  <2>2. Known(u) /\ presence[u].status \in {"online", "offline"}
    BY <1>0, <2>1 DEF StatusInv, Known
  <2>3. /\ presence'[u] = WithoutDevice(presence[u]) /\ beating' = beating \ {s}
        /\ attempts'[u] = 0
        /\ \A v \in Users : v # u => presence'[v] = presence[v] /\ attempts'[v] = attempts[v]
    BY <1>0, <1>3, <2>2 DEF DisconnectGivesUp, DropDevice, TypeOK
  <2>4. /\ presence'[u].deviceCount = IF n = 0 THEN 0 ELSE n - 1
        /\ presence'[u].status = IF n <= 1 THEN "offline" ELSE presence[u].status
    BY <1>0, <2>3, WithoutDeviceEntry
  <2>5. Cardinality(Live(u)) > 0
    <3>1. Cardinality(Live(u)) # 0
      BY <1>0, <2>1, LiveFinite, FS_EmptySet
    <3>2. QED
      BY <1>0, <3>1
  <2>6. n >= Cardinality(Live(u)) + attempts[u]
    BY <1>0 DEF CountInv
  <2>7. CountInv(u)'
    <3>1. n - 1 >= (Cardinality(Live(u)) - 1) + 0 /\ n # 0
      BY <1>0, <2>5, <2>6
    <3>2. QED
      BY <2>1, <2>3, <2>4, <3>1 DEF CountInv
  <2>8. n <= 1 => Live(u)' = {}
    <3>1. n <= 1 => Cardinality(Live(u)) - 1 <= 0
      BY <1>0, <2>6
    <3>2. Live(u)' # {} => Cardinality(Live(u)) - 1 > 0
      BY <2>1
    <3>3. QED
      BY <1>0, <3>1, <3>2
  <2>9. StatusInv(u)'
    <3>1. CASE n <= 1
      BY <2>4, <2>8, <3>1 DEF StatusInv
    <3>2. CASE ~(n <= 1)
      <4>1. presence[u].status = "online"
        BY <1>0, <2>1, <2>2 DEF StatusInv
      <4>2. QED
        BY <2>4, <3>2, <4>1 DEF StatusInv
    <3>3. QED
      BY <3>1, <3>2
  <2>10. ASSUME NEW v \in Users, v # u PROVE CountInv(v)' /\ StatusInv(v)'
    BY <1>0, <2>1, <2>3, <2>10 DEF CountInv, StatusInv
  <2>11. \A r \in Sockets : DeviceInv(r)'
    BY <1>0, <1>3, <2>3 DEF DisconnectGivesUp, DeviceInv, TypeOK
  <2>12. QED
    BY <2>7, <2>9, <2>10, <2>11 DEF Counted
<1>4. ASSUME NEW s \in Sockets, BackoffFires(s) PROVE Counted'
  <2> DEFINE u == Owner[s]
  <2>1. /\ UNCHANGED <<sock, attempts>> /\ sock[s] = "closed" /\ backoff' = backoff \ {s}
        /\ \A v \in Users : Live(v)' = Live(v)
    BY <1>0, <1>4 DEF BackoffFires, DeviceInv, Live, SocketsOf
  <2>2. beating' \in {beating, beating \ {s}} /\ \A v \in Users : v # u => presence'[v] = presence[v]
    BY <1>0, <1>4 DEF BackoffFires, DropDevice, TypeOK
  <2>3. \A r \in Sockets : DeviceInv(r)'
    BY <1>0, <2>1, <2>2 DEF DeviceInv
  <2>4. CountInv(u)' /\ StatusInv(u)'
    <3>1. CASE presence' = presence
      BY <1>0, <2>1, <3>1, CountersStay DEF StatusInv
    <3>2. CASE presence' # presence
      <4>1. Known(u) /\ presence[u].deviceCount = 0 /\ presence'[u] = WithoutDevice(presence[u])
        BY <1>0, <1>4, <3>2 DEF BackoffFires, DropDevice, TypeOK
      <4>2. presence'[u].deviceCount = 0 /\ presence'[u].status = "offline"
        BY <1>0, <4>1, WithoutDeviceEntry
      <4>3. CountInv(u)'
        BY <1>0, <2>1, <4>1, <4>2 DEF CountInv
      <4>4. Live(u) = {}
        <5>1. Cardinality(Live(u)) = 0
          BY <1>0, <4>1 DEF CountInv
        <5>2. QED
          BY <1>0, <5>1, LiveFinite, FS_EmptySet
      <4>5. Live(u)' = {}
        BY <1>0, <2>1, <4>4
      <4>6. StatusInv(u)'
        BY <4>2, <4>5 DEF StatusInv
      <4>7. QED
        BY <4>3, <4>6
    <3>3. QED
      BY <3>1, <3>2
  <2>5. ASSUME NEW v \in Users, v # u PROVE CountInv(v)' /\ StatusInv(v)'
    BY <1>0, <2>1, <2>2, <2>5, CountersStay DEF StatusInv
  <2>6. QED
    BY <2>3, <2>4, <2>5 DEF Counted
\* Typing changes nothing but the typing field, and only of a user who is known
\* or has none.
<1>5. ASSUME UNCHANGED <<sock, attempts, backoff, beating>>, NEW u \in Users, NEW typing,
             presence' = [presence EXCEPT ![u].typing = typing],
             presence[u].status = "unknown" => typing = NotTyping
      PROVE  Counted'
  <2>1. \A v \in Users : Live(v)' = Live(v)
    BY <1>5 DEF Live, SocketsOf
  <2>2. ASSUME NEW v \in Users PROVE CountInv(v)' /\ StatusInv(v)'
    <3>1. /\ presence'[v].deviceCount = presence[v].deviceCount
          /\ presence'[v].status = presence[v].status
          /\ presence'[v].typing = IF v = u THEN typing ELSE presence[v].typing
      BY <1>0, <1>5 DEF TypeOK, PresenceType
    <3>2. QED
      BY <1>0, <1>5, <2>1, <3>1, CountersStay DEF StatusInv
  <2>3. \A r \in Sockets : DeviceInv(r)'
    BY <1>0, <1>5 DEF DeviceInv
  <2>4. QED
    BY <2>2, <2>3 DEF Counted
<1>6. ASSUME NEW s \in Sockets, NEW c \in Conversations, StartTyping(s, c) PROVE Counted'
  <2>1. presence[Owner[s]].status # "unknown"
    BY <1>6 DEF StartTyping, Known
  <2>2. QED
    BY <1>0, <1>5, <1>6, <2>1 DEF StartTyping
<1>7. ASSUME NEW s \in Sockets, StopTyping(s) PROVE Counted'
  BY <1>0, <1>5, <1>7 DEF StopTyping
<1>8. ASSUME NEW u \in Users, NEW c \in Conversations, TypingTimerFires(u, c) PROVE Counted'
  <2> DEFINE typing == IF presence[u].typing = c THEN NotTyping ELSE presence[u].typing
  <2>1. presence' = [presence EXCEPT ![u].typing = typing]
    BY <1>8 DEF TypingTimerFires, TypeOK, PresenceType
  <2>2. presence[u].status = "unknown" => typing = NotTyping
    BY <1>0 DEF StatusInv
  <2> HIDE DEF typing
  <2>3. QED
    BY <1>5, <1>8, <2>1, <2>2 DEF TypingTimerFires
<1>9. CASE Restart
  <2>1. ASSUME NEW u \in Users PROVE CountInv(u)' /\ StatusInv(u)'
    <3>1. Live(u)' = {}
      BY <1>9 DEF Restart, Live, SocketsOf
    <3>2. presence'[u] = Unknown /\ attempts'[u] = 0
      BY <1>9 DEF Restart
    <3>3. QED
      BY <3>1, <3>2, FS_EmptySet DEF CountInv, StatusInv, Unknown
  <2>2. \A s \in Sockets : DeviceInv(s)'
    BY <1>9 DEF Restart, DeviceInv
  <2>3. QED
    BY <2>1, <2>2 DEF Counted
<1>10. CASE UNCHANGED vars
  BY <1>10 DEF vars, Counted, CountInv, StatusInv, DeviceInv, Live, SocketsOf
<1>11. QED
  BY <1>1, <1>2, <1>3, <1>4, <1>6, <1>7, <1>8, <1>9, <1>10 DEF Next, HeartbeatFires

LEMMA CountedHolds == Spec => [](TypeOK /\ Counted)
<1>1. Init => TypeOK /\ Counted
  BY TypeInit, CountedInit
<1>2. TypeOK /\ Counted /\ [Next]_vars => TypeOK' /\ Counted'
  BY TypeNext, CountedNext
<1>3. QED
  BY <1>1, <1>2, PTL DEF Spec

(* The devices counted for a user include the connected ones. *)
THEOREM CountCovers == Spec => []CountCoversDevices
<1>1. TypeOK /\ Counted => CountCoversDevices
  <2> SUFFICES ASSUME TypeOK, Counted, NEW u \in Users
               PROVE  presence[u].deviceCount >= Cardinality(Live(u))
    BY DEF CountCoversDevices
  <2>1. /\ presence[u].deviceCount \in Nat /\ attempts[u] \in Nat /\ Cardinality(Live(u)) \in Nat
        /\ presence[u].deviceCount >= Cardinality(Live(u)) + attempts[u]
    BY LiveFinite, MaxReconnectAssumption DEF TypeOK, PresenceType, Counted, CountInv
  <2>2. QED
    BY <2>1
<1>2. QED
  BY <1>1, CountedHolds, PTL

(* A user with a connected device is shown online, and the device has its        *)
(* heartbeat.                                                                    *)
THEOREM ConnectedShown == Spec => [](ConnectedIsOnline /\ DeviceIsBeating)
<1>1. TypeOK /\ Counted => ConnectedIsOnline /\ DeviceIsBeating
  BY DEF TypeOK, Counted, StatusInv, DeviceInv, ConnectedIsOnline, DeviceIsBeating
<1>2. QED
  BY <1>1, CountedHolds, PTL

\* Both together: a connected device is counted, shown online and has its heartbeat.
THEOREM ConnectedDeviceIsShownHolds == Spec => []ConnectedDeviceIsShown
<1>1. CountCoversDevices /\ ConnectedIsOnline /\ DeviceIsBeating => ConnectedDeviceIsShown
  BY DEF ConnectedDeviceIsShown
<1>2. QED
  BY <1>1, CountCovers, ConnectedShown, PTL

(* A typing status always has a timeout that will end it. *)
THEOREM TypingTimed == Spec => []TypingHasTimer
<1>1. Init => TypingHasTimer
  BY DEF Init, TypingHasTimer, Unknown
<1>2. TypeOK /\ TypingHasTimer /\ [Next]_vars => TypingHasTimer'
  <2> SUFFICES ASSUME TypeOK, TypingHasTimer, [Next]_vars, NEW u \in Users
               PROVE  presence'[u].typing # NotTyping => typingTimers'[<<u, presence'[u].typing>>] > 0
    BY DEF TypingHasTimer
  <2>0. /\ presence[u] \in PresenceType
        /\ presence[u].typing # NotTyping => typingTimers[<<u, presence[u].typing>>] > 0
        /\ \A s \in Sockets : Owner[s] \in Users
    BY OwnerAssumption DEF TypingHasTimer, TypeOK
  <2>1. ASSUME presence'[u].typing = presence[u].typing, UNCHANGED typingTimers
        PROVE  presence'[u].typing # NotTyping => typingTimers'[<<u, presence'[u].typing>>] > 0
    BY <2>0, <2>1
  <2>2. ASSUME NEW s \in Sockets, Connect(s) \/ DisconnectBacksOff(s)
        PROVE  presence'[u].typing = presence[u].typing /\ UNCHANGED typingTimers
    BY <2>0, <2>2 DEF Connect, DisconnectBacksOff, TypeOK, PresenceType
  <2>3. ASSUME NEW s \in Sockets, DropDevice(s) PROVE presence'[u].typing = presence[u].typing
    <3>1. presence'[u] = presence[u] \/ presence'[u] = WithoutDevice(presence[u])
      BY <2>3 DEF DropDevice, TypeOK
    <3>2. QED
      BY <2>0, <3>1, WithoutDeviceEntry
  <2>4. ASSUME NEW s \in Sockets, DisconnectGivesUp(s) \/ BackoffFires(s)
        PROVE  presence'[u].typing = presence[u].typing /\ UNCHANGED typingTimers
    BY <2>3, <2>4 DEF DisconnectGivesUp, BackoffFires
  <2>5. ASSUME NEW s \in Sockets, NEW c \in Conversations, StartTyping(s, c)
        PROVE  presence'[u].typing # NotTyping => typingTimers'[<<u, presence'[u].typing>>] > 0
    <3>1. CASE u = Owner[s]
      <4>1. presence'[u].typing = c
        BY <2>5, <3>1 DEF StartTyping, TypeOK, PresenceType
      <4>2. typingTimers'[<<u, c>>] = typingTimers[<<u, c>>] + 1 /\ typingTimers[<<u, c>>] \in Nat
        BY <2>5, <3>1 DEF StartTyping, TypeOK
      <4>3. QED
        BY <4>1, <4>2
    <3>2. CASE u # Owner[s]
      <4>1. presence'[u] = presence[u]
        BY <2>0, <2>5, <3>2 DEF StartTyping, TypeOK
      <4>2. \A d : typingTimers'[<<u, d>>] = typingTimers[<<u, d>>] \/ <<u, d>> \notin Users \X Conversations
        BY <2>5, <3>2 DEF StartTyping, TypeOK
      <4>3. presence[u].typing # NotTyping => presence[u].typing \in Conversations
        BY <2>0 DEF PresenceType
      <4>4. QED
        BY <2>0, <4>1, <4>2, <4>3
    <3>3. QED
      BY <3>1, <3>2
  <2>6. ASSUME NEW s \in Sockets, StopTyping(s)
        PROVE  presence'[u].typing # NotTyping => typingTimers'[<<u, presence'[u].typing>>] > 0
    <3>1. presence'[u].typing \in {presence[u].typing, NotTyping} /\ UNCHANGED typingTimers
      BY <2>0, <2>6 DEF StopTyping, TypeOK, PresenceType
    <3>2. QED
      BY <2>0, <3>1
  <2>7. ASSUME NEW v \in Users, NEW c \in Conversations, TypingTimerFires(v, c)
        PROVE  presence'[u].typing # NotTyping => typingTimers'[<<u, presence'[u].typing>>] > 0
    <3>1. presence'[u].typing = IF v = u /\ presence[u].typing = c THEN NotTyping
                                ELSE presence[u].typing
      BY <2>0, <2>7 DEF TypingTimerFires, TypeOK, PresenceType
    <3>2. \A d \in Conversations : <<u, d>> # <<v, c>> => typingTimers'[<<u, d>>] = typingTimers[<<u, d>>]
      BY <2>7 DEF TypingTimerFires, TypeOK
    <3>3. presence[u].typing # NotTyping => presence[u].typing \in Conversations
      BY <2>0 DEF PresenceType
    <3>4. QED
      BY <2>0, <3>1, <3>2, <3>3
  <2>8. CASE Restart
    BY <2>8 DEF Restart, Unknown
  <2>9. CASE UNCHANGED vars
    BY <2>1, <2>9 DEF vars
  <2>10. QED
    BY <2>1, <2>2, <2>4, <2>5, <2>6, <2>7, <2>8, <2>9 DEF Next, HeartbeatFires
<1>3. QED
  BY <1>1, <1>2, TypeCorrect, PTL DEF Spec

(* With a limit of at least one attempt (the code has five) nobody is ever shown *)
(* offline, devices or not: each device that is taken away leaves behind one     *)
(* that was counted and never is.                                                *)
NeverOffline == \A u \in Users :
    presence[u].status # "offline" /\ (Known(u) => presence[u].deviceCount > 0)

THEOREM OfflineUnreachable == MaxReconnectAttempts > 0 => (Spec => []NeverOffline)
<1> SUFFICES ASSUME MaxReconnectAttempts > 0 PROVE Spec => []NeverOffline
  OBVIOUS
<1>1. Init => NeverOffline
  <2>1. ASSUME Init, NEW u \in Users PROVE presence[u].status = "unknown"
    <3>1. presence[u] = Unknown
      BY <2>1 DEF Init
    <3>2. QED
      BY <3>1 DEF Unknown
  <2>2. QED
    BY <2>1 DEF NeverOffline, Known
<1>2. TypeOK /\ Counted /\ NeverOffline /\ [Next]_vars => NeverOffline'
  <2> SUFFICES ASSUME TypeOK, Counted, NeverOffline, [Next]_vars, NEW u \in Users
               PROVE  presence'[u].status # "offline"
                      /\ (presence'[u].status # "unknown" => presence'[u].deviceCount > 0)
    BY DEF NeverOffline, Known
  <2>0. /\ presence[u] \in PresenceType /\ presence[u].deviceCount \in Nat
        /\ presence[u].status # "offline"
        /\ presence[u].status # "unknown" => presence[u].deviceCount > 0
    BY DEF NeverOffline, Known, TypeOK, PresenceType
  <2>1. ASSUME presence'[u].status = presence[u].status,
               presence'[u].deviceCount = presence[u].deviceCount
        PROVE  presence'[u].status # "offline"
               /\ (presence'[u].status # "unknown" => presence'[u].deviceCount > 0)
    BY <2>0, <2>1
  <2>2. ASSUME NEW s \in Sockets, Connect(s)
        PROVE  presence'[u].status # "offline"
               /\ (presence'[u].status # "unknown" => presence'[u].deviceCount > 0)
    <3>1. CASE u = Owner[s]
      <4>1. presence'[u].status = "online" /\ presence'[u].deviceCount = presence[u].deviceCount + 1
        BY <2>2, <3>1 DEF Connect, TypeOK, PresenceType
      <4>2. QED
        BY <2>0, <4>1
    <3>2. CASE u # Owner[s]
      BY <2>1, <2>2, <3>2 DEF Connect, TypeOK
    <3>3. QED
      BY <3>1, <3>2
  <2>3. ASSUME NEW s \in Sockets, DisconnectGivesUp(s)
        PROVE  presence'[u].status # "offline"
               /\ (presence'[u].status # "unknown" => presence'[u].deviceCount > 0)
    <3>1. CASE u = Owner[s] /\ Known(u)
      <4>1. presence'[u] = WithoutDevice(presence[u])
        BY <2>3, <3>1 DEF DisconnectGivesUp, DropDevice, TypeOK
      <4>2. Live(u) # {}
        BY <2>3, <3>1 DEF DisconnectGivesUp, Live, SocketsOf
      <4>3. Cardinality(Live(u)) # 0 /\ Cardinality(Live(u)) \in Nat
        BY <4>2, LiveFinite, FS_EmptySet
      <4>4. attempts[u] \in Nat /\ attempts[u] > 0
        BY <2>3, <3>1, MaxReconnectAssumption DEF DisconnectGivesUp, TypeOK
      <4>5. presence[u].deviceCount >= Cardinality(Live(u)) + attempts[u]
        BY DEF Counted, CountInv
      <4>6. presence[u].deviceCount > 1
        BY <2>0, <4>3, <4>4, <4>5
      <4>7. presence'[u].status = presence[u].status
            /\ presence'[u].deviceCount = presence[u].deviceCount - 1
        BY <2>0, <4>1, <4>6, WithoutDeviceEntry
      <4>8. QED
        BY <2>0, <4>6, <4>7
    <3>2. CASE ~(u = Owner[s] /\ Known(u))
      <4>1. presence'[u] = presence[u]
        BY <2>3, <3>2 DEF DisconnectGivesUp, DropDevice, TypeOK
      <4>2. QED
        BY <2>1, <4>1
    <3>3. QED
      BY <3>1, <3>2
  <2>4. ASSUME NEW s \in Sockets, BackoffFires(s) PROVE presence'[u] = presence[u]
    <3>1. Owner[s] \in Users
      BY OwnerAssumption
    <3>2. Known(Owner[s]) => presence[Owner[s]].deviceCount # 0
      BY <3>1 DEF NeverOffline, TypeOK, PresenceType
    <3>3. QED
      BY <2>4, <3>2 DEF BackoffFires, DropDevice
  <2>5. ASSUME \/ \E s \in Sockets, c \in Conversations : StartTyping(s, c)
               \/ \E s \in Sockets : StopTyping(s) \/ DisconnectBacksOff(s)
               \/ \E v \in Users, c \in Conversations : TypingTimerFires(v, c)
        PROVE  presence'[u].status = presence[u].status
               /\ presence'[u].deviceCount = presence[u].deviceCount
    <3>1. ASSUME NEW s \in Sockets, NEW c \in Conversations, StartTyping(s, c)
          PROVE  presence'[u].status = presence[u].status
                 /\ presence'[u].deviceCount = presence[u].deviceCount
      BY <2>0, <3>1 DEF StartTyping, TypeOK, PresenceType
    <3>2. ASSUME NEW s \in Sockets, StopTyping(s) \/ DisconnectBacksOff(s)
          PROVE  presence'[u].status = presence[u].status
                 /\ presence'[u].deviceCount = presence[u].deviceCount
      <4>1. CASE StopTyping(s)
        BY <2>0, <4>1 DEF StopTyping, TypeOK, PresenceType
      <4>2. CASE DisconnectBacksOff(s)
        BY <4>2 DEF DisconnectBacksOff
      <4>3. QED
        BY <3>2, <4>1, <4>2
    <3>3. ASSUME NEW v \in Users, NEW c \in Conversations, TypingTimerFires(v, c)
          PROVE  presence'[u].status = presence[u].status
                 /\ presence'[u].deviceCount = presence[u].deviceCount
      BY <2>0, <3>3 DEF TypingTimerFires, TypeOK, PresenceType
    <3>4. QED
      BY <2>5, <3>1, <3>2, <3>3
  <2>6. CASE Restart
    BY <2>6 DEF Restart, Unknown
  <2>7. CASE UNCHANGED vars
    BY <2>1, <2>7 DEF vars
  <2>8. QED
    BY <2>1, <2>2, <2>3, <2>4, <2>5, <2>6, <2>7 DEF Next, HeartbeatFires
<1>3. QED
  BY <1>1, <1>2, CountedHolds, PTL DEF Spec
--------------------------------------------------------------------------------
(***************************************************************************)
(* ContentCache.  What a request holds at each of its steps: from the row  *)
(* it found on, a fill has a version.                                      *)
(***************************************************************************)
HoldsInProgress(q) ==
    /\ q.pc = "idle" => q = Idle
    /\ q.pc \in {"get", "find"} => q.kind # "write" /\ q.entity = 0
    /\ q.pc \in {"load", "update", "commit", "set"} => q.kind # "write"
    /\ q.kind # "write" /\ q.pc \notin {"idle", "get", "find"} => q.entity # 0
    /\ q.kind = "write" => q.entity = 0
    /\ q.kind = "reload" => q.pc \in {"find", "set"}

RequestsHold == \A r \in Requests : HoldsInProgress(req[r])

(* Nothing is read before the row is created. *)
NothingBeforeCreation ==
    latest = 0 => row = 0 /\ \A r \in Requests : req[r].entity = 0

CacheTyped == CacheTypeOK /\ RequestsHold /\ NothingBeforeCreation

(***************************************************************************)
(* As long as no write met a fill, every fill holds the row as it is, and  *)
(* a region's copy that is not the row is about to be deleted by a write.  *)
(***************************************************************************)
HoldsRow(q, version) ==
    q.kind # "write" /\ q.entity # 0 =>
       /\ q.entity = version
       /\ q.pc \in {"update", "keys", "del", "commit"} => q.loaded = version

FillsAreCurrent == ~raced => \A r \in Requests : HoldsRow(req[r], row)

Deletes(q, k) ==
    /\ q.kind = "write"
    /\ \/ q.pc = "keys"
       \/ q.pc = "del" /\ k \in q.found

StaleIsDeleted ==
    ~raced => \A k \in Regions : Current(k) \/ \E r \in Requests : Deletes(req[r], k)

(***************************************************************************)
(* A read that is not late loads the version it found.                     *)
(***************************************************************************)
LoadsWhatItFound(q, version) ==
    q.kind = "read" =>
       /\ q.pc = "load" => q.entity = version
       /\ q.pc \in {"update", "keys", "del", "commit"} => q.loaded = q.entity

SavesWhatItRead == \A r \in Requests \ late : LoadsWhatItFound(req[r], row)

CacheInv == CacheTyped /\ FillsAreCurrent /\ StaleIsDeleted /\ SavesWhatItRead

LEMMA CacheInvInit == CacheInit => CacheInv
<1> SUFFICES ASSUME CacheInit PROVE CacheInv
  OBVIOUS
<1>1. 0 \in Versions /\ 0 \in 0..Threshold /\ Default \in Keys
  BY VersionsAssumption, ThresholdAssumption DEF Versions, Keys
<1>2. Idle \in Request
  BY <1>1 DEF Idle, Request
<1>3. CacheTypeOK
  BY <1>1, <1>2, ThresholdAssumption DEF CacheInit, CacheTypeOK, Breaker
<1>4. \A r \in Requests : req[r] = Idle
  BY DEF CacheInit
<1>5. HoldsInProgress(Idle) /\ Idle.entity = 0
  BY DEF Idle, HoldsInProgress
<1>6. CacheTyped
  BY <1>3, <1>4, <1>5 DEF CacheTyped, RequestsHold, NothingBeforeCreation, CacheInit
<1>7. HoldsRow(Idle, row) /\ LoadsWhatItFound(Idle, row)
  BY DEF Idle, HoldsRow, LoadsWhatItFound
<1>8. \A k \in Regions : Current(k)
  BY DEF CacheInit, Current, Keys
<1>9. QED
  BY <1>4, <1>6, <1>7, <1>8 DEF CacheInv, FillsAreCurrent, StaleIsDeleted, SavesWhatItRead

(* A request in place of another: what is known of the others stays. *)
LEMMA RequestReplaced ==
    ASSUME CacheTyped, NEW r \in Requests, NEW new \in Request,
           req' = [req EXCEPT ![r] = new]
    PROVE  /\ req' \in [Requests -> Request]
           /\ req'[r] = new
           /\ \A q \in Requests \ {r} : req'[q] = req[q]
BY DEF CacheTyped, CacheTypeOK

LEMMA RequestsStillHold ==
    ASSUME CacheTyped, NEW r \in Requests, NEW new \in Request,
           req' = [req EXCEPT ![r] = new], HoldsInProgress(new)
    PROVE  RequestsHold'
<1>1. \A q \in Requests : req'[q] = req[q] \/ req'[q] = new
  BY RequestReplaced
<1>2. QED
  BY <1>1 DEF CacheTyped, RequestsHold

LEMMA NothingStillBeforeCreation ==
    ASSUME CacheTyped, NEW r \in Requests, NEW new \in Request,
           req' = [req EXCEPT ![r] = new],
           latest' = 0 => latest = 0 /\ row' = 0 /\ new.entity = 0
    PROVE  NothingBeforeCreation'
<1>1. \A q \in Requests : req'[q] = req[q] \/ req'[q] = new
  BY RequestReplaced
<1>2. QED
  BY <1>1 DEF CacheTyped, NothingBeforeCreation

(* A step that writes neither a copy nor, as far as it matters, the row. *)
LEMMA StaleStays ==
    ASSUME CacheInv, NEW r \in Requests, \A q \in Requests \ {r} : req'[q] = req[q],
           req[r].kind # "write", UNCHANGED <<cache, raced>>, ~raced => row' = row
    PROVE  StaleIsDeleted'
<1> SUFFICES ASSUME ~raced, NEW k \in Regions
             PROVE  Current(k)' \/ \E q \in Requests : Deletes(req'[q], k)
  BY DEF StaleIsDeleted
<1>1. CASE Current(k)
  BY <1>1 DEF Current
<1>2. ASSUME NEW q \in Requests, Deletes(req[q], k)
      PROVE  Deletes(req'[q], k)
  BY <1>2 DEF Deletes
<1>3. QED
  BY <1>1, <1>2 DEF CacheInv, StaleIsDeleted

(* A step of a read or a reload that leaves the row and the copies alone. *)
LEMMA FillMoves ==
    ASSUME CacheInv, NEW r \in Requests, NEW new \in Request,
           req' = [req EXCEPT ![r] = new], UNCHANGED <<row, cache, latest, raced>>,
           breaker' \in Breaker, breaker'.isOpen => breaker'.failures = Threshold,
           hits' \in [Keys -> Nat], popular' \subseteq Keys, late' \subseteq Requests,
           late \ {r} \subseteq late', req[r].kind # "write",
           HoldsInProgress(new), latest = 0 => new.entity = 0,
           ~raced => HoldsRow(new, row), r \notin late' => LoadsWhatItFound(new, row)
    PROVE  CacheInv'
<1>1. /\ req' \in [Requests -> Request]
      /\ req'[r] = new
      /\ \A q \in Requests \ {r} : req'[q] = req[q]
  BY RequestReplaced DEF CacheInv
<1>2. CacheTypeOK'
  BY <1>1 DEF CacheInv, CacheTyped, CacheTypeOK
<1>3. RequestsHold'
  BY RequestsStillHold DEF CacheInv
<1>4. NothingBeforeCreation'
  BY NothingStillBeforeCreation DEF CacheInv, CacheTyped, NothingBeforeCreation
<1>5. FillsAreCurrent'
  BY <1>1 DEF CacheInv, FillsAreCurrent
<1>6. StaleIsDeleted'
  BY <1>1, StaleStays
<1>7. SavesWhatItRead'
  <2> SUFFICES ASSUME NEW q \in Requests \ late' PROVE LoadsWhatItFound(req'[q], row)
    BY DEF SavesWhatItRead
  <2>1. CASE q = r
    BY <1>1, <2>1
  <2>2. CASE q # r
    BY <1>1, <2>2 DEF CacheInv, SavesWhatItRead
  <2>3. QED
    BY <2>1, <2>2
<1>8. QED
  BY <1>2, <1>3, <1>4, <1>5, <1>6, <1>7 DEF CacheInv, CacheTyped

(* The row is written: who had read it and not begun a save is late. *)
LEMMA RowIsWritten ==
    ASSUME CacheInv, NEW r \in Requests, NEW new \in Request,
           req' = [req EXCEPT ![r] = new], HoldsInProgress(new),
           latest' # 0, RowWritten(r), LoadsWhatItFound(new, row')
    PROVE  RequestsHold' /\ NothingBeforeCreation' /\ SavesWhatItRead'
           /\ late' \subseteq Requests
<1>1. /\ req'[r] = new
      /\ \A q \in Requests \ {r} : req'[q] = req[q]
  BY RequestReplaced DEF CacheInv
<1>2. RequestsHold' /\ NothingBeforeCreation'
  BY RequestsStillHold, NothingStillBeforeCreation DEF CacheInv
<1>3. SavesWhatItRead'
  <2> SUFFICES ASSUME NEW q \in Requests \ late' PROVE LoadsWhatItFound(req'[q], row')
    BY DEF SavesWhatItRead
  <2>1. CASE q = r
    BY <1>1, <2>1
  <2>2. CASE q # r
    <3>1. q \notin late /\ req[q].pc # "load"
      BY <2>2 DEF RowWritten
    <3>2. LoadsWhatItFound(req[q], row)
      BY <3>1 DEF CacheInv, SavesWhatItRead
    <3>3. QED
      BY <1>1, <2>2, <3>1, <3>2 DEF LoadsWhatItFound
  <2>3. QED
    BY <2>1, <2>2
<1>4. late' \subseteq Requests
  BY DEF RowWritten, CacheInv, CacheTyped, CacheTypeOK
<1>5. QED
  BY <1>2, <1>3, <1>4

(* The circuit breaker keeps its type, and open it has its failures. *)
LEMMA BreakerTyped ==
    ASSUME CacheTypeOK, AskCircuit \/ RecordSuccess \/ RecordFailure \/ UNCHANGED breaker
    PROVE  breaker' \in Breaker /\ (breaker'.isOpen => breaker'.failures = Threshold)
<1>0. /\ breaker \in Breaker /\ breaker.failures \in 0..Threshold
      /\ breaker.isOpen \in BOOLEAN /\ breaker.cooled \in BOOLEAN
      /\ breaker.isOpen => breaker.failures = Threshold
  BY DEF CacheTypeOK, Breaker
<1>1. CASE AskCircuit
  BY <1>0, <1>1 DEF AskCircuit, Breaker
<1>2. CASE RecordSuccess
  BY <1>2, ThresholdAssumption DEF RecordSuccess, Breaker
<1>3. CASE RecordFailure
  <2> DEFINE n == IF breaker.failures < Threshold THEN breaker.failures + 1 ELSE Threshold
  <2>1. n \in 0..Threshold /\ (breaker.isOpen \/ n >= Threshold => n = Threshold)
    BY <1>0, ThresholdAssumption
  <2>2. breaker' = [failures |-> n, isOpen |-> n >= Threshold \/ breaker.isOpen, cooled |-> FALSE]
    BY <1>3 DEF RecordFailure
  <2> HIDE DEF n
  <2>3. (n >= Threshold \/ breaker.isOpen) \in BOOLEAN
    BY <1>0
  <2>4. QED
    BY <2>1, <2>2, <2>3 DEF Breaker
<1>4. CASE UNCHANGED breaker
  BY <1>0, <1>4
<1>5. QED
  BY <1>1, <1>2, <1>3, <1>4

(* What the invariant says of one request. *)
LEMMA RequestInv ==
    ASSUME CacheInv, NEW r \in Requests
    PROVE  /\ req \in [Requests -> Request] /\ req[r] \in Request
           /\ row \in Versions /\ 0 \in Versions
           /\ HoldsInProgress(req[r])
           /\ latest = 0 => row = 0 /\ req[r].entity = 0
           /\ ~raced => HoldsRow(req[r], row)
           /\ r \notin late => LoadsWhatItFound(req[r], row)
<1>1. 0 \in Versions
  BY VersionsAssumption DEF Versions
<1>2. QED
  BY <1>1 DEF CacheInv, CacheTyped, CacheTypeOK, RequestsHold, NothingBeforeCreation,
              FillsAreCurrent, SavesWhatItRead

LEMMA IdleFits ==
    /\ Idle \in Request
    /\ HoldsInProgress(Idle) /\ Idle.entity = 0
    /\ \A version : HoldsRow(Idle, version) /\ LoadsWhatItFound(Idle, version)
<1>1. 0 \in Versions /\ Default \in Keys
  BY VersionsAssumption DEF Versions, Keys
<1>2. QED
  BY <1>1 DEF Idle, Request, HoldsInProgress, HoldsRow, LoadsWhatItFound

(* A read or a reload that ends. *)
LEMMA FillEnds ==
    ASSUME CacheInv, NEW r \in Requests, End(r), UNCHANGED <<row, cache, latest, raced>>,
           AskCircuit \/ RecordSuccess \/ RecordFailure \/ UNCHANGED breaker,
           hits' \in [Keys -> Nat], popular' \subseteq Keys, late' \subseteq Requests,
           late \ {r} \subseteq late', req[r].kind # "write"
    PROVE  CacheInv'
<1>1. breaker' \in Breaker /\ (breaker'.isOpen => breaker'.failures = Threshold)
  BY BreakerTyped DEF CacheInv, CacheTyped
<1>2. req' = [req EXCEPT ![r] = Idle]
  BY DEF End
<1>3. QED
  BY <1>1, <1>2, IdleFits, FillMoves, Zenon

LEMMA KeptByGetContent ==
    ASSUME CacheInv, NEW r \in Requests, NEW k \in Keys, NEW forceFresh \in BOOLEAN,
           GetContent(r, k, forceFresh)
    PROVE  CacheInv'
<1> DEFINE pc == IF ~forceFresh /\ IsCircuitClosed THEN "get" ELSE "find"
           new == [req[r] EXCEPT !.kind = "read", !.key = k, !.pc = pc]
<1>1. req[r] = Idle /\ req[r] \in Request
  BY RequestInv DEF GetContent, HoldsInProgress
<1>2. pc \in {"get", "find"}
  OBVIOUS
<1>3. req' = [req EXCEPT ![r] = new]
  BY RequestInv DEF GetContent
<1>4. /\ new \in Request
      /\ new.pc \in {"get", "find"} /\ new.kind = "read" /\ new.entity = 0
  <2>1. req[r].entity = 0
    BY <1>1 DEF Idle
  <2> HIDE DEF pc
  <2>2. new.pc = pc /\ new.kind = "read" /\ new.entity = req[r].entity
    BY <1>1 DEF Request
  <2>3. new \in Request
    BY <1>1, <1>2 DEF Request
  <2>4. QED
    BY <1>2, <2>1, <2>2, <2>3
<1> HIDE DEF pc, new
<1>5. HoldsInProgress(new) /\ HoldsRow(new, row) /\ LoadsWhatItFound(new, row)
  BY <1>4 DEF HoldsInProgress, HoldsRow, LoadsWhatItFound
<1>6. AskCircuit \/ UNCHANGED breaker
  BY DEF GetContent
<1>7. breaker' \in Breaker /\ (breaker'.isOpen => breaker'.failures = Threshold)
  BY <1>6, BreakerTyped DEF CacheInv, CacheTyped
<1>8. /\ UNCHANGED <<row, cache, latest, raced>>
      /\ hits' \in [Keys -> Nat] /\ popular' \subseteq Keys
      /\ late' \subseteq Requests /\ late \ {r} \subseteq late'
      /\ req[r].kind # "write"
  BY <1>1 DEF GetContent, historyVars, CacheInv, CacheTyped, CacheTypeOK, Idle
<1>9. QED
  BY <1>3, <1>4, <1>5, <1>7, <1>8, FillMoves

LEMMA KeptByCacheHit ==
    ASSUME CacheInv, NEW r \in Requests, CacheHit(r)
    PROVE  CacheInv'
<1> DEFINE k == req[r].key
           n == IF hits[k] > PopularThreshold THEN hits[k] ELSE hits[k] + 1
<1>1. k \in Keys /\ hits[k] \in Nat /\ req[r].kind # "write"
  BY RequestInv DEF CacheHit, CacheInv, CacheTyped, CacheTypeOK, Request, HoldsInProgress
<1>2. n \in Nat
  BY <1>1
<1>3. /\ hits' = [hits EXCEPT ![k] = n]
      /\ popular' \subseteq popular \cup {k}
      /\ End(r) /\ UNCHANGED <<row, cache, breaker, latest, raced, late>>
  BY DEF CacheHit, historyVars
<1> HIDE DEF k, n
<1>4. /\ hits' \in [Keys -> Nat] /\ popular' \subseteq Keys
      /\ late' \subseteq Requests /\ late \ {r} \subseteq late'
  BY <1>1, <1>2, <1>3 DEF CacheInv, CacheTyped, CacheTypeOK
<1>5. QED
  BY <1>1, <1>3, <1>4, FillEnds

LEMMA GoesFurther ==
    ASSUME CacheInv, NEW r \in Requests,
           NEW pc \in {"find", "keys", "del", "commit", "set"}, Goto(r, pc),
           HoldsInProgress([req[r] EXCEPT !.pc = pc]),
           req[r].kind # "write",
           pc # "find" => req[r].pc \in {"update", "keys", "del", "commit"},
           UNCHANGED <<row, cache, latest, raced>>,
           AskCircuit \/ RecordSuccess \/ RecordFailure \/ UNCHANGED breaker,
           hits' \in [Keys -> Nat], popular' \subseteq Keys, late' \subseteq Requests,
           late \ {r} \subseteq late', r \in late => r \in late' \/ pc \in {"find", "set"}
    PROVE  CacheInv'
<1> DEFINE new == [req[r] EXCEPT !.pc = pc]
<1>1. req' = [req EXCEPT ![r] = new]
  BY RequestInv DEF Goto
<1>2. /\ new \in Request
      /\ new.pc = pc /\ new.kind = req[r].kind
      /\ new.entity = req[r].entity /\ new.loaded = req[r].loaded
  BY RequestInv DEF Request
<1>3. HoldsInProgress(new)
  OBVIOUS
<1> HIDE DEF new
<1>4. latest = 0 => new.entity = 0
  BY <1>2, RequestInv
<1>5. ~raced => HoldsRow(new, row)
  BY <1>2, <1>3, RequestInv DEF HoldsRow, HoldsInProgress
<1>6. r \notin late' => LoadsWhatItFound(new, row)
  BY <1>2, RequestInv DEF LoadsWhatItFound
<1>7. breaker' \in Breaker /\ (breaker'.isOpen => breaker'.failures = Threshold)
  BY BreakerTyped DEF CacheInv, CacheTyped
<1>8. QED
  BY <1>1, <1>2, <1>3, <1>4, <1>5, <1>6, <1>7, FillMoves

LEMMA KeptByLookup ==
    ASSUME CacheInv, NEW r \in Requests,
           CacheMiss(r) \/ CacheGetFails(r) \/ UpdateRow(r)
    PROVE  CacheInv'
<1>1. /\ UNCHANGED <<row, cache, latest, raced>> /\ late' = late
      /\ AskCircuit \/ RecordSuccess \/ RecordFailure \/ UNCHANGED breaker
      /\ hits' = hits /\ popular' = popular
  BY DEF CacheMiss, CacheGetFails, UpdateRow, aside, historyVars
<1>2. /\ hits' \in [Keys -> Nat] /\ popular' \subseteq Keys
      /\ late' \subseteq Requests /\ late \ {r} \subseteq late'
  BY <1>1 DEF CacheInv, CacheTyped, CacheTypeOK
<1>3. CASE CacheMiss(r) \/ CacheGetFails(r)
  <2>1. req[r].pc = "get" /\ Goto(r, "find")
    BY <1>3 DEF CacheMiss, CacheGetFails
  <2>2. req[r].kind # "write" /\ req[r].entity = 0
    BY <2>1, RequestInv DEF HoldsInProgress
  <2>3. HoldsInProgress([req[r] EXCEPT !.pc = "find"])
    BY <2>2, RequestInv DEF HoldsInProgress, Request
  <2>4. QED
    BY <1>1, <1>2, <2>1, <2>2, <2>3, GoesFurther
<1>4. CASE UpdateRow(r)
  <2>1. req[r].pc = "update" /\ Goto(r, "keys")
    BY <1>4 DEF UpdateRow
  <2>2. HoldsInProgress(req[r]) /\ req[r] \in Request
    BY RequestInv
  <2>3. req[r].kind = "read" /\ req[r].entity # 0
    BY <2>1, <2>2 DEF HoldsInProgress, Request
  <2>4. HoldsInProgress([req[r] EXCEPT !.pc = "keys"])
    BY <2>2, <2>3 DEF HoldsInProgress, Request
  <2>5. QED
    BY <1>1, <1>2, <2>1, <2>3, <2>4, GoesFurther
<1>5. QED
  BY <1>3, <1>4

LEMMA KeptByFind ==
    ASSUME CacheInv, NEW r \in Requests, Find(r)
    PROVE  CacheInv'
<1>1. /\ UNCHANGED <<row, cache, latest, raced, breaker, hits, popular>>
      /\ late' = late \ {r}
      /\ req[r].pc = "find"
  BY DEF Find, aside
<1>2. /\ hits' \in [Keys -> Nat] /\ popular' \subseteq Keys
      /\ late' \subseteq Requests /\ late \ {r} \subseteq late'
      /\ req[r].kind \in {"read", "reload"} /\ req[r] \in Request /\ row \in Versions
  BY <1>1, RequestInv DEF CacheInv, CacheTyped, CacheTypeOK, HoldsInProgress, Request
<1>3. CASE row = 0
  <2>1. End(r)
    BY <1>3 DEF Find
  <2>2. QED
    BY <1>1, <1>2, <2>1, FillEnds
<1>4. CASE row # 0
  <2> DEFINE pc == IF req[r].kind = "reload" THEN "set" ELSE "load"
             new == [req[r] EXCEPT !.entity = row, !.pc = pc]
  <2>1. req' = [req EXCEPT ![r] = new]
    BY <1>4, RequestInv DEF Find
  <2>2. pc \in {"set", "load"} /\ (req[r].kind = "reload" <=> pc = "set")
    OBVIOUS
  <2>3. /\ new \in Request
        /\ new.pc = pc /\ new.kind = req[r].kind /\ new.entity = row
    <3> HIDE DEF pc
    <3>1. QED
      BY <1>2, <2>2 DEF Request
  <2> HIDE DEF pc, new
  <2>4. HoldsInProgress(new) /\ HoldsRow(new, row) /\ LoadsWhatItFound(new, row)
    BY <1>2, <1>4, <2>2, <2>3 DEF HoldsInProgress, HoldsRow, LoadsWhatItFound
  <2>5. latest # 0
    BY <1>4, RequestInv
  <2>6. breaker' \in Breaker /\ (breaker'.isOpen => breaker'.failures = Threshold)
    BY <1>1 DEF CacheInv, CacheTyped, CacheTypeOK
  <2>7. QED
    BY <1>1, <1>2, <2>1, <2>3, <2>4, <2>5, <2>6, FillMoves
<1>5. QED
  BY <1>3, <1>4

(* The SELECT of a save, and KEYS inside it. *)
LEMMA KeptByLoadRow ==
    ASSUME CacheInv, NEW r \in Requests, LoadRow(r)
    PROVE  CacheInv'
<1> DEFINE new == [req[r] EXCEPT !.loaded = row, !.pc = "update"]
<1>1. /\ UNCHANGED <<row, cache, latest, raced, breaker, hits, popular>> /\ late' = late
      /\ req[r].pc = "load"
      /\ req' = [req EXCEPT ![r] = new]
  BY RequestInv DEF LoadRow, aside, historyVars
<1>2. /\ hits' \in [Keys -> Nat] /\ popular' \subseteq Keys
      /\ late' \subseteq Requests /\ late \ {r} \subseteq late'
      /\ breaker' \in Breaker /\ (breaker'.isOpen => breaker'.failures = Threshold)
  BY <1>1 DEF CacheInv, CacheTyped, CacheTypeOK
<1>3. /\ HoldsInProgress(req[r]) /\ req[r] \in Request /\ row \in Versions
      /\ req[r].kind = "read" /\ req[r].entity # 0 /\ latest # 0
  BY <1>1, RequestInv DEF HoldsInProgress, Request
<1>4. /\ new \in Request
      /\ new.pc = "update" /\ new.kind = "read" /\ new.entity = req[r].entity
      /\ new.loaded = row
  BY <1>3 DEF Request
<1> HIDE DEF new
<1>5. HoldsInProgress(new)
  BY <1>3, <1>4 DEF HoldsInProgress
<1>6. ~raced => HoldsRow(new, row)
  BY <1>3, <1>4, RequestInv DEF HoldsRow
<1>7. r \notin late' => LoadsWhatItFound(new, row)
  BY <1>1, <1>3, <1>4, RequestInv DEF LoadsWhatItFound
<1>8. QED
  BY <1>1, <1>2, <1>3, <1>4, <1>5, <1>6, <1>7, FillMoves

LEMMA KeptByReadKeys ==
    ASSUME CacheInv, NEW r \in Requests, ReadKeys(r)
    PROVE  CacheInv'
<1> DEFINE found == {k \in Regions : cache[k] # 0}
           new == [req[r] EXCEPT !.found = found, !.pc = "del"]
<1>1. /\ UNCHANGED <<row, cache, latest, raced, breaker, hits, popular>> /\ late' = late
      /\ req[r].pc = "keys"
      /\ req' = [req EXCEPT ![r] = new]
  BY RequestInv DEF ReadKeys, aside, historyVars
<1>2. /\ hits' \in [Keys -> Nat] /\ popular' \subseteq Keys
      /\ late' \subseteq Requests /\ late \ {r} \subseteq late'
      /\ breaker' \in Breaker /\ (breaker'.isOpen => breaker'.failures = Threshold)
  BY <1>1 DEF CacheInv, CacheTyped, CacheTypeOK
<1>3. HoldsInProgress(req[r]) /\ req[r] \in Request /\ found \in SUBSET Regions
  BY RequestInv
<1>4. /\ new \in Request
      /\ new.pc = "del" /\ new.kind = req[r].kind /\ new.entity = req[r].entity
      /\ new.loaded = req[r].loaded /\ new.found = found
  <2> HIDE DEF found
  <2>1. QED
    BY <1>3 DEF Request
<1> HIDE DEF new
<1>5. HoldsInProgress(new) /\ (latest = 0 => new.entity = 0)
  BY <1>1, <1>3, <1>4, RequestInv DEF HoldsInProgress
<1>6. /\ ~raced => HoldsRow(new, row)
      /\ r \notin late' => LoadsWhatItFound(new, row)
  BY <1>1, <1>4, RequestInv DEF HoldsRow, LoadsWhatItFound
<1>7. CASE req[r].kind # "write"
  BY <1>1, <1>2, <1>4, <1>5, <1>6, <1>7, FillMoves
<1>8. CASE req[r].kind = "write"
  <2>1. /\ req' \in [Requests -> Request]
        /\ req'[r] = new
        /\ \A q \in Requests \ {r} : req'[q] = req[q]
    BY <1>1, <1>4, RequestReplaced DEF CacheInv
  <2>2. CacheTypeOK'
    BY <1>1, <1>2, <2>1 DEF CacheInv, CacheTyped, CacheTypeOK
  <2>3. RequestsHold' /\ NothingBeforeCreation'
    BY <1>1, <1>4, <1>5, RequestsStillHold, NothingStillBeforeCreation
       DEF CacheInv, CacheTyped, NothingBeforeCreation
  <2>4. FillsAreCurrent' /\ SavesWhatItRead'
    <3>1. \A q \in Requests : req'[q] = req[q] \/ (q = r /\ req'[q] = new)
      BY <2>1
    <3>2. QED
      BY <1>1, <1>6, <3>1 DEF CacheInv, FillsAreCurrent, SavesWhatItRead
  <2>5. StaleIsDeleted'
    <3> SUFFICES ASSUME ~raced, NEW k \in Regions, ~Current(k)
                 PROVE  \E q \in Requests : Deletes(req'[q], k)
      BY <1>1 DEF StaleIsDeleted, Current
    <3>1. PICK q \in Requests : Deletes(req[q], k)
      BY DEF CacheInv, StaleIsDeleted
    <3>2. CASE q = r
      <4>1. k \in found
        BY DEF Current
      <4>2. QED
        BY <1>4, <1>8, <2>1, <4>1 DEF Deletes
    <3>3. CASE q # r
      BY <2>1, <3>1, <3>3
    <3>4. QED
      BY <3>2, <3>3
  <2>6. QED
    BY <2>2, <2>3, <2>4, <2>5 DEF CacheInv, CacheTyped
<1>9. QED
  BY <1>7, <1>8

LEMMA KeptByFailures ==
    ASSUME CacheInv, NEW r \in Requests, StoreCopyFails(r) \/ ReadFails(r)
    PROVE  CacheInv'
<1>1. /\ UNCHANGED <<row, cache, latest, raced, hits, popular>>
      /\ End(r)
      /\ AskCircuit \/ RecordSuccess \/ RecordFailure \/ UNCHANGED breaker
      /\ late' = late \/ late' = late \ {r}
      /\ req[r].kind # "write" \/ req[r].pc = "set"
  BY DEF StoreCopyFails, ReadFails, aside, historyVars
<1>2. /\ hits' \in [Keys -> Nat] /\ popular' \subseteq Keys
      /\ late' \subseteq Requests /\ late \ {r} \subseteq late'
  BY <1>1 DEF CacheInv, CacheTyped, CacheTypeOK
<1>3. req[r].kind # "write"
  BY <1>1, RequestInv DEF HoldsInProgress
<1>4. QED
  BY <1>1, <1>2, <1>3, FillEnds

(* A request that begins as an invalidation or as a reload. *)
LEMMA KeptByBeginnings ==
    ASSUME CacheInv, NEW r \in Requests,
           InvalidateOnly(r) \/ \E k \in Keys : BackgroundReload(r, k)
    PROVE  CacheInv'
<1>1. /\ UNCHANGED <<row, cache, latest, raced, breaker, hits, popular>> /\ late' = late
      /\ req[r].pc = "idle"
  BY DEF InvalidateOnly, BackgroundReload, aside, historyVars
<1>2. /\ hits' \in [Keys -> Nat] /\ popular' \subseteq Keys
      /\ late' \subseteq Requests /\ late \ {r} \subseteq late'
      /\ breaker' \in Breaker /\ (breaker'.isOpen => breaker'.failures = Threshold)
  BY <1>1 DEF CacheInv, CacheTyped, CacheTypeOK
<1>3. req[r] \in Request /\ req[r] = Idle
  BY <1>1, RequestInv DEF HoldsInProgress
<1>4. req[r].kind = "read" /\ req[r].entity = 0
  BY <1>3 DEF Idle
<1>5. CASE InvalidateOnly(r)
  <2> DEFINE new == [req[r] EXCEPT !.kind = "write", !.pc = "keys"]
  <2>1. req' = [req EXCEPT ![r] = new]
    BY <1>5, RequestInv DEF InvalidateOnly, Invalidate
  <2>2. new \in Request /\ new.kind = "write" /\ new.pc = "keys" /\ new.entity = 0
    BY <1>3, <1>4 DEF Request
  <2> HIDE DEF new
  <2>3. HoldsInProgress(new) /\ HoldsRow(new, row) /\ LoadsWhatItFound(new, row)
    BY <2>2 DEF HoldsInProgress, HoldsRow, LoadsWhatItFound
  <2>4. QED
    BY <1>1, <1>2, <1>4, <2>1, <2>2, <2>3, FillMoves
<1>6. ASSUME NEW k \in Keys, BackgroundReload(r, k) PROVE CacheInv'
  <2> DEFINE new == [req[r] EXCEPT !.kind = "reload", !.key = k, !.pc = "find"]
  <2>1. req' = [req EXCEPT ![r] = new]
    BY <1>6, RequestInv DEF BackgroundReload
  <2>2. new \in Request /\ new.kind = "reload" /\ new.pc = "find" /\ new.entity = 0
    BY <1>3, <1>4 DEF Request
  <2> HIDE DEF new
  <2>3. HoldsInProgress(new) /\ HoldsRow(new, row) /\ LoadsWhatItFound(new, row)
    BY <2>2 DEF HoldsInProgress, HoldsRow, LoadsWhatItFound
  <2>4. QED
    BY <1>1, <1>2, <1>4, <2>1, <2>2, <2>3, FillMoves
<1>7. QED
  BY <1>5, <1>6

(* The end of a save that writes: without a race it writes what is there. *)
LEMMA KeptBySave ==
    ASSUME CacheInv, NEW r \in Requests, InsertRow(r) \/ Commit(r)
    PROVE  CacheInv' /\ (req[r].kind = "read" /\ row' # row => r \in late)
<1> DEFINE new == [req[r] EXCEPT !.pc = "set"]
<1>1. /\ UNCHANGED <<cache, latest, raced, breaker, hits, popular>>
      /\ RowWritten(r)
      /\ req[r].pc \in {"update", "commit"}
      /\ req' = [req EXCEPT ![r] = new]
  BY RequestInv DEF InsertRow, Commit, Goto, aside
<1>2. /\ HoldsInProgress(req[r]) /\ req[r] \in Request /\ row \in Versions
      /\ req[r].kind = "read" /\ req[r].entity # 0 /\ latest # 0
  BY <1>1, RequestInv DEF HoldsInProgress, Request
<1>3. /\ new \in Request
      /\ new.pc = "set" /\ new.kind = "read" /\ new.entity = req[r].entity
  BY <1>2 DEF Request
<1>4. row' \in Versions
  BY <1>2, RequestInv DEF InsertRow, Commit, SavedColumn, Request
<1>5. ASSUME req[r].loaded = req[r].entity PROVE row' = row
  BY <1>2, <1>5 DEF InsertRow, Commit, SavedColumn
<1> HIDE DEF new
<1>6. ~raced => req[r].entity = row /\ row' = row
  BY <1>1, <1>2, <1>5, RequestInv DEF HoldsRow
<1>7. r \notin late => row' = row
  BY <1>1, <1>2, <1>5, RequestInv DEF LoadsWhatItFound
<1>8. HoldsInProgress(new) /\ LoadsWhatItFound(new, row')
  BY <1>2, <1>3 DEF HoldsInProgress, LoadsWhatItFound
<1>9. /\ req' \in [Requests -> Request]
      /\ req'[r] = new
      /\ \A q \in Requests \ {r} : req'[q] = req[q]
  BY <1>1, <1>3, RequestReplaced DEF CacheInv
<1>10. RequestsHold' /\ NothingBeforeCreation' /\ SavesWhatItRead' /\ late' \subseteq Requests
  BY <1>1, <1>2, <1>3, <1>8, RowIsWritten
<1>11. CacheTypeOK'
  BY <1>1, <1>4, <1>9, <1>10 DEF CacheInv, CacheTyped, CacheTypeOK
<1>12. FillsAreCurrent'
  <2>1. ~raced => HoldsRow(new, row)
    BY <1>3, <1>6 DEF HoldsRow
  <2>2. QED
    BY <1>1, <1>6, <1>9, <2>1 DEF CacheInv, FillsAreCurrent
<1>13. StaleIsDeleted'
  BY <1>1, <1>2, <1>6, <1>9, StaleStays
<1>14. QED
  BY <1>7, <1>10, <1>11, <1>12, <1>13 DEF CacheInv, CacheTyped

LEMMA KeptByStoreCopy ==
    ASSUME CacheInv, NEW r \in Requests, StoreCopy(r)
    PROVE  CacheInv'
<1>1. /\ UNCHANGED <<row, latest, raced, late, hits, popular>>
      /\ req[r].pc = "set"
      /\ cache' = [cache EXCEPT ![req[r].key] = req[r].entity]
      /\ req' = [req EXCEPT ![r] = Idle]
      /\ AskCircuit \/ RecordSuccess \/ RecordFailure \/ UNCHANGED breaker
  BY DEF StoreCopy, End, historyVars
<1>2. /\ req[r].kind # "write" /\ req[r].entity # 0
      /\ req[r].key \in Keys /\ req[r].entity \in Versions
  BY <1>1, RequestInv DEF HoldsInProgress, Request
<1>3. ~raced => req[r].entity = row
  BY <1>2, RequestInv DEF HoldsRow
<1>4. /\ req' \in [Requests -> Request]
      /\ req'[r] = Idle
      /\ \A q \in Requests \ {r} : req'[q] = req[q]
  BY <1>1, IdleFits, RequestReplaced DEF CacheInv
<1>5. breaker' \in Breaker /\ (breaker'.isOpen => breaker'.failures = Threshold)
  BY <1>1, BreakerTyped DEF CacheInv, CacheTyped
<1>6. CacheTypeOK'
  BY <1>1, <1>2, <1>4, <1>5 DEF CacheInv, CacheTyped, CacheTypeOK
<1>7. RequestsHold'
  BY <1>1, IdleFits, RequestsStillHold DEF CacheInv
<1>8. NothingBeforeCreation'
  BY <1>1, IdleFits, NothingStillBeforeCreation DEF CacheInv, CacheTyped, NothingBeforeCreation
<1>9. FillsAreCurrent' /\ SavesWhatItRead'
  BY <1>1, <1>4, IdleFits DEF CacheInv, FillsAreCurrent, SavesWhatItRead
<1>10. StaleIsDeleted'
  <2> SUFFICES ASSUME ~raced, NEW k \in Regions
               PROVE  Current(k)' \/ \E q \in Requests : Deletes(req'[q], k)
    BY <1>1 DEF StaleIsDeleted
  <2>1. k \in Keys /\ cache' \in [Keys -> Versions] /\ cache \in [Keys -> Versions]
    BY <1>6 DEF Keys, CacheTypeOK, CacheInv, CacheTyped
  <2>2. cache'[k] = row \/ cache'[k] = cache[k]
    BY <1>1, <1>2, <1>3, <2>1
  <2>3. CASE Current(k) \/ cache'[k] = row
    BY <1>1, <2>2, <2>3 DEF Current
  <2>4. ASSUME NEW q \in Requests, Deletes(req[q], k)
        PROVE  Deletes(req'[q], k)
    BY <1>2, <1>4, <2>4 DEF Deletes
  <2>5. QED
    BY <2>3, <2>4 DEF CacheInv, StaleIsDeleted
<1>11. QED
  BY <1>6, <1>7, <1>8, <1>9, <1>10 DEF CacheInv, CacheTyped

LEMMA KeptByDeleteKeys ==
    ASSUME CacheInv, NEW r \in Requests, DeleteKeys(r)
    PROVE  CacheInv'
<1> DEFINE new == IF req[r].kind = "read" THEN [req[r] EXCEPT !.pc = "commit"] ELSE Idle
<1>1. /\ UNCHANGED <<row, latest, raced, late, breaker, hits, popular>>
      /\ req[r].pc = "del"
      /\ cache' = [k \in Keys |-> IF k \in req[r].found THEN 0 ELSE cache[k]]
      /\ req' = [req EXCEPT ![r] = new]
  BY RequestInv DEF DeleteKeys, Goto, End, aside, historyVars
<1>2. HoldsInProgress(req[r]) /\ req[r] \in Request
  BY RequestInv
<1>3. ASSUME req[r].kind = "read"
      PROVE  /\ new \in Request /\ HoldsInProgress(new) /\ (latest = 0 => new.entity = 0)
             /\ ~raced => HoldsRow(new, row)
             /\ r \notin late => LoadsWhatItFound(new, row)
  <2>1. /\ new \in Request
        /\ new.pc = "commit" /\ new.kind = "read" /\ new.entity = req[r].entity
        /\ new.loaded = req[r].loaded
    BY <1>2, <1>3 DEF Request
  <2> HIDE DEF new
  <2>2. HoldsInProgress(new) /\ (latest = 0 => new.entity = 0)
    BY <1>1, <1>2, <1>3, <2>1, RequestInv DEF HoldsInProgress
  <2>3. /\ ~raced => HoldsRow(new, row)
        /\ r \notin late => LoadsWhatItFound(new, row)
    BY <1>1, <1>3, <2>1, RequestInv DEF HoldsRow, LoadsWhatItFound
  <2>4. QED
    BY <2>1, <2>2, <2>3
<1>4. /\ new \in Request /\ HoldsInProgress(new) /\ (latest = 0 => new.entity = 0)
      /\ ~raced => HoldsRow(new, row)
      /\ r \notin late => LoadsWhatItFound(new, row)
  <2>1. req[r].kind # "read" => new = Idle
    OBVIOUS
  <2> HIDE DEF new
  <2>2. QED
    BY <1>3, <2>1, IdleFits
<1> HIDE DEF new
<1>5. /\ req' \in [Requests -> Request]
      /\ req'[r] = new
      /\ \A q \in Requests \ {r} : req'[q] = req[q]
  BY <1>1, <1>4, RequestReplaced DEF CacheInv
<1>6. cache' \in [Keys -> Versions]
  BY <1>1, RequestInv DEF CacheInv, CacheTyped, CacheTypeOK
<1>7. CacheTypeOK'
  BY <1>1, <1>5, <1>6 DEF CacheInv, CacheTyped, CacheTypeOK
<1>8. RequestsHold' /\ NothingBeforeCreation'
  BY <1>1, <1>4, RequestsStillHold, NothingStillBeforeCreation
     DEF CacheInv, CacheTyped, NothingBeforeCreation
<1>9. FillsAreCurrent' /\ SavesWhatItRead'
  <2>1. \A q \in Requests : req'[q] = req[q] \/ (q = r /\ req'[q] = new)
    BY <1>5
  <2>2. QED
    BY <1>1, <1>4, <2>1 DEF CacheInv, FillsAreCurrent, SavesWhatItRead
<1>10. StaleIsDeleted'
  <2> SUFFICES ASSUME ~raced, NEW k \in Regions
               PROVE  Current(k)' \/ \E q \in Requests : Deletes(req'[q], k)
    BY <1>1 DEF StaleIsDeleted
  <2>1. k \in Keys
    BY DEF Keys
  <2>2. cache'[k] = IF k \in req[r].found THEN 0 ELSE cache[k]
    BY <1>1, <2>1
  <2>3. CASE Current(k) \/ k \in req[r].found
    BY <1>1, <2>2, <2>3 DEF Current
  <2>4. ASSUME NEW q \in Requests, Deletes(req[q], k), k \notin req[r].found
        PROVE  Deletes(req'[q], k)
    BY <1>1, <1>5, <2>4 DEF Deletes
  <2>5. QED
    BY <2>3, <2>4 DEF CacheInv, StaleIsDeleted
<1>11. QED
  BY <1>7, <1>8, <1>9, <1>10 DEF CacheInv, CacheTyped

LEMMA KeptByInvalidationFails ==
    ASSUME CacheInv, NEW r \in Requests, InvalidationFails(r)
    PROVE  CacheInv'
<1>1. /\ UNCHANGED <<row, cache, latest, late, breaker, hits, popular>>
      /\ raced' = TRUE
      /\ req' = [req EXCEPT ![r] = Idle]
  BY DEF InvalidationFails, End, aside
<1>2. /\ req' \in [Requests -> Request]
      /\ req'[r] = Idle
      /\ \A q \in Requests \ {r} : req'[q] = req[q]
  BY <1>1, IdleFits, RequestReplaced DEF CacheInv
<1>3. CacheTypeOK'
  BY <1>1, <1>2 DEF CacheInv, CacheTyped, CacheTypeOK
<1>4. RequestsHold' /\ NothingBeforeCreation'
  BY <1>1, IdleFits, RequestsStillHold, NothingStillBeforeCreation
     DEF CacheInv, CacheTyped, NothingBeforeCreation
<1>5. FillsAreCurrent' /\ SavesWhatItRead' /\ StaleIsDeleted'
  BY <1>1, <1>2, IdleFits DEF CacheInv, FillsAreCurrent, SavesWhatItRead, StaleIsDeleted
<1>6. QED
  BY <1>3, <1>4, <1>5 DEF CacheInv, CacheTyped

LEMMA KeptByCreate ==
    ASSUME CacheInv, Create
    PROVE  CacheInv'
<1>1. /\ UNCHANGED <<cache, req, breaker, hits, popular, raced, late>>
      /\ latest = 0 /\ row' = 1 /\ latest' = 1
  BY DEF Create, aside
<1>2. row = 0 /\ \A r \in Requests : req[r].entity = 0
  BY <1>1 DEF CacheInv, CacheTyped, NothingBeforeCreation
<1>3. CacheTypeOK'
  <2>1. 1 \in Versions
    BY VersionsAssumption DEF Versions
  <2>2. QED
    BY <1>1, <2>1 DEF CacheInv, CacheTyped, CacheTypeOK
<1>4. RequestsHold' /\ NothingBeforeCreation'
  BY <1>1 DEF CacheInv, CacheTyped, RequestsHold, NothingBeforeCreation
<1>5. FillsAreCurrent'
  BY <1>1, <1>2 DEF FillsAreCurrent, HoldsRow
<1>6. StaleIsDeleted'
  <2>1. \A k \in Regions : Current(k) => Current(k)'
    BY <1>1, <1>2 DEF Current
  <2>2. QED
    BY <1>1, <2>1 DEF CacheInv, StaleIsDeleted
<1>7. SavesWhatItRead'
  <2> SUFFICES ASSUME NEW q \in Requests \ late PROVE LoadsWhatItFound(req[q], row')
    BY <1>1 DEF SavesWhatItRead
  <2>1. req[q].kind = "read" => req[q].pc # "load"
    BY <1>2 DEF CacheInv, CacheTyped, RequestsHold, HoldsInProgress
  <2>2. LoadsWhatItFound(req[q], row)
    BY DEF CacheInv, SavesWhatItRead
  <2>3. QED
    BY <2>1, <2>2 DEF LoadsWhatItFound
<1>8. QED
  BY <1>3, <1>4, <1>5, <1>6, <1>7 DEF CacheInv, CacheTyped

(* A write of a version or a removal: unless it races, its own invalidation is to *)
(* come, and no request holds an older version.                                   *)
LEMMA KeptByWrites ==
    ASSUME CacheInv, NEW r \in Requests,
           (\E namesId \in BOOLEAN : Update(r, namesId)) \/ Remove(r)
    PROVE  CacheInv'
<1>1. /\ UNCHANGED <<cache, breaker, hits, popular>>
      /\ req[r].pc = "idle" /\ row # 0
      /\ RowWritten(r)
  BY DEF Update, Remove, aside
<1>2. /\ req[r] \in Request /\ req[r] = Idle
      /\ latest # 0 /\ latest \in Nat
  BY <1>1, RequestInv DEF HoldsInProgress, CacheInv, CacheTyped, CacheTypeOK, Versions
<1>3. row' \in Versions /\ latest' \in Versions /\ latest' # 0
  <2>1. ASSUME NEW namesId \in BOOLEAN, Update(r, namesId)
        PROVE  row' \in Versions /\ latest' \in Versions /\ latest' # 0
    BY <1>2, <2>1, VersionsAssumption DEF Update, Versions
  <2>2. ASSUME Remove(r)
        PROVE  row' \in Versions /\ latest' \in Versions /\ latest' # 0
    BY <1>2, <2>2, RequestInv DEF Remove, CacheInv, CacheTyped, CacheTypeOK
  <2>3. QED
    BY <2>1, <2>2
<1>4. PICK new : /\ req' = [req EXCEPT ![r] = new]
                 /\ new = Idle \/ new = [Idle EXCEPT !.kind = "write", !.pc = "keys"]
                 /\ raced' \/ new # Idle
  <2>1. CASE Remove(r) \/ Update(r, TRUE)
    <3>1. req' = [req EXCEPT ![r] = [req[r] EXCEPT !.kind = "write", !.pc = "keys"]]
      BY <2>1, RequestInv DEF Remove, Update, Invalidate
    <3>2. [Idle EXCEPT !.kind = "write", !.pc = "keys"] # Idle
      BY DEF Idle
    <3>3. QED
      BY <1>2, <3>1, <3>2
  <2>2. CASE Update(r, FALSE)
    <3>1. req' = [req EXCEPT ![r] = Idle] /\ raced'
      BY <1>2, <2>2, RequestInv DEF Update
    <3>2. QED
      BY <3>1
  <2>3. QED
    BY <2>1, <2>2
<1>5. /\ new \in Request /\ new.entity = 0
      /\ new = Idle \/ (new.kind = "write" /\ new.pc = "keys")
  BY <1>4, IdleFits DEF Idle, Request
<1>6. HoldsInProgress(new) /\ \A version : LoadsWhatItFound(new, version)
  BY <1>5, IdleFits DEF HoldsInProgress, LoadsWhatItFound
<1>7. /\ req' \in [Requests -> Request]
      /\ req'[r] = new
      /\ \A q \in Requests \ {r} : req'[q] = req[q]
  BY <1>4, <1>5, RequestReplaced DEF CacheInv
<1>8. RequestsHold' /\ NothingBeforeCreation' /\ SavesWhatItRead' /\ late' \subseteq Requests
  BY <1>1, <1>3, <1>4, <1>5, <1>6, RowIsWritten
<1>9. raced' \in BOOLEAN
  BY DEF Update, Remove, CacheInv, CacheTyped, CacheTypeOK
<1>10. CacheTypeOK'
  BY <1>1, <1>3, <1>7, <1>8, <1>9 DEF CacheInv, CacheTyped, CacheTypeOK
<1>11. ~raced' => \A q \in Requests : ~Filling(q)
  BY DEF Update, Remove
<1>12. FillsAreCurrent'
  <2> SUFFICES ASSUME ~raced', NEW q \in Requests PROVE HoldsRow(req'[q], row')
    BY DEF FillsAreCurrent
  <2>1. CASE q = r
    BY <1>5, <1>7, <2>1 DEF HoldsRow
  <2>2. CASE q # r
    BY <1>7, <1>11, <2>2 DEF HoldsRow, Filling
  <2>3. QED
    BY <2>1, <2>2
<1>13. StaleIsDeleted'
  <2> SUFFICES ASSUME ~raced', NEW k \in Regions PROVE Deletes(req'[r], k)
    BY DEF StaleIsDeleted
  <2>1. QED
    BY <1>4, <1>5, <1>7 DEF Deletes
<1>14. QED
  BY <1>8, <1>10, <1>12, <1>13 DEF CacheInv, CacheTyped

LEMMA KeptByTimers ==
    ASSUME CacheInv,
           (\E k \in Keys : Expire(k)) \/ Cool \/ GenerateAnalyticsReport \/ UNCHANGED cacheVars
    PROVE  CacheInv'
<1>1. /\ UNCHANGED <<row, req, popular, latest, raced, late>>
      /\ hits' \in [Keys -> Nat]
      /\ breaker' \in Breaker /\ (breaker'.isOpen => breaker'.failures = Threshold)
  <2>1. /\ hits \in [Keys -> Nat] /\ breaker \in Breaker
        /\ breaker.isOpen => breaker.failures = Threshold
    BY DEF CacheInv, CacheTyped, CacheTypeOK
  <2>2. CASE Cool
    <3>1. breaker' = [breaker EXCEPT !.cooled = TRUE] /\ breaker.isOpen
          /\ UNCHANGED <<row, req, hits, popular, latest, raced, late>>
      BY <2>2 DEF Cool, historyVars
    <3>2. QED
      BY <2>1, <3>1 DEF Breaker
  <2>3. CASE (\E k \in Keys : Expire(k)) \/ UNCHANGED cacheVars
    BY <2>1, <2>3 DEF Expire, cacheVars, aside, historyVars
  <2>4. CASE GenerateAnalyticsReport
    BY <2>1, <2>4 DEF GenerateAnalyticsReport, historyVars
  <2>5. QED
    BY <2>2, <2>3, <2>4
<1>2. /\ cache' \in [Keys -> Versions]
      /\ \A k \in Keys : cache'[k] \in {0, cache[k]}
  <2>1. cache \in [Keys -> Versions] /\ 0 \in Versions
    BY VersionsAssumption DEF CacheInv, CacheTyped, CacheTypeOK, Versions
  <2>2. cache' = cache \/ \E k \in Keys : cache' = [cache EXCEPT ![k] = 0]
    BY DEF Expire, Cool, GenerateAnalyticsReport, cacheVars
  <2>3. QED
    BY <2>1, <2>2
<1>3. CacheTyped'
  BY <1>1, <1>2 DEF CacheInv, CacheTyped, CacheTypeOK, RequestsHold, NothingBeforeCreation
<1>4. FillsAreCurrent' /\ SavesWhatItRead'
  BY <1>1 DEF CacheInv, FillsAreCurrent, SavesWhatItRead
<1>5. StaleIsDeleted'
  <2>1. \A k \in Regions : Current(k) => Current(k)'
    BY <1>1, <1>2 DEF Current, Keys
  <2>2. QED
    BY <1>1, <2>1 DEF CacheInv, StaleIsDeleted
<1>6. QED
  BY <1>3, <1>4, <1>5 DEF CacheInv

LEMMA CacheInvNext == CacheInv /\ [CacheNext]_cacheVars => CacheInv'
<1> SUFFICES ASSUME CacheInv, [CacheNext]_cacheVars PROVE CacheInv'
  OBVIOUS
<1>1. ASSUME NEW r \in Requests, Step(r) PROVE CacheInv'
  <2>1. ASSUME \/ \E k \in Keys, forceFresh \in BOOLEAN : GetContent(r, k, forceFresh)
               \/ WarmCache(r)
        PROVE  CacheInv'
    <3>1. \E k \in Keys, forceFresh \in BOOLEAN : GetContent(r, k, forceFresh)
      BY <2>1 DEF WarmCache, Keys
    <3>2. QED
      BY <3>1, KeptByGetContent
  <2>2. QED
    BY <1>1, <2>1, KeptByCacheHit, KeptByLookup, KeptByFind, KeptByLoadRow, KeptBySave,
       KeptByStoreCopy, KeptByFailures, KeptByReadKeys, KeptByDeleteKeys,
       KeptByInvalidationFails, KeptByWrites, KeptByBeginnings DEF Step
<1>2. QED
  BY <1>1, KeptByCreate, KeptByTimers DEF CacheNext

LEMMA CacheInvHolds == CacheSpec => []CacheInv
<1>1. QED
  BY CacheInvInit, CacheInvNext, PTL DEF CacheSpec

\* Every variable of the content cache keeps its type; an open circuit has as many
\* failures as open it.
THEOREM CacheTypeCorrect == CacheSpec => []CacheTypeOK
<1>1. CacheInv => CacheTypeOK
  BY DEF CacheInv, CacheTyped
<1>2. QED
  BY <1>1, CacheInvHolds, PTL

\* Once the writes so far have invalidated, a region's copy is the row as it is, for
\* any number of requests and regions: a stale copy that no write is about to delete
\* comes only from a fill that the write overtook, or an invalidation that failed.
THEOREM RegionsAreCurrentHolds == CacheSpec => []RegionsAreCurrent
<1>1. CacheInv => RegionsAreCurrent
  BY DEF CacheInv, StaleIsDeleted, Deletes, RegionsAreCurrent, Writing
<1>2. QED
  BY <1>1, CacheInvHolds, PTL

LEMMA StepOfOne ==
    ASSUME req \in [Requests -> Request], NEW q \in Requests, Step(q),
           NEW r \in Requests, req'[r] # req[r]
    PROVE  q = r
<1> SUFFICES ASSUME q # r PROVE req'[r] = req[r]
  OBVIOUS
<1>1. ASSUME \/ \E k \in Keys, forceFresh \in BOOLEAN : GetContent(q, k, forceFresh)
             \/ \E k \in Keys : BackgroundReload(q, k)
             \/ WarmCache(q)
      PROVE  req'[r] = req[r]
  BY <1>1 DEF GetContent, BackgroundReload, WarmCache
<1>2. ASSUME (\E namesId \in BOOLEAN : Update(q, namesId)) \/ Remove(q) \/ InvalidateOnly(q)
      PROVE  req'[r] = req[r]
  BY <1>2 DEF Update, Remove, InvalidateOnly, Invalidate
<1>3. ASSUME \/ CacheHit(q) \/ CacheMiss(q) \/ CacheGetFails(q) \/ Find(q) \/ LoadRow(q)
             \/ InsertRow(q) \/ UpdateRow(q) \/ Commit(q)
      PROVE  req'[r] = req[r]
  BY <1>3 DEF CacheHit, CacheMiss, CacheGetFails, Find, LoadRow, InsertRow, UpdateRow, Commit,
              Goto, End
<1>4. ASSUME \/ StoreCopy(q) \/ StoreCopyFails(q) \/ ReadFails(q) \/ ReadKeys(q)
             \/ DeleteKeys(q) \/ InvalidationFails(q)
      PROVE  req'[r] = req[r]
  BY <1>4 DEF StoreCopy, StoreCopyFails, ReadFails, ReadKeys, DeleteKeys, InvalidationFails,
              Goto, End
<1>5. QED
  BY <1>1, <1>2, <1>3, <1>4 DEF Step

(* The row is written by the requests that write, and by the saves of reads. *)
LEMMA RowWriters ==
    ASSUME NEW r \in Requests, Step(r), row' # row, req[r].pc # "idle"
    PROVE  InsertRow(r) \/ Commit(r)
<1>1. ASSUME \/ \E k \in Keys, forceFresh \in BOOLEAN : GetContent(r, k, forceFresh)
             \/ \E k \in Keys : BackgroundReload(r, k)
             \/ WarmCache(r)
      PROVE  FALSE
  BY <1>1 DEF GetContent, BackgroundReload, WarmCache
<1>2. ASSUME (\E namesId \in BOOLEAN : Update(r, namesId)) \/ Remove(r) \/ InvalidateOnly(r)
      PROVE  FALSE
  BY <1>2 DEF Update, Remove, InvalidateOnly
<1>3. ASSUME \/ CacheHit(r) \/ CacheMiss(r) \/ CacheGetFails(r) \/ Find(r) \/ LoadRow(r)
             \/ UpdateRow(r) \/ StoreCopy(r) \/ StoreCopyFails(r) \/ ReadFails(r)
             \/ ReadKeys(r) \/ DeleteKeys(r) \/ InvalidationFails(r)
      PROVE  FALSE
  BY <1>3 DEF CacheHit, CacheMiss, CacheGetFails, Find, LoadRow, UpdateRow, StoreCopy,
              StoreCopyFails, ReadFails, ReadKeys, DeleteKeys, InvalidationFails
<1>4. QED
  BY <1>1, <1>2, <1>3 DEF Step

\* Reading does not change the content: the save with which a read counts a view
\* writes another version only if the row was written between its findOne and the
\* SELECT of the save.
THEOREM ReadsKeepContentHolds == CacheSpec => ReadsKeepContent
<1>1. ASSUME CacheInv, [CacheNext]_cacheVars, NEW r \in Requests,
             req[r].kind = "read", req[r].pc \in {"update", "commit"}, req'[r].pc = "set",
             row' # row
      PROVE  r \in late
  <2>1. req \in [Requests -> Request]
    BY <1>1, RequestInv
  <2>2. req'[r] # req[r]
    BY <1>1
  <2>3. ASSUME \/ (\E k \in Keys : Expire(k)) \/ Create \/ Cool \/ GenerateAnalyticsReport
               \/ UNCHANGED cacheVars
        PROVE  FALSE
    BY <2>2, <2>3 DEF Expire, Create, Cool, GenerateAnalyticsReport, cacheVars
  <2>4. ASSUME NEW q \in Requests, Step(q) PROVE Step(r)
    <3>1. q = r
      BY <1>1, <2>1, <2>2, <2>4, StepOfOne
    <3>2. QED
      BY <2>4, <3>1
  <2>5. ASSUME Step(r), ~InsertRow(r), ~Commit(r) PROVE FALSE
    BY <1>1, <2>5, RowWriters
  <2>6. InsertRow(r) \/ Commit(r)
    BY <1>1, <2>3, <2>4, <2>5 DEF CacheNext
  <2>7. QED
    BY <1>1, <2>6, KeptBySave
<1>2. CacheInv /\ [CacheNext]_cacheVars =>
        \A r \in Requests :
          req[r].kind = "read" /\ req[r].pc \in {"update", "commit"} /\ req'[r].pc = "set"
          /\ row' # row => r \in late
  BY <1>1
<1>3. QED
  BY <1>2, CacheInvHolds, PTL DEF CacheSpec, ReadsKeepContent

================================================================================
