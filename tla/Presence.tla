------------------------------- MODULE Presence -------------------------------
(***************************************************************************)
(* PresenceGateway and PresenceService: which status a user is shown with, *)
(* from the connections and disconnections of the user's devices, the      *)
(* backoff timers that follow a disconnection, the typing status and its   *)
(* timeout, and the heartbeat of each device.                              *)
(*                                                                         *)
(* The awaits of these handlers are on the process's own memory and never  *)
(* leave the microtask queue, so a handler is one step.  All state is in   *)
(* that memory (the cache is registered without a store).                  *)
(* Abstracted: lastSeen and the typing timestamp, which no code reads;     *)
(* rooms; the 'presenceUpdate' broadcast, whose userId no code sets; the   *)
(* service's own PRESENCE_EVENT, which writes back the status and typing   *)
(* it was emitted with; delays, so that timers fire in any order.  The     *)
(* status 'away' is set only after the read at which every heartbeat       *)
(* fails (see HeartbeatFires), so it never occurs.                         *)
(***************************************************************************)
EXTENDS Connections, Naturals, FiniteSets

CONSTANT
    MaxReconnectAttempts    \* maxReconnectAttempts, 5 in the code

ASSUME MaxReconnectAssumption == MaxReconnectAttempts \in Nat
ASSUME SocketsAssumption == IsFiniteSet(Sockets)

VARIABLES
    sock,           \* where each socket is in its life
    attempts,       \* reconnectAttempts: 0 when a user has no entry
    presence,       \* presenceByUser
    backoff,        \* sockets whose disconnection started a timer still pending
    beating,        \* sockets that have a heartbeat interval
    typingTimers    \* pending typing timeouts, by user and conversation

vars == <<sock, attempts, presence, backoff, beating, typingTimers>>

NotTyping == "none"

\* lastActivity tells whether the entry has that field: no code ever sets it.
Unknown == [status |-> "unknown", deviceCount |-> 0, typing |-> NotTyping, lastActivity |-> FALSE]

PresenceType == [status : {"unknown", "online", "offline"}, deviceCount : Nat,
                 typing : Conversations \cup {NotTyping}, lastActivity : BOOLEAN]

Live(u) == {s \in SocketsOf(u) : sock[s] = "open"}
Known(u) == presence[u].status # "unknown"

Init ==
    /\ sock = [s \in Sockets |-> "unused"]
    /\ attempts = [u \in Users |-> 0]
    /\ presence = [u \in Users |-> Unknown]
    /\ backoff = {}
    /\ beating = {}
    /\ typingTimers = [t \in Users \X Conversations |-> 0]

------------------------------------------------------------------------------
(* Connections *)

\* Variant: a device of a user who is known already is not counted.
ConnectCountsOnce(s) ==
    LET u == Owner[s] IN
    /\ sock[s] = "unused"
    /\ sock' = [sock EXCEPT ![s] = "open"]
    /\ attempts' = [attempts EXCEPT ![u] = 0]
    /\ presence' = [presence EXCEPT ![u].status = "online",
                                    ![u].deviceCount = IF Known(u) THEN @ ELSE 1]
    /\ beating' = beating \cup {s}
    /\ UNCHANGED <<backoff, typingTimers>>

\* handleConnection
Connect(s) ==
    LET u == Owner[s] IN
    /\ sock[s] = "unused"
    /\ sock' = [sock EXCEPT ![s] = "open"]
    /\ attempts' = [attempts EXCEPT ![u] = 0]
    /\ presence' = [presence EXCEPT ![u].status = "online", ![u].deviceCount = @ + 1]
    /\ beating' = beating \cup {s}
    /\ UNCHANGED <<backoff, typingTimers>>

\* The entry with one device less.
WithoutDevice(entry) ==
    LET left == IF entry.deviceCount = 0 THEN 0 ELSE entry.deviceCount - 1 IN
    [entry EXCEPT !.deviceCount = left, !.status = IF left = 0 THEN "offline" ELSE @]

\* PresenceService.handleDisconnection, which leaves an unknown user alone.
DropDevice(s) ==
    IF Known(Owner[s])
    THEN /\ presence' = [presence EXCEPT ![Owner[s]] = WithoutDevice(@)]
         /\ beating' = beating \ {s}
    ELSE UNCHANGED <<presence, beating>>

\* Variant: one timer too many.
DisconnectBacksOffOnceMore(s) ==
    LET u == Owner[s] IN
    /\ sock[s] = "open"
    /\ attempts[u] <= MaxReconnectAttempts
    /\ sock' = [sock EXCEPT ![s] = "closed"]
    /\ attempts' = [attempts EXCEPT ![u] = @ + 1]
    /\ backoff' = backoff \cup {s}
    /\ UNCHANGED <<presence, beating, typingTimers>>

\* handleDisconnect of the gateway: the first disconnections in a row only start
\* a timer,
DisconnectBacksOff(s) ==
    LET u == Owner[s] IN
    /\ sock[s] = "open"
    /\ attempts[u] < MaxReconnectAttempts
    /\ sock' = [sock EXCEPT ![s] = "closed"]
    /\ attempts' = [attempts EXCEPT ![u] = @ + 1]
    /\ backoff' = backoff \cup {s}
    /\ UNCHANGED <<presence, beating, typingTimers>>

\* the one after them takes its device away and starts counting again.
DisconnectGivesUp(s) ==
    LET u == Owner[s] IN
    /\ sock[s] = "open"
    /\ attempts[u] >= MaxReconnectAttempts
    /\ sock' = [sock EXCEPT ![s] = "closed"]
    /\ attempts' = [attempts EXCEPT ![u] = 0]
    /\ DropDevice(s)
    /\ UNCHANGED <<backoff, typingTimers>>

\* A timer takes its device away if the user has no device left: deviceCount
\* still counts this one.
BackoffFires(s) ==
    /\ s \in backoff
    /\ backoff' = backoff \ {s}
    /\ IF ~Known(Owner[s]) \/ presence[Owner[s]].deviceCount = 0
       THEN DropDevice(s)
       ELSE UNCHANGED <<presence, beating>>
    /\ UNCHANGED <<sock, attempts, typingTimers>>

------------------------------------------------------------------------------
(* Typing *)

\* Variant: a timeout is started only when none is pending.
StartTypingOnce(s, c) ==
    LET u == Owner[s] IN
    /\ sock[s] = "open"
    /\ presence' = [presence EXCEPT ![u].typing = c]
    /\ typingTimers' = [typingTimers EXCEPT ![<<u, c>>] = IF presence[u].typing = NotTyping
                                                      THEN @ + 1 ELSE @]
    /\ typingTimers'[<<u, c>>] <= MaxTimers
    /\ UNCHANGED <<sock, attempts, backoff, beating>>

\* updateTypingStatus: one conversation at a time, each start with its timeout.
StartTyping(s, c) ==
    LET u == Owner[s] IN
    /\ sock[s] = "open"
    /\ Known(u)
    /\ typingTimers[<<u, c>>] < MaxTimers
    /\ presence' = [presence EXCEPT ![u].typing = c]
    /\ typingTimers' = [typingTimers EXCEPT ![<<u, c>>] = @ + 1]
    /\ UNCHANGED <<sock, attempts, backoff, beating>>

\* To stop in one conversation ends the typing status, whichever it was for.
StopTyping(s) ==
    /\ sock[s] = "open"
    /\ Known(Owner[s])
    /\ presence' = [presence EXCEPT ![Owner[s]].typing = NotTyping]
    /\ UNCHANGED <<sock, attempts, backoff, beating, typingTimers>>

\* Variant: the timeout starts the status again.
TypingTimerRestarts(u, c) ==
    /\ typingTimers[<<u, c>>] > 0
    /\ typingTimers' = [typingTimers EXCEPT ![<<u, c>>] = IF presence[u].typing = c THEN @ ELSE @ - 1]
    /\ UNCHANGED <<sock, attempts, presence, backoff, beating>>

\* A timeout ends the status of its conversation, and one that began since too.
TypingTimerFires(u, c) ==
    /\ typingTimers[<<u, c>>] > 0
    /\ typingTimers' = [typingTimers EXCEPT ![<<u, c>>] = @ - 1]
    /\ presence' = [presence EXCEPT ![u].typing = IF @ = c THEN NotTyping ELSE @]
    /\ UNCHANGED <<sock, attempts, backoff, beating>>

------------------------------------------------------------------------------
(* Heartbeats and crashes *)

\* The process stops and starts again: it has forgotten everything, and its
\* sockets are closed.
Restart ==
    /\ sock' = [s \in Sockets |-> IF sock[s] = "open" THEN "closed" ELSE sock[s]]
    /\ attempts' = [u \in Users |-> 0]
    /\ presence' = [u \in Users |-> Unknown]
    /\ backoff' = {}
    /\ beating' = {}
    /\ typingTimers' = [t \in Users \X Conversations |-> 0]

\* The interval reads lastActivity.getTime(): without that field the callback's
\* promise is rejected, nothing handles it, and Node ends the process.
HeartbeatFires(s) ==
    /\ s \in beating
    /\ Known(Owner[s])
    /\ ~presence[Owner[s]].lastActivity
    /\ Restart

------------------------------------------------------------------------------
Next ==
    \/ \E s \in Sockets :
         \/ Connect(s)
         \/ DisconnectBacksOff(s)
         \/ DisconnectGivesUp(s)
         \/ BackoffFires(s)
         \/ \E c \in Conversations : StartTyping(s, c)
         \/ StopTyping(s)
         \/ HeartbeatFires(s)
    \/ \E u \in Users, c \in Conversations : TypingTimerFires(u, c)
    \/ Restart

Spec == Init /\ [][Next]_vars

\* Timeouts fire; clients do what they like.
FairSpec ==
    /\ Spec
    /\ \A u \in Users, c \in Conversations : WF_vars(TypingTimerFires(u, c))

------------------------------------------------------------------------------
(* Properties. *)

TypeOK ==
    /\ sock \in [Sockets -> {"unused", "open", "closed"}]
    /\ attempts \in [Users -> 0..MaxReconnectAttempts]
    /\ presence \in [Users -> PresenceType]
    /\ backoff \subseteq Sockets
    /\ beating \subseteq Sockets
    /\ typingTimers \in [Users \X Conversations -> Nat]

\* However connections, disconnections, timers and restarts of several devices
\* interleave, the devices counted for a user include the connected ones.
CountCoversDevices == \A u \in Users : presence[u].deviceCount >= Cardinality(Live(u))

\* So a user who has a connected device is shown online: no timer or
\* disconnection of another device changes that.
ConnectedIsOnline == \A u \in Users : Live(u) # {} => presence[u].status = "online"

\* A typing status always has a timeout that will end it, whatever was typed,
\* stopped or disconnected since it began.
TypingHasTimer ==
    \A u \in Users : presence[u].typing # NotTyping => typingTimers[<<u, presence[u].typing>>] > 0

\* A connected device has its heartbeat: only its own disconnection ends it.
DeviceIsBeating == \A s \in Sockets : sock[s] = "open" => s \in beating

\* The devices of a user, all three together: whatever timer, disconnection or restart
\* concerns another device, a connected one is counted, shown and beating.
ConnectedDeviceIsShown == CountCoversDevices /\ ConnectedIsOnline /\ DeviceIsBeating

\* A typing status ends, even if the user goes on typing or has left.
TypingEnds == \A u \in Users, c \in Conversations :
                presence[u].typing = c ~> presence[u].typing # c

==============================================================================
