--------------------------- MODULE MessageGateway ---------------------------
(***************************************************************************)
(* The connection side of MessageGateway: which sockets of a user are      *)
(* connected, the 30 second timer that announces a user offline, the       *)
(* userStatus broadcasts, and the typing sets.                             *)
(*                                                                         *)
(* One Node process runs the handlers, so a handler is atomic up to its    *)
(* await.  handleConnection awaits the database before it announces the    *)
(* user online and clears the timer; everything else may run meanwhile.    *)
(* Abstracted: an empty typing set and an absent one are the same; rooms,  *)
(* message and typing broadcasts are left out; time is the order in which  *)
(* timers fire (all have the same delay, so a user's fire in the order     *)
(* they were set).  A client announces the user id its token carries.      *)
(***************************************************************************)
EXTENDS Connections, Naturals

ASSUME MaxTimersAssumption == MaxTimers \in Nat \ {0}

VARIABLES
    socket,         \* where each socket is in its life
    tracked,        \* users with an entry in connectedClients
    clients,        \* connectedClients: the set in a user's entry
    pending,        \* timers of a user that have not fired
    handle,         \* disconnectTimers has an entry: the timer set last
    typing,         \* typingUsers
    told,           \* last userStatus broadcast about a user
    raced           \* history: see Race below

gatewayVars == <<socket, tracked, clients, pending, handle, typing, told, raced>>

\* "joining": handleConnection awaits the user's conversations; "left": and the
\* socket has disconnected meanwhile.
SocketState == {"unused", "joining", "open", "left"}

LiveClients(u) == {s \in SocketsOf(u) : socket[s] \in {"joining", "open"}}
Joining(u) == \E s \in SocketsOf(u) : socket[s] \in {"joining", "left"}

GatewayInit ==
    /\ socket = [s \in Sockets |-> "unused"]
    /\ tracked = {}
    /\ clients = [u \in Users |-> {}]
    /\ pending = [u \in Users |-> 0]
    /\ handle = [u \in Users |-> FALSE]
    /\ typing = [c \in Conversations |-> {}]
    /\ told = [u \in Users |-> "nothing"]
    /\ raced = [u \in Users |-> FALSE]

------------------------------------------------------------------------------
(* handleConnection *)

\* Up to the await: the client is stored.
StoreClient(s) ==
    LET u == Owner[s] IN
    /\ socket[s] = "unused"
    /\ socket' = [socket EXCEPT ![s] = "joining"]
    /\ tracked' = tracked \cup {u}
    /\ clients' = [clients EXCEPT ![u] = @ \cup {s}]
    /\ UNCHANGED <<pending, handle, typing, told, raced>>

\* Variants: the entry is taken for a timer that is still pending; the entry is
\* deleted and the timer is not cleared.
ClearFiredTimer(u) ==
    /\ pending' = [pending EXCEPT ![u] = IF handle[u] THEN @ - 1 ELSE @]
    /\ handle' = [handle EXCEPT ![u] = FALSE]

ForgetTimer(u) ==
    /\ handle' = [handle EXCEPT ![u] = FALSE]
    /\ UNCHANGED pending

\* The entry of disconnectTimers is the timer set last, which fires last: it is
\* still pending exactly when any timer of the user is.
ClearTimer(u) ==
    /\ pending' = [pending EXCEPT ![u] = IF handle[u] /\ @ > 0 THEN @ - 1 ELSE @]
    /\ handle' = [handle EXCEPT ![u] = FALSE]

\* After it, whether or not the client is still there: the user is announced
\* online and the timer is cleared.  A socket id is not used again once its
\* handlers are done, so its name is free for a later connection.
Joined(s) ==
    LET u == Owner[s] IN
    /\ socket[s] \in {"joining", "left"}
    /\ socket' = [socket EXCEPT ![s] = IF @ = "joining" THEN "open" ELSE "unused"]
    /\ told' = [told EXCEPT ![u] = "online"]
    /\ ClearTimer(u)
    /\ UNCHANGED <<tracked, clients, typing, raced>>

------------------------------------------------------------------------------
(* handleDisconnect *)

\* The three overlaps the handlers are not written for: the timer fires, or the
\* client leaves, while handleConnection awaits; a timer starts while another
\* one is pending.
Race(u) == raced' = [raced EXCEPT ![u] = TRUE]

\* What handleDisconnect does to a user's entry and timers, starts telling whether
\* it starts one.
DropClient(s, starts) ==
    LET u == Owner[s] IN
    /\ clients' = [clients EXCEPT ![u] = @ \ {s}]
    /\ starts => pending[u] < MaxTimers
    /\ pending' = [pending EXCEPT ![u] = IF starts THEN @ + 1 ELSE @]
    /\ handle' = [handle EXCEPT ![u] = @ \/ starts]
    /\ UNCHANGED <<tracked, told>>
    /\ IF (starts /\ pending[u] > 0) \/ socket'[s] = "left" THEN Race(u) ELSE UNCHANGED raced

\* Variant: the set is looked at before the client is deleted from it.
StartsTimerIfEmpty(s) == Owner[s] \in tracked /\ clients[Owner[s]] = {}

\* Deleting the client from a set without it leaves the set as it is; a set
\* that is empty then starts the timer.
StartsTimer(s) == Owner[s] \in tracked /\ clients[Owner[s]] \subseteq {s}

\* Variant: the typing sets are cleaned inside the test for an entry.
CleanTypingOfTracked(u) ==
    typing' = IF u \in tracked THEN [c \in Conversations |-> typing[c] \ {u}] ELSE typing

CleanTyping(u) == typing' = [c \in Conversations |-> typing[c] \ {u}]

\* The body of handleDisconnect.
Dropped(s) ==
    /\ DropClient(s, StartsTimer(s))
    /\ CleanTyping(Owner[s])

Disconnect(s) ==
    /\ socket[s] \in {"joining", "open"}
    /\ socket' = [socket EXCEPT ![s] = IF @ = "joining" THEN "left" ELSE "unused"]
    /\ Dropped(s)

\* The query of handleConnection fails: the catch block disconnects the socket,
\* which runs handleDisconnect, unless it is disconnected already.
JoinFails(s) ==
    \/ /\ socket[s] = "joining"
       /\ socket' = [socket EXCEPT ![s] = "unused"]
       /\ Dropped(s)
    \/ /\ socket[s] = "left"
       /\ socket' = [socket EXCEPT ![s] = "unused"]
       /\ UNCHANGED <<tracked, clients, pending, handle, typing, told, raced>>

\* The timer's callback does not look whether the user is back, and leaves its
\* own entry in disconnectTimers.
TimerFires(u) ==
    /\ pending[u] > 0
    /\ pending' = [pending EXCEPT ![u] = @ - 1]
    /\ told' = [told EXCEPT ![u] = "offline"]
    /\ tracked' = tracked \ {u}
    /\ clients' = [clients EXCEPT ![u] = {}]
    /\ IF Joining(u) THEN Race(u) ELSE UNCHANGED raced
    /\ UNCHANGED <<socket, handle, typing>>

------------------------------------------------------------------------------
(* handleTyping *)

Typing(s, c, isTyping) ==
    LET With(users) == IF isTyping THEN users \cup {Owner[s]} ELSE users \ {Owner[s]} IN
    /\ socket[s] \in {"joining", "open"}
    /\ typing' = [typing EXCEPT ![c] = With(@)]
    /\ UNCHANGED <<socket, tracked, clients, pending, handle, told, raced>>

------------------------------------------------------------------------------
GatewayNext ==
    \/ \E s \in Sockets :
         \/ StoreClient(s)
         \/ Joined(s)
         \/ JoinFails(s)
         \/ Disconnect(s)
         \/ \E c \in Conversations, isTyping \in BOOLEAN : Typing(s, c, isTyping)
    \/ \E u \in Users : TimerFires(u)

GatewaySpec == GatewayInit /\ [][GatewayNext]_gatewayVars

\* The database answers or fails, and timers fire; clients do what they like.
FairGatewaySpec ==
    /\ GatewaySpec
    /\ \A s \in Sockets : WF_gatewayVars(Joined(s) \/ JoinFails(s))
    /\ \A u \in Users : WF_gatewayVars(TimerFires(u))

------------------------------------------------------------------------------
(* Properties. *)

GatewayTypeOK ==
    /\ socket \in [Sockets -> SocketState]
    /\ tracked \subseteq Users
    /\ clients \in [Users -> SUBSET Sockets]
    /\ pending \in [Users -> Nat]
    /\ handle \in [Users -> BOOLEAN]
    /\ typing \in [Conversations -> SUBSET Users]
    /\ told \in [Users -> {"nothing", "online", "offline"}]
    /\ raced \in [Users -> BOOLEAN]

\* While none of the three overlaps has happened to a user, connectedClients
\* holds exactly the user's connected sockets, through every connection,
\* failed connection, disconnection and timer.
ClientsExact == \A u \in Users : ~raced[u] => clients[u] = LiveClients(u)

\* Nor is such a user's timer ever out of reach of the next connection, pending
\* next to an established connection, or missing: one that was announced online
\* and has no socket left has exactly one timer, which disconnectTimers holds.
TimerExact ==
    \A u \in Users : ~raced[u] =>
       /\ pending[u] > 0 => pending[u] = 1 /\ handle[u] /\ \A s \in SocketsOf(u) : socket[s] # "open"
       /\ told[u] = "online" /\ LiveClients(u) = {} => pending[u] = 1

\* and it is not shown offline next to an established connection.
OfflineIsGone ==
    \A u \in Users : ~raced[u] /\ told[u] = "offline" => \A s \in SocketsOf(u) : socket[s] # "open"

\* The three together: sockets, bookkeeping, timers and what was announced agree.
BookkeepingExact == ClientsExact /\ TimerExact /\ OfflineIsGone

\* Whatever overlaps, a user in a typing set has a connected socket.
TypingIsConnected == \A c \in Conversations : \A u \in typing[c] : LiveClients(u) # {}

\* A user whose last socket left is eventually announced offline, unless one of
\* the overlaps happens or the user connects again.
GoneIsAnnounced ==
    \A u \in Users : told[u] = "online" /\ LiveClients(u) = {}
                       ~> told[u] = "offline" \/ LiveClients(u) # {} \/ raced[u]

\* message.gateway.ts:78 "Start a timer to set user as offline": the same without
\* the exception for overlaps.
TimerSetsOffline ==
    \A u \in Users : told[u] = "online" /\ LiveClients(u) = {}
                       ~> told[u] = "offline" \/ LiveClients(u) # {}

==============================================================================
