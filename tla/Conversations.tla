----------------------------- MODULE Conversations -----------------------------
(***************************************************************************)
(* ConversationService and ConversationPermissionGuard: the participants   *)
(* of one conversation and their roles.  A request to add or remove a      *)
(* participant first passes the guard, which reads the caller's row and    *)
(* perhaps the target's, and is then carried out by a service that reads   *)
(* again: between any two statements other requests may run.               *)
(*                                                                         *)
(* No code adds the first participant of a conversation: the rows that are *)
(* there at the beginning were put into the table by other means.          *)
(* Abstracted: type and title, and the lists, which are only read.         *)
(***************************************************************************)
EXTENDS Naturals, FiniteSets

CONSTANTS
    Users,
    Calls,          \* requests, known by their number
    MaxCalls,       \* bound: requests in all
    None

VARIABLES
    stored,         \* the conversation: "new" before it is created, "yes", "deleted"
    rows,           \* conversation_participants
    request,        \* the requests about participants
    started,        \* requests that have begun
    \* History variables, read by properties only.
    stale,          \* requests that others overtook: a row they go by has changed
    doubled         \* users added by requests that overlapped

vars == <<stored, rows, request, started, stale, doubled>>

Roles == {"admin", "moderator", "member"}

\* The row's key is the request that added it, None for the rows there at first.
Participant == [by : Calls \cup {None}, user : Users, role : Roles]

Request == [pc : {"new", "guard", "target", "check", "insert", "delete", "done"},
            kind : {"add", "remove"}, caller : Users \cup {None}, target : Users \cup {None},
            role : Roles, row : SUBSET Participant]

Unused(pc) == [pc |-> pc, kind |-> "add", caller |-> None, target |-> None,
               role |-> "member", row |-> {}]

Init ==
    /\ stored \in {"new", "yes"}
    /\ \E present \in SUBSET Users, role \in [Users -> Roles] :
          /\ present = {} \/ stored = "yes"
          /\ rows = {[by |-> None, user |-> u, role |-> role[u]] : u \in present}
    /\ request = [c \in Calls |-> Unused("new")]
    /\ started = 0
    /\ stale = {} /\ doubled = {}

\* getParticipant finds one of the rows of a user, whichever comes first.
RowsOf(u) == {r \in rows : r.user = u}

\* A request goes on; nothing is kept of one that is done.
Goto(c, pc) ==
    request' = [request EXCEPT ![c] = IF pc = "done" THEN Unused("done") ELSE [@ EXCEPT !.pc = pc]]

------------------------------------------------------------------------------
(* The conversation itself. *)

Create ==
    /\ stored = "new"
    /\ stored' = "yes"
    /\ UNCHANGED <<rows, request, started, stale, doubled>>

\* The foreign key of conversation_participants refuses the statement otherwise.
Remove ==
    /\ stored = "yes" /\ rows = {}
    /\ stored' = "deleted"
    /\ UNCHANGED <<rows, request, started, stale, doubled>>

------------------------------------------------------------------------------
(* addParticipant and removeParticipant, behind the guard. *)

Start(c, kind, caller, target, role) ==
    /\ request[c].pc = "new" /\ started < MaxCalls
    /\ request' = [request EXCEPT ![c] = [pc |-> "guard", kind |-> kind, caller |-> caller,
                                          target |-> target, role |-> role, row |-> {}]]
    /\ started' = started + 1
    /\ UNCHANGED <<stored, rows, stale, doubled>>

\* Variant: a moderator is let through like an admin.
GuardTrustingModerators(c) ==
    /\ request[c].pc = "guard"
    /\ \/ RowsOf(request[c].caller) = {} /\ Goto(c, "done")
       \/ \E r \in RowsOf(request[c].caller) :
             Goto(c, IF \/ request[c].caller = request[c].target
                        \/ r.role \in {"admin", "moderator"} THEN "check" ELSE "done")
    /\ UNCHANGED <<stored, rows, started, stale, doubled>>

\* Whoever does not take part is refused; everyone may act on himself, and an admin on
\* anybody; for a moderator it depends on the target.
Guard(c) ==
    /\ request[c].pc = "guard"
    /\ \/ RowsOf(request[c].caller) = {} /\ Goto(c, "done")
       \/ \E r \in RowsOf(request[c].caller) :
             Goto(c, IF request[c].caller = request[c].target \/ r.role = "admin" THEN "check"
                     ELSE IF r.role = "moderator" THEN "target"
                     ELSE "done")
    /\ UNCHANGED <<stored, rows, started, stale, doubled>>

GuardTarget(c) ==
    /\ request[c].pc = "target"
    /\ \/ RowsOf(request[c].target) = {} /\ Goto(c, "check")
       \/ \E r \in RowsOf(request[c].target) :
             Goto(c, IF r.role = "admin" THEN "done" ELSE "check")
    /\ UNCHANGED <<stored, rows, started, stale, doubled>>

\* Variant: nobody who takes part is refused.
CheckAddNothing(c) ==
    /\ request[c].pc = "check" /\ request[c].kind = "add"
    /\ Goto(c, IF stored = "yes" THEN "insert" ELSE "done")
    /\ UNCHANGED <<stored, rows, started, stale, doubled>>

\* A user who takes part already is refused.
CheckAdd(c) ==
    /\ request[c].pc = "check" /\ request[c].kind = "add"
    /\ Goto(c, IF stored = "yes" /\ RowsOf(request[c].target) = {} THEN "insert" ELSE "done")
    /\ UNCHANGED <<stored, rows, started, stale, doubled>>

FindRow(c) ==
    /\ request[c].pc = "check" /\ request[c].kind = "remove"
    /\ \/ RowsOf(request[c].target) = {} /\ Goto(c, "done")
       \/ \E r \in RowsOf(request[c].target) :
             request' = [request EXCEPT ![c].pc = "delete", ![c].row = {r}]
    /\ UNCHANGED <<stored, rows, started, stale, doubled>>

\* The other requests that go by a row of the user.
Concerned(c, u) ==
    {d \in Calls \ {c} : /\ request[d].pc \notin {"new", "done"}
                         /\ u \in {request[d].caller, request[d].target}}

Insert(c) ==
    LET u == request[c].target IN
    /\ request[c].pc = "insert" /\ stored = "yes"
    /\ rows' = rows \cup {[by |-> c, user |-> u, role |-> request[c].role]}
    /\ Goto(c, "done")
    /\ stale' = stale \cup Concerned(c, u)
    /\ doubled' = IF \E d \in Calls \ {c} : request[d].pc = "insert" /\ request[d].target = u
                  THEN doubled \cup {u} ELSE doubled
    /\ UNCHANGED <<stored, started>>

\* The row is deleted by its key; that it is gone already is no error.
Delete(c) ==
    /\ request[c].pc = "delete"
    /\ rows' = rows \ request[c].row
    /\ Goto(c, "done")
    /\ stale' = stale \cup Concerned(c, request[c].target)
    /\ UNCHANGED <<stored, started, doubled>>

\* A statement is rejected (the insert when the conversation is gone), or the process
\* stops.
Fail(c) ==
    /\ request[c].pc \notin {"new", "done"}
    /\ Goto(c, "done")
    /\ UNCHANGED <<stored, rows, started, stale, doubled>>

------------------------------------------------------------------------------
Step(c) ==
    \/ Guard(c) \/ GuardTarget(c)
    \/ CheckAdd(c) \/ FindRow(c)
    \/ Insert(c) \/ Delete(c)
    \/ Fail(c)

Next ==
    \/ Create \/ Remove
    \/ \E c \in Calls, kind \in {"add", "remove"}, caller, target \in Users, role \in Roles :
          Start(c, kind, caller, target, IF kind = "add" THEN role ELSE "member")
    \/ \E c \in Calls : Step(c)

Spec == Init /\ [][Next]_vars

------------------------------------------------------------------------------
(* Properties. *)

\* The types, and no participant without a conversation.
TypeOK ==
    /\ stored \in {"new", "yes", "deleted"}
    /\ rows \subseteq Participant
    /\ rows # {} => stored = "yes"
    /\ request \in [Calls -> Request]
    /\ started \in 0..MaxCalls
    /\ stale \subseteq Calls /\ doubled \subseteq Users

\* A user takes part once, unless the requests that added him overlapped.
OneRowPerParticipant == \A u \in Users \ doubled : Cardinality(RowsOf(u)) <= 1

\* What the roles allow: himself, anybody for an admin, and for a moderator whoever is
\* no admin.
Allowed(caller, target) ==
    \E r \in RowsOf(caller) :
       \/ caller = target \/ r.role = "admin"
       \/ r.role = "moderator" /\ \A s \in RowsOf(target) : s.role # "admin"

\* A request changes the participants only as the roles allow at that very moment,
\* although the guard looked earlier: unless another request changed a row of its caller
\* or target meanwhile, or one of them is in the table twice.
ChangeIsAllowed ==
    \A c \in Calls :
       LET caller == request[c].caller  target == request[c].target IN
       /\ request[c].pc \in {"insert", "delete"} /\ request'[c].pc # request[c].pc
       /\ rows' # rows
       /\ c \notin stale /\ {caller, target} \cap doubled = {}
       => Allowed(caller, target)

==============================================================================
