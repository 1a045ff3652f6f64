------------------------------- MODULE Messaging -------------------------------
(***************************************************************************)
(* Conversations and messages of one application.  Neither service looks   *)
(* at the tables of the other: a message names a conversation without a    *)
(* foreign key, and nothing asks whether its sender or its reader takes    *)
(* part in it.  So a step of one part commutes with every step of the      *)
(* other, and behaviours in which they mix show nothing that the parts     *)
(* alone do not: Next lets one part run while the other is at rest.        *)
(***************************************************************************)
EXTENDS Naturals, FiniteSets

CONSTANTS
    Users, MessageIds, Calls, Threshold, None,
    MaxRequests,    \* bound: requests about participants
    MaxCalls        \* bound: calls about messages

ASSUME BoundsAssumption ==
    MaxRequests \in Nat /\ MaxCalls \in Nat /\ Threshold \in Nat \ {0}

VARIABLES
    stored, rows, request, requested, stale, doubled,
    messages, moderationQueue, reports, readReceipts, reads, call, called, flagged, unqueued

Conversation == INSTANCE Conversations WITH MaxCalls <- MaxRequests, started <- requested
Message == INSTANCE Messages WITH started <- called

conversationVars == <<stored, rows, request, requested, stale, doubled>>
messageVars == <<messages, moderationQueue, reports, readReceipts, reads, call, called,
                 flagged, unqueued>>
vars == <<conversationVars, messageVars>>

ConversationAtRest == stored = "new" /\ requested = 0
MessagesAtRest == called = 0 /\ \A m \in MessageIds : messages[m] = "new"

Init == Conversation!Init /\ Message!Init

Next ==
    \/ Conversation!Next /\ MessagesAtRest /\ UNCHANGED messageVars
    \/ Message!Next /\ ConversationAtRest /\ UNCHANGED conversationVars

Spec == Init /\ [][Next]_vars

------------------------------------------------------------------------------
(* Properties: those of the parts. *)

\* The types of both, participants of stored conversations only, and no row that
\* refers to a message that is not there.
TypeOK == Conversation!TypeOK /\ Message!TypeOK

\* Looking for a row before inserting one keeps out a second row of a participant, except
\* of requests that overlap.
OneRowPerParticipant == Conversation!OneRowPerParticipant

\* A request changes the participants only as the roles allow at that moment, unless
\* another one overtook it.
ChangesAreAllowed == [][Conversation!ChangeIsAllowed]_vars

\* A flagged message, or one that was reported often enough, reaches the moderation
\* queue, or the call that should have put it there has failed.
NothingEscapesTheQueue == Message!NothingEscapesTheQueue

==============================================================================
