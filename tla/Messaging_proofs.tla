--------------------------- MODULE Messaging_proofs ---------------------------
(***************************************************************************)
(* What holds of the conversations and the messages for any number of      *)
(* users, messages and calls: no participant twice, changes of the         *)
(* participants as the roles allow, and nothing that escapes the queue.    *)
(***************************************************************************)
EXTENDS Messaging, FiniteSetTheorems, TLAPS

(* Each part counts with the Cardinality of its own instance of FiniteSets.         *)
LEMMA SameCardinality ==
    \A S : /\ Conversation!Cardinality(S) = Cardinality(S)
           /\ Message!Cardinality(S) = Cardinality(S)
BY DEF Conversation!Cardinality, Message!Cardinality, Cardinality

(***************************************************************************)
(* Participants.                                                           *)
(***************************************************************************)

\* Whom a request under way is about; the row it is to delete is one of its target.
RequestsTyped ==
    \A c \in Calls : request[c].pc \notin {"new", "done"} =>
       /\ request[c].caller \in Users /\ request[c].target \in Users
       /\ request[c].row \subseteq Conversation!Participant
       /\ \A r \in request[c].row : r.user = request[c].target

ConversationsTyped == Conversation!TypeOK /\ RequestsTyped

\* A user added by no overlapping requests is in the table once, and not at all while a
\* request is about to insert him.
Single ==
    \A u \in Users \ doubled :
       /\ \A r, s \in rows : r.user = u /\ s.user = u => r = s
       /\ \A c \in Calls : request[c].pc = "insert" /\ request[c].target = u =>
             \A r \in rows : r.user # u

\* What the guard found out still holds of a request that nothing has overtaken.
Sound(c) ==
    LET caller == request[c].caller  target == request[c].target IN
    /\ request[c].pc = "target" =>
          \E r \in rows : r.user = caller /\ r.role = "moderator"
    /\ request[c].pc \in {"check", "insert", "delete"} => Conversation!Allowed(caller, target)

GuardSound ==
    \A c \in Calls \ stale :
       request[c].caller \notin doubled /\ request[c].target \notin doubled => Sound(c)

ConversationsInv == ConversationsTyped /\ Single /\ GuardSound

(* What is left of a request that is done, and one that goes on, are requests.    *)
LEMMA RequestGoes ==
    ASSUME NEW c \in Calls, NEW pc \in {"target", "check", "insert", "done"},
           request \in [Calls -> Conversation!Request], Conversation!Goto(c, pc)
    PROVE  /\ request' \in [Calls -> Conversation!Request]
           /\ \A d \in Calls \ {c} : request'[d] = request[d]
           /\ request'[c].pc = pc
           /\ pc # "done" => /\ request'[c].caller = request[c].caller
                             /\ request'[c].target = request[c].target
                             /\ request'[c].row = request[c].row
<1> DEFINE kept == [request[c] EXCEPT !.pc = pc]
           over == Conversation!Unused("done")
<1>1. kept \in Conversation!Request /\ kept.pc = pc /\ kept.caller = request[c].caller
      /\ kept.target = request[c].target /\ kept.row = request[c].row
  BY DEF Conversation!Request
<1>2. over \in Conversation!Request /\ over.pc = "done"
  BY DEF Conversation!Request, Conversation!Unused, Conversation!Roles
<1>3. request' = [request EXCEPT ![c] = IF pc = "done" THEN over ELSE kept]
  BY DEF Conversation!Goto
<1> HIDE DEF kept, over
<1>4. QED
  BY <1>1, <1>2, <1>3

(* A request under way goes on about the same participants.                        *)
LEMMA RequestStaysTyped ==
    ASSUME NEW c \in Calls, NEW pc \in {"target", "check", "insert", "done"},
           request \in [Calls -> Conversation!Request], RequestsTyped,
           request[c].pc \notin {"new", "done"}, Conversation!Goto(c, pc)
    PROVE  request' \in [Calls -> Conversation!Request] /\ RequestsTyped'
<1>1. /\ request' \in [Calls -> Conversation!Request]
      /\ \A d \in Calls \ {c} : request'[d] = request[d]
      /\ request'[c].pc = pc
      /\ pc # "done" => /\ request'[c].caller = request[c].caller
                        /\ request'[c].target = request[c].target
                        /\ request'[c].row = request[c].row
  BY RequestGoes
<1>2. RequestsTyped'
  BY <1>1 DEF RequestsTyped
<1>3. QED
  BY <1>1, <1>2

LEMMA ConversationsTypedInit == Conversation!Init => ConversationsTyped
<1> SUFFICES ASSUME Conversation!Init PROVE ConversationsTyped
  OBVIOUS
<1>1. Conversation!Unused("new") \in Conversation!Request /\ Conversation!Unused("new").pc = "new"
  BY DEF Conversation!Unused, Conversation!Request, Conversation!Roles
<1>2. request \in [Calls -> Conversation!Request] /\ \A c \in Calls : request[c].pc = "new"
  BY <1>1 DEF Conversation!Init
<1>3. rows \subseteq Conversation!Participant /\ (rows # {} => stored = "yes")
  <2>1. PICK present \in SUBSET Users, role \in [Users -> Conversation!Roles] :
          /\ present = {} \/ stored = "yes"
          /\ rows = {[by |-> None, user |-> u, role |-> role[u]] : u \in present}
    BY DEF Conversation!Init
  <2>2. QED
    BY <2>1 DEF Conversation!Participant
<1>4. stored \in {"new", "yes", "deleted"} /\ requested \in 0..MaxRequests
      /\ stale \subseteq Calls /\ doubled \subseteq Users
  BY BoundsAssumption DEF Conversation!Init
<1>5. QED
  BY <1>2, <1>3, <1>4 DEF ConversationsTyped, Conversation!TypeOK, RequestsTyped

LEMMA ConversationsTypedNext ==
    ASSUME ConversationsTyped, [Conversation!Next]_conversationVars
    PROVE  ConversationsTyped'
<1> USE DEF ConversationsTyped, Conversation!TypeOK
<1>1. CASE Conversation!Create
  BY <1>1 DEF Conversation!Create, RequestsTyped
<1>2. CASE Conversation!Remove
  BY <1>2 DEF Conversation!Remove, RequestsTyped
<1>3. ASSUME NEW c \in Calls, NEW kind \in {"add", "remove"}, NEW caller \in Users,
             NEW target \in Users, NEW role \in Conversation!Roles,
             Conversation!Start(c, kind, caller, target, role)
      PROVE  ConversationsTyped'
  <2> DEFINE new == [pc |-> "guard", kind |-> kind, caller |-> caller, target |-> target,
                     role |-> role, row |-> {}]
  <2>1. new \in Conversation!Request /\ new.caller = caller /\ new.target = target /\ new.row = {}
    BY DEF Conversation!Request, Conversation!Roles
  <2>2. request' = [request EXCEPT ![c] = new]
    BY <1>3 DEF Conversation!Start
  <2>3. requested' \in 0..MaxRequests
    BY <1>3, BoundsAssumption DEF Conversation!Start
  <2>4. UNCHANGED <<stored, rows, stale, doubled>>
    BY <1>3 DEF Conversation!Start
  <2> HIDE DEF new
  <2>5. request' \in [Calls -> Conversation!Request] /\ RequestsTyped'
    BY <2>1, <2>2 DEF RequestsTyped
  <2>6. QED
    BY <2>3, <2>4, <2>5
<1>4. ASSUME NEW c \in Calls, NEW pc \in {"target", "check", "insert", "done"},
             request[c].pc \notin {"new", "done"}, Conversation!Goto(c, pc),
             UNCHANGED <<stored, rows, requested, stale, doubled>>
      PROVE  ConversationsTyped'
  <2>1. request' \in [Calls -> Conversation!Request] /\ RequestsTyped'
    BY <1>4, RequestStaysTyped
  <2>2. QED
    BY <1>4, <2>1
<1>5. ASSUME NEW c \in Calls, Conversation!Step(c)
      PROVE  ConversationsTyped'
  <2>1. CASE Conversation!Guard(c)
    BY <2>1, <1>4 DEF Conversation!Guard
  <2>2. CASE Conversation!GuardTarget(c)
    BY <2>2, <1>4 DEF Conversation!GuardTarget
  <2>3. CASE Conversation!CheckAdd(c)
    BY <2>3, <1>4 DEF Conversation!CheckAdd
  <2>4. CASE Conversation!Fail(c)
    BY <2>4, <1>4 DEF Conversation!Fail
  <2>5. CASE Conversation!FindRow(c)
    <3>1. CASE Conversation!Goto(c, "done")
      BY <2>5, <3>1, <1>4 DEF Conversation!FindRow
    <3>2. CASE \E r \in Conversation!RowsOf(request[c].target) :
                 request' = [request EXCEPT ![c].pc = "delete", ![c].row = {r}]
      <4>1. PICK r \in rows : /\ r.user = request[c].target
                              /\ request' = [request EXCEPT ![c].pc = "delete", ![c].row = {r}]
        BY <3>2 DEF Conversation!RowsOf
      <4> DEFINE found == [request[c] EXCEPT !.pc = "delete", !.row = {r}]
      <4>2. /\ found \in Conversation!Request /\ found.row = {r}
            /\ found.caller = request[c].caller /\ found.target = request[c].target
        BY <4>1 DEF Conversation!Request
      <4>3. request' = [request EXCEPT ![c] = found]
        BY <4>1
      <4>4. UNCHANGED <<stored, rows, requested, stale, doubled>> /\ request[c].pc = "check"
        BY <2>5 DEF Conversation!FindRow
      <4> HIDE DEF found
      <4>5. request' \in [Calls -> Conversation!Request]
        BY <4>2, <4>3
      <4>6. RequestsTyped'
        BY <4>1, <4>2, <4>3, <4>4 DEF RequestsTyped
      <4>7. QED
        BY <4>4, <4>5, <4>6
    <3>3. QED
      BY <2>5, <3>1, <3>2 DEF Conversation!FindRow
  <2>6. CASE Conversation!Insert(c)
    <3>1. request[c].pc = "insert" /\ Conversation!Goto(c, "done") /\ stored = "yes"
          /\ UNCHANGED <<stored, requested>>
      BY <2>6 DEF Conversation!Insert
    <3>2. request' \in [Calls -> Conversation!Request] /\ RequestsTyped'
      BY <3>1, RequestStaysTyped
    <3>3. request[c].target \in Users
      BY <3>1 DEF RequestsTyped
    <3>4. [by |-> c, user |-> request[c].target, role |-> request[c].role] \in Conversation!Participant
      <4>1. request[c].role \in Conversation!Roles
        BY DEF Conversation!Request
      <4>2. QED
        BY <3>3, <4>1 DEF Conversation!Participant
    <3>5. rows' \subseteq Conversation!Participant
      BY <2>6, <3>4 DEF Conversation!Insert
    <3>6. stale' \subseteq Calls /\ doubled' \subseteq Users
      BY <2>6, <3>3 DEF Conversation!Insert, Conversation!Concerned
    <3>7. QED
      BY <3>1, <3>2, <3>5, <3>6
  <2>7. CASE Conversation!Delete(c)
    <3>1. request[c].pc = "delete" /\ Conversation!Goto(c, "done")
          /\ UNCHANGED <<stored, requested, doubled>> /\ rows' \subseteq rows
      BY <2>7 DEF Conversation!Delete
    <3>2. request' \in [Calls -> Conversation!Request] /\ RequestsTyped'
      BY <3>1, RequestStaysTyped
    <3>3. stale' \subseteq Calls
      BY <2>7 DEF Conversation!Delete, Conversation!Concerned
    <3>4. QED
      BY <3>1, <3>2, <3>3
  <2>8. QED
    BY <1>5, <2>1, <2>2, <2>3, <2>4, <2>5, <2>6, <2>7 DEF Conversation!Step
<1>6. CASE UNCHANGED conversationVars
  BY <1>6 DEF conversationVars, RequestsTyped
<1>7. QED
  <2>1. "member" \in Conversation!Roles
    BY DEF Conversation!Roles
  <2>2. QED
    BY <2>1, <1>1, <1>2, <1>3, <1>5, <1>6 DEF Conversation!Next

(* Nobody who is to be inserted is in the table, and nobody is in it twice.        *)
LEMMA SingleInit == Conversation!Init => Single
<1> SUFFICES ASSUME Conversation!Init PROVE Single
  OBVIOUS
<1>1. \A c \in Calls : request[c].pc = "new"
  BY DEF Conversation!Init, Conversation!Unused
<1>2. PICK present \in SUBSET Users, role \in [Users -> Conversation!Roles] :
        rows = {[by |-> None, user |-> u, role |-> role[u]] : u \in present}
  BY DEF Conversation!Init
<1>3. \A r, s \in rows : r.user = s.user => r = s
  BY <1>2
<1>4. QED
  BY <1>1, <1>3 DEF Single

(* A step that leaves the rows alone and starts no insertion.                      *)
LEMMA SingleStays ==
    ASSUME Single, UNCHANGED rows, doubled \subseteq doubled',
           \A d \in Calls : request'[d].pc = "insert" =>
              request[d].pc = "insert" /\ request'[d].target = request[d].target
    PROVE  Single'
BY DEF Single

LEMMA SingleNext ==
    ASSUME ConversationsTyped, Single, [Conversation!Next]_conversationVars
    PROVE  Single'
<1> USE DEF ConversationsTyped, Conversation!TypeOK
<1>1. CASE Conversation!Create
  BY <1>1, SingleStays DEF Conversation!Create
<1>2. CASE Conversation!Remove
  BY <1>2, SingleStays DEF Conversation!Remove
<1>3. ASSUME NEW c \in Calls, NEW kind \in {"add", "remove"}, NEW caller \in Users,
             NEW target \in Users, NEW role \in Conversation!Roles \cup {"member"},
             Conversation!Start(c, kind, caller, target, role)
      PROVE  Single'
  <2>1. /\ \A d \in Calls \ {c} : request'[d] = request[d]
        /\ request'[c].pc = "guard" /\ UNCHANGED <<rows, doubled>>
    BY <1>3 DEF Conversation!Start
  <2>2. QED
    BY <2>1, SingleStays
<1>4. ASSUME NEW c \in Calls, NEW pc \in {"target", "check", "done"}, Conversation!Goto(c, pc),
             UNCHANGED <<rows, doubled>>
      PROVE  Single'
  <2>1. (\A d \in Calls \ {c} : request'[d] = request[d]) /\ request'[c].pc = pc
    BY <1>4, RequestGoes
  <2>2. QED
    BY <1>4, <2>1, SingleStays
<1>5. ASSUME NEW c \in Calls, Conversation!Step(c)
      PROVE  Single'
  <2>1. CASE Conversation!Guard(c)
    BY <2>1, <1>4 DEF Conversation!Guard
  <2>2. CASE Conversation!GuardTarget(c)
    BY <2>2, <1>4 DEF Conversation!GuardTarget
  <2>3. CASE Conversation!CheckAdd(c)
    <3>1. UNCHANGED <<rows, doubled>>
      BY <2>3 DEF Conversation!CheckAdd
    <3>2. CASE Conversation!RowsOf(request[c].target) = {} /\ Conversation!Goto(c, "insert")
      <4>1. /\ \A d \in Calls \ {c} : request'[d] = request[d]
            /\ request'[c].target = request[c].target
        BY <3>2, RequestGoes
      <4>2. \A r \in rows : r.user # request[c].target
        BY <3>2 DEF Conversation!RowsOf
      <4>3. QED
        BY <3>1, <4>1, <4>2 DEF Single
    <3>3. QED
      BY <2>3, <3>1, <3>2, <1>4 DEF Conversation!CheckAdd
  <2>4. CASE Conversation!Fail(c)
    BY <2>4, <1>4 DEF Conversation!Fail
  <2>5. CASE Conversation!FindRow(c)
    <3>1. UNCHANGED <<rows, doubled>>
      BY <2>5 DEF Conversation!FindRow
    <3>2. CASE Conversation!Goto(c, "done")
      BY <3>1, <3>2, <1>4
    <3>3. CASE \E r \in Conversation!RowsOf(request[c].target) :
                 request' = [request EXCEPT ![c].pc = "delete", ![c].row = {r}]
      <4>1. (\A d \in Calls \ {c} : request'[d] = request[d]) /\ request'[c].pc = "delete"
        BY <3>3 DEF Conversation!Request
      <4>2. QED
        BY <3>1, <4>1, SingleStays
    <3>4. QED
      BY <2>5, <3>2, <3>3 DEF Conversation!FindRow
  <2>6. CASE Conversation!Insert(c)
    <3> DEFINE u == request[c].target
               row == [by |-> c, user |-> u, role |-> request[c].role]
    <3>1. /\ request[c].pc = "insert" /\ rows' = rows \cup {row} /\ Conversation!Goto(c, "done")
          /\ doubled' = IF \E d \in Calls \ {c} : request[d].pc = "insert" /\ request[d].target = u
                        THEN doubled \cup {u} ELSE doubled
      BY <2>6 DEF Conversation!Insert
    <3>2. (\A d \in Calls \ {c} : request'[d] = request[d]) /\ request'[c].pc = "done"
      BY <3>1, RequestGoes
    <3>3. row.user = u
      OBVIOUS
    <3> HIDE DEF u, row
    <3>4. doubled \subseteq doubled'
      BY <3>1
    <3>5. ASSUME u \notin doubled'
          PROVE  /\ \A r \in rows : r.user # u
                 /\ \A d \in Calls \ {c} : ~(request[d].pc = "insert" /\ request[d].target = u)
      <4>1. u \in Users
        BY <3>1 DEF RequestsTyped, u
      <4>2. \A d \in Calls \ {c} : ~(request[d].pc = "insert" /\ request[d].target = u)
        BY <3>1, <3>5
      <4>3. \A r \in rows : r.user # u
        BY <3>1, <3>4, <3>5, <4>1 DEF Single, u
      <4>4. QED
        BY <4>2, <4>3
    <3>6. ASSUME NEW v \in Users \ doubled'
          PROVE  /\ \A r, s \in rows' : r.user = v /\ s.user = v => r = s
                 /\ \A d \in Calls : request'[d].pc = "insert" /\ request'[d].target = v =>
                       \A r \in rows' : r.user # v
      <4>1. CASE v = u
        BY <4>1, <3>1, <3>2, <3>3, <3>5
      <4>2. CASE v # u
        <5>1. v \in Users \ doubled
          BY <3>4
        <5>2. \A r \in rows' : r.user = v => r \in rows
          BY <3>1, <3>3, <4>2
        <5>3. QED
          BY <3>2, <5>1, <5>2 DEF Single
      <4>3. QED
        BY <4>1, <4>2
    <3>7. QED
      BY <3>6 DEF Single
  <2>7. CASE Conversation!Delete(c)
    <3>1. Conversation!Goto(c, "done") /\ rows' \subseteq rows /\ UNCHANGED doubled
      BY <2>7 DEF Conversation!Delete
    <3>2. (\A d \in Calls \ {c} : request'[d] = request[d]) /\ request'[c].pc = "done"
      BY <3>1, RequestGoes
    <3>3. QED
      BY <3>1, <3>2 DEF Single
  <2>8. QED
    BY <1>5, <2>1, <2>2, <2>3, <2>4, <2>5, <2>6, <2>7 DEF Conversation!Step
<1>6. CASE UNCHANGED conversationVars
  BY <1>6, SingleStays DEF conversationVars
<1>7. QED
  BY <1>1, <1>2, <1>3, <1>5, <1>6 DEF Conversation!Next

LEMMA GuardSoundInit == Conversation!Init => GuardSound
BY DEF Conversation!Init, Conversation!Unused, GuardSound, Sound

(* What the roles allow depends on the rows of the two participants alone.         *)
LEMMA SoundStays ==
    ASSUME NEW c \in Calls,
           c \notin stale /\ request[c].caller \notin doubled /\ request[c].target \notin doubled
             => Sound(c),
           stale \subseteq stale', doubled \subseteq doubled', request'[c] = request[c],
           c \notin stale' => \A r : r.user \in {request[c].caller, request[c].target} =>
                                        (r \in rows <=> r \in rows'),
           c \notin stale', request'[c].caller \notin doubled', request'[c].target \notin doubled'
    PROVE  Sound(c)'
<1>1. Sound(c)
  OBVIOUS
<1>2. \A r : r.user \in {request[c].caller, request[c].target} => (r \in rows <=> r \in rows')
  OBVIOUS
<1>3. request[c].pc \in {"check", "insert", "delete"} =>
        Conversation!Allowed(request[c].caller, request[c].target)'
  BY <1>1, <1>2 DEF Sound, Conversation!Allowed, Conversation!RowsOf
<1>4. QED
  BY <1>1, <1>2, <1>3 DEF Sound

(* A step of a request that changes no row keeps what the others know.             *)
LEMMA GuardSoundMoves ==
    ASSUME GuardSound, NEW c \in Calls, UNCHANGED <<rows, stale, doubled>>,
           \A d \in Calls \ {c} : request'[d] = request[d],
           c \notin stale /\ request'[c].caller \notin doubled /\ request'[c].target \notin doubled
             => Sound(c)'
    PROVE  GuardSound'
<1>1. ASSUME NEW d \in Calls \ stale', request'[d].caller \notin doubled',
             request'[d].target \notin doubled'
      PROVE  Sound(d)'
  <2>1. CASE d = c
    BY <1>1, <2>1
  <2>2. CASE d # c
    <3>1. request'[d] = request[d] /\ d \in Calls \ stale
      BY <1>1, <2>2
    <3>2. Sound(d)
      BY <1>1, <3>1 DEF GuardSound
    <3>3. QED
      BY <1>1, <3>1, <3>2, SoundStays
  <2>3. QED
    BY <2>1, <2>2
<1>2. QED
  BY <1>1 DEF GuardSound

(* A request that changes a row has overtaken all others that go by it.            *)
LEMMA GuardSoundWrites ==
    ASSUME GuardSound, NEW c \in Calls, NEW u,
           \A d \in Calls \ {c} : request'[d] = request[d], request'[c].pc = "done",
           stale' = stale \cup Conversation!Concerned(c, u), doubled \subseteq doubled',
           \A r : r.user # u => (r \in rows <=> r \in rows')
    PROVE  GuardSound'
<1>1. ASSUME NEW d \in Calls \ stale', request'[d].caller \notin doubled',
             request'[d].target \notin doubled'
      PROVE  Sound(d)'
  <2>1. CASE request'[d].pc \in {"new", "done"}
    BY <2>1 DEF Sound
  <2>2. CASE request'[d].pc \notin {"new", "done"}
    <3>1. d # c /\ request'[d] = request[d]
      BY <2>2
    <3>2. u \notin {request[d].caller, request[d].target}
      BY <1>1, <2>2, <3>1 DEF Conversation!Concerned
    <3>3. Sound(d)
      BY <1>1, <3>1 DEF GuardSound
    <3>4. QED
      BY <1>1, <3>1, <3>2, <3>3, SoundStays
  <2>3. QED
    BY <2>1, <2>2
<1>2. QED
  BY <1>1 DEF GuardSound

LEMMA GuardSoundNext ==
    ASSUME ConversationsTyped, Single, GuardSound, [Conversation!Next]_conversationVars
    PROVE  GuardSound'
<1> USE DEF ConversationsTyped, Conversation!TypeOK
<1>1. ASSUME UNCHANGED <<rows, request, stale, doubled>>
      PROVE  GuardSound'
  BY <1>1 DEF GuardSound, Sound, Conversation!Allowed, Conversation!RowsOf
<1>2. CASE Conversation!Create \/ Conversation!Remove \/ UNCHANGED conversationVars
  BY <1>1, <1>2 DEF Conversation!Create, Conversation!Remove, conversationVars
<1>3. ASSUME NEW c \in Calls, NEW kind \in {"add", "remove"}, NEW caller \in Users,
             NEW target \in Users, NEW role \in Conversation!Roles \cup {"member"},
             Conversation!Start(c, kind, caller, target, role)
      PROVE  GuardSound'
  <2>1. /\ \A d \in Calls \ {c} : request'[d] = request[d]
        /\ request'[c].pc = "guard" /\ UNCHANGED <<rows, stale, doubled>>
    BY <1>3 DEF Conversation!Start
  <2>2. Sound(c)'
    BY <2>1 DEF Sound
  <2>3. QED
    BY <2>1, <2>2, GuardSoundMoves
<1>4. ASSUME NEW c \in Calls, NEW pc \in {"target", "check", "insert", "done"},
             Conversation!Goto(c, pc), UNCHANGED <<rows, stale, doubled>>,
             c \notin stale /\ request[c].caller \notin doubled /\ request[c].target \notin doubled
               => /\ pc = "target" => \E r \in rows : r.user = request[c].caller /\ r.role = "moderator"
                  /\ pc \in {"check", "insert"} =>
                        Conversation!Allowed(request[c].caller, request[c].target)
      PROVE  GuardSound'
  <2>1. /\ \A d \in Calls \ {c} : request'[d] = request[d]
        /\ request'[c].pc = pc
        /\ pc # "done" => /\ request'[c].caller = request[c].caller
                          /\ request'[c].target = request[c].target
    BY <1>4, RequestGoes
  <2>2. ASSUME c \notin stale, request'[c].caller \notin doubled, request'[c].target \notin doubled
        PROVE  Sound(c)'
    <3>1. CASE pc = "done"
      BY <2>1, <3>1 DEF Sound
    <3>2. CASE pc # "done"
      BY <1>4, <2>1, <2>2, <3>2 DEF Sound, Conversation!Allowed, Conversation!RowsOf
    <3>3. QED
      BY <3>1, <3>2
  <2>3. QED
    BY <1>4, <2>1, <2>2, GuardSoundMoves
<1>5. ASSUME NEW c \in Calls, Conversation!Step(c)
      PROVE  GuardSound'
  <2> DEFINE caller == request[c].caller
             target == request[c].target
  <2>1. CASE Conversation!Guard(c)
    <3>1. UNCHANGED <<rows, stale, doubled>>
      BY <2>1 DEF Conversation!Guard
    <3>2. CASE Conversation!RowsOf(caller) = {} /\ Conversation!Goto(c, "done")
      BY <3>1, <3>2, <1>4
    <3>3. ASSUME NEW r \in Conversation!RowsOf(caller),
                 Conversation!Goto(c, IF caller = target \/ r.role = "admin" THEN "check"
                                      ELSE IF r.role = "moderator" THEN "target" ELSE "done")
          PROVE  GuardSound'
      <4>1. CASE caller = target \/ r.role = "admin"
        <5>1. Conversation!Allowed(caller, target)
          BY <3>3, <4>1 DEF Conversation!Allowed
        <5>2. Conversation!Goto(c, "check")
          BY <3>3, <4>1
        <5>3. QED
          BY <3>1, <5>1, <5>2, <1>4
      <4>2. CASE ~(caller = target \/ r.role = "admin") /\ r.role = "moderator"
        <5>1. r \in rows /\ r.user = caller
          BY <3>3 DEF Conversation!RowsOf
        <5>2. Conversation!Goto(c, "target")
          BY <3>3, <4>2
        <5>3. QED
          BY <3>1, <4>2, <5>1, <5>2, <1>4
      <4>3. CASE ~(caller = target \/ r.role = "admin") /\ r.role # "moderator"
        <5>1. Conversation!Goto(c, "done")
          BY <3>3, <4>3
        <5>2. QED
          BY <3>1, <5>1, <1>4
      <4>4. QED
        BY <4>1, <4>2, <4>3
    <3>4. QED
      BY <2>1, <3>2, <3>3 DEF Conversation!Guard
  <2>2. CASE Conversation!GuardTarget(c)
    <3>1. UNCHANGED <<rows, stale, doubled>> /\ request[c].pc = "target"
      BY <2>2 DEF Conversation!GuardTarget
    <3>2. caller \in Users /\ target \in Users
      BY <3>1 DEF RequestsTyped
    <3>3. ASSUME c \notin stale, caller \notin doubled, target \notin doubled,
                 \A s \in Conversation!RowsOf(target) : s.role # "admin"
          PROVE  Conversation!Allowed(caller, target)
      <4>1. PICK r \in rows : r.user = caller /\ r.role = "moderator"
        BY <3>1, <3>3 DEF GuardSound, Sound
      <4>2. r \in Conversation!RowsOf(caller)
        BY <4>1 DEF Conversation!RowsOf
      <4>3. QED
        BY <3>3, <4>1, <4>2 DEF Conversation!Allowed
    <3>4. CASE Conversation!RowsOf(target) = {} /\ Conversation!Goto(c, "check")
      BY <3>1, <3>3, <3>4, <1>4
    <3>5. ASSUME NEW r \in Conversation!RowsOf(target),
                 Conversation!Goto(c, IF r.role = "admin" THEN "done" ELSE "check")
          PROVE  GuardSound'
      <4>1. CASE r.role = "admin"
        <5>1. Conversation!Goto(c, "done")
          BY <3>5, <4>1
        <5>2. QED
          BY <3>1, <5>1, <1>4
      <4>2. CASE r.role # "admin"
        <5>1. Conversation!Goto(c, "check")
          BY <3>5, <4>2
        <5>2. target \notin doubled => \A s \in Conversation!RowsOf(target) : s = r
          BY <3>2, <3>5 DEF Single, Conversation!RowsOf
        <5>3. QED
          BY <3>1, <3>3, <4>2, <5>1, <5>2, <1>4
      <4>3. QED
        BY <4>1, <4>2
    <3>6. QED
      BY <2>2, <3>4, <3>5 DEF Conversation!GuardTarget
  <2>3. CASE Conversation!CheckAdd(c)
    <3>1. UNCHANGED <<rows, stale, doubled>> /\ request[c].pc = "check"
          /\ (Conversation!Goto(c, "insert") \/ Conversation!Goto(c, "done"))
      BY <2>3 DEF Conversation!CheckAdd
    <3>2. c \notin stale /\ caller \notin doubled /\ target \notin doubled
            => Conversation!Allowed(caller, target)
      BY <3>1 DEF GuardSound, Sound
    <3>3. QED
      BY <3>1, <3>2, <1>4
  <2>4. CASE Conversation!Fail(c)
    BY <2>4, <1>4 DEF Conversation!Fail
  <2>5. CASE Conversation!FindRow(c)
    <3>1. UNCHANGED <<rows, stale, doubled>> /\ request[c].pc = "check"
      BY <2>5 DEF Conversation!FindRow
    <3>2. CASE Conversation!Goto(c, "done")
      BY <3>1, <3>2, <1>4
    <3>3. ASSUME NEW r \in Conversation!RowsOf(target),
                 request' = [request EXCEPT ![c].pc = "delete", ![c].row = {r}]
          PROVE  GuardSound'
      <4>1. /\ \A d \in Calls \ {c} : request'[d] = request[d]
            /\ request'[c].pc = "delete" /\ request'[c].caller = caller
            /\ request'[c].target = target
        BY <3>3 DEF Conversation!Request
      <4>2. c \notin stale /\ caller \notin doubled /\ target \notin doubled
              => Conversation!Allowed(caller, target)
        BY <3>1 DEF GuardSound, Sound
      <4>3. c \notin stale /\ request'[c].caller \notin doubled /\ request'[c].target \notin doubled
              => Sound(c)'
        BY <3>1, <4>1, <4>2 DEF Sound, Conversation!Allowed, Conversation!RowsOf
      <4>4. QED
        BY <3>1, <4>1, <4>3, GuardSoundMoves
    <3>4. QED
      BY <2>5, <3>2, <3>3 DEF Conversation!FindRow
  <2>6. CASE Conversation!Insert(c)
    <3> DEFINE row == [by |-> c, user |-> target, role |-> request[c].role]
    <3>1. /\ rows' = rows \cup {row} /\ Conversation!Goto(c, "done")
          /\ stale' = stale \cup Conversation!Concerned(c, target) /\ doubled \subseteq doubled'
      BY <2>6 DEF Conversation!Insert
    <3>2. (\A d \in Calls \ {c} : request'[d] = request[d]) /\ request'[c].pc = "done"
      BY <3>1, RequestGoes
    <3>3. \A r : r.user # target => (r \in rows <=> r \in rows')
      BY <3>1
    <3>4. QED
      BY <3>1, <3>2, <3>3, GuardSoundWrites
  <2>7. CASE Conversation!Delete(c)
    <3>1. /\ rows' = rows \ request[c].row /\ Conversation!Goto(c, "done")
          /\ stale' = stale \cup Conversation!Concerned(c, target) /\ UNCHANGED doubled
          /\ request[c].pc = "delete"
      BY <2>7 DEF Conversation!Delete
    <3>2. (\A d \in Calls \ {c} : request'[d] = request[d]) /\ request'[c].pc = "done"
      BY <3>1, RequestGoes
    <3>3. \A r \in request[c].row : r.user = target
      BY <3>1 DEF RequestsTyped
    <3>4. \A r : r.user # target => (r \in rows <=> r \in rows')
      BY <3>1, <3>3
    <3>5. QED
      BY <3>1, <3>2, <3>4, GuardSoundWrites
  <2>8. QED
    BY <1>5, <2>1, <2>2, <2>3, <2>4, <2>5, <2>6, <2>7 DEF Conversation!Step
<1>7. QED
  BY <1>2, <1>3, <1>5 DEF Conversation!Next

(***************************************************************************)
(* Messages.                                                               *)
(***************************************************************************)
\* The steps of a call of each kind.
StepsOf(kind) ==
    CASE kind = "send" -> {"analyze", "insert", "queue"}
      [] kind = "job" -> {"analyze", "queue"}
      [] kind = "edit" -> {"find", "write"}
      [] kind = "read" -> {"find", "insert"}
      [] kind = "receipt" -> {"find", "check", "insert"}
      [] kind = "report" -> {"insert", "count", "queue"}
      [] OTHER -> {"find", "write"}

CallsTyped ==
    \A c \in Calls : call[c].pc \notin {"new", "done"} =>
       /\ call[c].pc \in StepsOf(call[c].kind)
       /\ call[c].kind # "receipt" => call[c].message \in MessageIds
       /\ call[c].kind = "read" => call[c].user \in Users
       /\ call[c].kind \in {"reviewItem", "reviewReport"} /\ call[c].pc = "write" =>
             call[c].case \in Calls

MessagesTyped == Message!TypeOK /\ CallsTyped

Queued(m) == \E item \in moderationQueue : item.message = m

\* A flagged message stays on its way even if it is removed: an edit may bring it back.
\* A report that is yet to be counted does not put a flagged message there.
FlaggedQueued ==
    \A m \in flagged :
       Queued(m) \/ m \in unqueued \/ \E c \in Calls : call[c].pc = "queue" /\ call[c].message = m

ReportedQueued ==
    \A m \in MessageIds :
       /\ IsFiniteSet(Message!Pending(m))
       /\ Cardinality(Message!Pending(m)) >= Threshold =>
             \/ Queued(m) \/ m \in unqueued
             \/ \E c \in Calls : call[c].pc \in {"count", "queue"} /\ call[c].message = m

MessagesInv == MessagesTyped /\ FlaggedQueued /\ ReportedQueued
(* A call that goes on, and what is left of one that is done, are calls.           *)
LEMMA CallGoes ==
    ASSUME NEW c \in Calls, NEW pc \in {"check", "insert", "write", "count", "queue", "done"},
           call \in [Calls -> Message!Call], Message!Goto(c, pc)
    PROVE  /\ call' \in [Calls -> Message!Call]
           /\ \A d \in Calls \ {c} : call'[d] = call[d]
           /\ call'[c].pc = pc
           /\ pc # "done" => /\ call'[c].kind = call[c].kind
                             /\ call'[c].user = call[c].user
                             /\ call'[c].message = call[c].message
                             /\ call'[c].case = call[c].case
<1> DEFINE kept == [call[c] EXCEPT !.pc = pc]
           over == Message!Unused("done")
<1>1. kept \in Message!Call /\ kept.pc = pc /\ kept.kind = call[c].kind /\ kept.user = call[c].user
      /\ kept.message = call[c].message /\ kept.case = call[c].case
  BY DEF Message!Call
<1>2. over \in Message!Call /\ over.pc = "done"
  BY DEF Message!Call, Message!Unused, Message!Kinds
<1>3. call' = [call EXCEPT ![c] = IF pc = "done" THEN over ELSE kept]
  BY DEF Message!Goto
<1> HIDE DEF kept, over
<1>4. QED
  BY <1>1, <1>2, <1>3

(* It keeps what it is about, if its next step is one of its kind.                 *)
LEMMA CallStaysTyped ==
    ASSUME NEW c \in Calls, NEW pc \in {"insert", "write", "count", "queue", "done"},
           call \in [Calls -> Message!Call], CallsTyped, Message!Goto(c, pc),
           pc # "done" => /\ call[c].pc \notin {"new", "done"} /\ pc \in StepsOf(call[c].kind)
                          /\ pc = "write" => call[c].kind = "edit"
    PROVE  call' \in [Calls -> Message!Call] /\ CallsTyped'
<1>1. /\ call' \in [Calls -> Message!Call]
      /\ \A d \in Calls \ {c} : call'[d] = call[d]
      /\ call'[c].pc = pc
      /\ pc # "done" => /\ call'[c].kind = call[c].kind
                        /\ call'[c].user = call[c].user
                        /\ call'[c].message = call[c].message
                        /\ call'[c].case = call[c].case
  BY CallGoes
<1>2. CallsTyped'
  BY <1>1 DEF CallsTyped
<1>3. QED
  BY <1>1, <1>2

LEMMA CallReplacedTyped ==
    ASSUME NEW c \in Calls, NEW new \in Message!Call,
           call \in [Calls -> Message!Call], CallsTyped, call' = [call EXCEPT ![c] = new],
           new.pc \notin {"new", "done"} =>
             /\ new.pc \in StepsOf(new.kind)
             /\ new.kind # "receipt" => new.message \in MessageIds
             /\ new.kind = "read" => new.user \in Users
             /\ new.kind \in {"reviewItem", "reviewReport"} /\ new.pc = "write" =>
                   new.case \in Calls
    PROVE  call' \in [Calls -> Message!Call] /\ CallsTyped'
<1>1. call' \in [Calls -> Message!Call]
  OBVIOUS
<1>2. \A d \in Calls : call'[d] = IF d = c THEN new ELSE call[d]
  OBVIOUS
<1>3. CallsTyped'
  BY <1>2 DEF CallsTyped
<1>4. QED
  BY <1>1, <1>3

LEMMA MessagesTypedInit == Message!Init => MessagesTyped
<1> SUFFICES ASSUME Message!Init PROVE MessagesTyped
  OBVIOUS
<1>1. Message!Unused("new") \in Message!Call /\ Message!Unused("new").pc = "new"
  BY DEF Message!Unused, Message!Call, Message!Kinds
<1>2. call \in [Calls -> Message!Call] /\ \A c \in Calls : call[c].pc = "new"
  BY <1>1 DEF Message!Init
<1>3. /\ messages \in [MessageIds -> {"new", "stored", "removed"}]
      /\ moderationQueue = {} /\ reports = {} /\ readReceipts = {} /\ reads = {}
      /\ called \in 0..MaxCalls /\ flagged = {} /\ unqueued = {}
  BY BoundsAssumption DEF Message!Init
<1>4. QED
  BY <1>2, <1>3 DEF MessagesTyped, Message!TypeOK, CallsTyped

(* The conjuncts of the type invariant that one kind of step disturbs.             *)
TablesTyped ==
    /\ messages \in [MessageIds -> {"new", "stored", "removed"}]
    /\ moderationQueue \subseteq Message!Item /\ reports \subseteq Message!ContentReport
    /\ readReceipts \subseteq Message!Receipt /\ reads \subseteq Message!Receipt
    /\ \A r \in moderationQueue \cup reports \cup reads : Message!Stored(r.message)
    /\ \A r \in readReceipts : r.message = None \/ Message!Stored(r.message)

LEMMA TablesStayTyped ==
    ASSUME TablesTyped, UNCHANGED <<messages, moderationQueue, reports, readReceipts, reads>>
    PROVE  TablesTyped'
BY DEF TablesTyped, Message!Stored

TypesInParts ==
    /\ TablesTyped
    /\ call \in [Calls -> Message!Call] /\ CallsTyped
    /\ called \in 0..MaxCalls
    /\ flagged \subseteq MessageIds /\ unqueued \subseteq MessageIds

LEMMA TypesOfParts == (MessagesTyped <=> TypesInParts) /\ (MessagesTyped' <=> TypesInParts')
BY DEF MessagesTyped, Message!TypeOK, TablesTyped, TypesInParts

(* A call does one of its steps, with the kind and the message it has.             *)
LEMMA KindOfStep ==
    ASSUME NEW c \in Calls, CallsTyped, call \in [Calls -> Message!Call]
    PROVE  /\ call[c].pc = "analyze" => call[c].kind \in {"send", "job"}
           /\ call[c].pc = "count" => call[c].kind = "report"
           /\ call[c].pc = "queue" => call[c].kind \in {"send", "job", "report"}
           /\ call[c].pc \in {"analyze", "count", "queue"} => call[c].message \in MessageIds
<1>1. call[c].kind \in Message!Kinds
  BY DEF Message!Call
<1>2. call[c].pc \in {"analyze", "count", "queue"} => call[c].pc \in StepsOf(call[c].kind)
  BY DEF CallsTyped
<1>3. /\ call[c].pc = "analyze" => call[c].kind \in {"send", "job"}
      /\ call[c].pc = "count" => call[c].kind = "report"
      /\ call[c].pc = "queue" => call[c].kind \in {"send", "job", "report"}
  BY <1>1, <1>2 DEF StepsOf, Message!Kinds
<1>4. QED
  BY <1>3 DEF CallsTyped

LEMMA StartTyped ==
    ASSUME MessagesTyped, NEW c \in Calls, NEW kind \in Message!Kinds, NEW m \in MessageIds,
           NEW u \in Message!Readers(kind),
           Message!Start(c, kind, u, m)
    PROVE  MessagesTyped'
<1> DEFINE new == [pc |-> Message!FirstStep[kind], kind |-> kind, user |-> u,
                   message |-> m, flag |-> FALSE, case |-> None]
<1>1. Message!FirstStep[kind] \in StepsOf(kind) \ {"new", "done", "write"}
  BY DEF Message!FirstStep, Message!Kinds, StepsOf
<1>2. Message!FirstStep[kind] \in {"analyze", "find", "insert"}
  BY DEF Message!FirstStep, Message!Kinds
<1>3. /\ new \in Message!Call /\ new.pc = Message!FirstStep[kind] /\ new.kind = kind
      /\ new.message = m /\ new.user = u /\ (kind = "read" => u \in Users)
  BY <1>2 DEF Message!Call, Message!Readers
<1>4. call' = [call EXCEPT ![c] = new]
      /\ UNCHANGED <<messages, moderationQueue, reports, readReceipts, reads, flagged, unqueued>>
  BY DEF Message!Start, Message!tables, Message!history
<1>5. called' \in 0..MaxCalls
  BY BoundsAssumption, TypesOfParts DEF TypesInParts, Message!Start
<1>6. TablesTyped'
  BY <1>4, TypesOfParts, TablesStayTyped DEF TypesInParts
<1> HIDE DEF new
<1>7. call' \in [Calls -> Message!Call] /\ CallsTyped'
  BY <1>1, <1>3, <1>4, CallReplacedTyped, TypesOfParts DEF TypesInParts
<1>8. (flagged \subseteq MessageIds /\ unqueued \subseteq MessageIds)'
  BY <1>4, TypesOfParts DEF TypesInParts
<1>9. QED
  BY <1>5, <1>6, <1>7, <1>8, TypesOfParts DEF TypesInParts

LEMMA StepTyped ==
    ASSUME MessagesTyped, NEW c \in Calls, Message!Step(c)
    PROVE  MessagesTyped'
<1>t. /\ TablesTyped /\ call \in [Calls -> Message!Call] /\ CallsTyped
      /\ called \in 0..MaxCalls /\ flagged \subseteq MessageIds /\ unqueued \subseteq MessageIds
  BY TypesOfParts DEF TypesInParts
<1>r. Message!Unused("done") \in Message!Call /\ Message!Unused("done").pc = "done"
  BY DEF Message!Call, Message!Unused, Message!Kinds
\* Steps that go on and write nothing.
<1>g. ASSUME NEW pc \in {"insert", "write", "count", "queue", "done"}, Message!Goto(c, pc),
             pc # "done" => /\ call[c].pc \notin {"new", "done"} /\ pc \in StepsOf(call[c].kind)
                            /\ pc = "write" => call[c].kind = "edit",
             UNCHANGED <<messages, moderationQueue, reports, readReceipts, reads, called,
                         flagged, unqueued>>
      PROVE  MessagesTyped'
  <2>1. call' \in [Calls -> Message!Call] /\ CallsTyped'
    BY <1>g, <1>t, CallStaysTyped
  <2>2. TablesTyped'
    BY <1>g, <1>t, TablesStayTyped
  <2>3. QED
    BY <1>g, <1>t, <2>1, <2>2, TypesOfParts DEF TypesInParts
\* Steps that are the last of a call, and write.
<1>d. ASSUME Message!Goto(c, "done"), TablesTyped', UNCHANGED <<called, flagged, unqueued>>
      PROVE  MessagesTyped'
  <2>1. call' \in [Calls -> Message!Call] /\ CallsTyped'
    BY <1>d, <1>t, CallStaysTyped
  <2>2. QED
    BY <1>d, <1>t, <2>1, TypesOfParts DEF TypesInParts
<1>1. ASSUME NEW flag \in BOOLEAN, Message!Analyze(c, flag)
      PROVE  MessagesTyped'
  <2> DEFINE next == IF call[c].kind = "send" THEN [call[c] EXCEPT !.pc = "insert", !.flag = flag]
                     ELSE IF flag THEN [call[c] EXCEPT !.pc = "queue", !.flag = flag]
                     ELSE Message!Unused("done")
  <2>1. call' = [call EXCEPT ![c] = next] /\ call[c].pc = "analyze"
    BY <1>1 DEF Message!Analyze
  <2>2. call[c].kind \in {"send", "job"} /\ call[c].message \in MessageIds
    BY <1>t, <2>1, KindOfStep
  <2>3. /\ next \in Message!Call
        /\ next.pc # "done" => /\ next.kind = call[c].kind /\ next.message = call[c].message
                               /\ next.pc = IF call[c].kind = "send" THEN "insert" ELSE "queue"
    <3>1. CASE call[c].kind = "send" \/ flag
      BY <1>t, <3>1 DEF Message!Call
    <3>2. CASE ~(call[c].kind = "send" \/ flag)
      BY <1>r, <3>2
    <3>3. QED
      BY <3>1, <3>2
  <2> HIDE DEF next
  <2>4. next.pc # "done" => next.pc \in StepsOf(next.kind)
    BY <2>2, <2>3 DEF StepsOf
  <2>5. call' \in [Calls -> Message!Call] /\ CallsTyped'
    BY <1>t, <2>1, <2>2, <2>3, <2>4, CallReplacedTyped
  <2>6. /\ flagged' \subseteq MessageIds
        /\ UNCHANGED <<messages, moderationQueue, reports, readReceipts, reads, called, unqueued>>
    BY <1>1, <1>t, <2>2 DEF Message!Analyze, Message!tables
  <2>7. TablesTyped'
    BY <1>t, <2>6, TablesStayTyped
  <2>8. QED
    BY <1>t, <2>5, <2>6, <2>7, TypesOfParts DEF TypesInParts
<1>2. CASE Message!InsertMessage(c)
  <2> DEFINE m == call[c].message
  <2>1. /\ call[c].kind = "send" /\ call[c].pc = "insert"
        /\ messages' = [messages EXCEPT ![m] = "stored"]
        /\ Message!Goto(c, IF call[c].flag THEN "queue" ELSE "done")
        /\ flagged' = IF call[c].flag THEN flagged \cup {m} ELSE flagged
        /\ UNCHANGED <<moderationQueue, reports, readReceipts, reads, called, unqueued>>
    BY <1>2 DEF Message!InsertMessage, Message!At
  <2>2. m \in MessageIds
    BY <1>t, <2>1 DEF CallsTyped
  <2>3. "queue" \in StepsOf(call[c].kind)
    BY <2>1 DEF StepsOf
  <2>4. call' \in [Calls -> Message!Call] /\ CallsTyped'
    <3>1. CASE call[c].flag
      BY <1>t, <2>1, <2>3, <3>1, CallStaysTyped
    <3>2. CASE ~call[c].flag
      BY <1>t, <2>1, <3>2, CallStaysTyped
    <3>3. QED
      BY <3>1, <3>2
  <2>5. TablesTyped'
    BY <1>t, <2>1, <2>2 DEF TablesTyped, Message!Stored
  <2>6. QED
    BY <1>t, <2>1, <2>2, <2>4, <2>5, TypesOfParts DEF TypesInParts
<1>3. CASE Message!Queue(c)
  <2> DEFINE item == [by |-> c, message |-> call[c].message, status |-> "pending"]
  <2>1. /\ Message!Stored(call[c].message) /\ moderationQueue' = moderationQueue \cup {item}
        /\ Message!Goto(c, "done")
        /\ UNCHANGED <<messages, reports, readReceipts, reads, called, flagged, unqueued>>
    BY <1>3 DEF Message!Queue, Message!history
  <2>2. item \in Message!Item /\ item.message = call[c].message
    BY <2>1 DEF Message!Item, Message!Stored
  <2> HIDE DEF item
  <2>3. TablesTyped'
    BY <1>t, <2>1, <2>2 DEF TablesTyped, Message!Stored
  <2>4. QED
    BY <1>d, <2>1, <2>3
<1>4. CASE Message!EditFind(c)
  <2>1. /\ call[c].kind = "edit" /\ call[c].pc = "find"
        /\ Message!Goto(c, "write") \/ Message!Goto(c, "done")
        /\ UNCHANGED <<messages, moderationQueue, reports, readReceipts, reads, called,
                       flagged, unqueued>>
    BY <1>4 DEF Message!EditFind, Message!At, Message!tables, Message!history
  <2>2. "write" \in StepsOf(call[c].kind)
    BY <2>1 DEF StepsOf
  <2>3. QED
    BY <1>g, <2>1, <2>2
<1>5. CASE Message!EditWrite(c)
  <2>1. /\ call[c].kind = "edit" /\ call[c].pc = "write"
        /\ messages' = [messages EXCEPT ![call[c].message] = "stored"]
        /\ Message!Goto(c, "done")
        /\ UNCHANGED <<moderationQueue, reports, readReceipts, reads, called, flagged, unqueued>>
    BY <1>5 DEF Message!EditWrite, Message!At, Message!history
  <2>2. call[c].message \in MessageIds
    BY <1>t, <2>1 DEF CallsTyped
  <2>3. TablesTyped'
    BY <1>t, <2>1, <2>2 DEF TablesTyped, Message!Stored
  <2>4. QED
    BY <1>d, <2>1, <2>3
<1>6. CASE Message!ReadFind(c)
  <2>1. /\ call[c].kind = "read" /\ call[c].pc = "find"
        /\ Message!Goto(c, "insert") \/ Message!Goto(c, "done")
        /\ UNCHANGED <<messages, moderationQueue, reports, readReceipts, reads, called,
                       flagged, unqueued>>
    BY <1>6 DEF Message!ReadFind, Message!At, Message!tables, Message!history
  <2>2. "insert" \in StepsOf(call[c].kind)
    BY <2>1 DEF StepsOf
  <2>3. QED
    BY <1>g, <2>1, <2>2
<1>7. CASE Message!ReadInsert(c)
  <2> DEFINE receipt == [by |-> c, reader |-> call[c].user, message |-> call[c].message]
  <2>1. /\ call[c].kind = "read" /\ call[c].pc = "insert"
        /\ Message!Stored(call[c].message) /\ reads' = reads \cup {receipt}
        /\ Message!Goto(c, "done")
        /\ UNCHANGED <<messages, moderationQueue, reports, readReceipts, called, flagged, unqueued>>
    BY <1>7 DEF Message!ReadInsert, Message!At, Message!history
  <2>2. call[c].user \in Users /\ call[c].message \in MessageIds
    BY <1>t, <2>1 DEF CallsTyped
  <2>3. receipt \in Message!Receipt /\ receipt.message = call[c].message
    BY <2>2 DEF Message!Receipt
  <2> HIDE DEF receipt
  <2>4. TablesTyped'
    BY <1>t, <2>1, <2>3 DEF TablesTyped, Message!Stored
  <2>5. QED
    BY <1>d, <2>1, <2>4
<1>8. CASE Message!ReceiptFind(c)
  <2> DEFINE found == IF Message!Stored(call[c].message) THEN call[c].message ELSE None
             next == [call[c] EXCEPT !.pc = "check", !.message = found]
  <2>1. /\ call[c].kind = "receipt" /\ call[c].pc = "find"
        /\ call' = [call EXCEPT ![c].pc = "check",
                                ![c].message = IF Message!Stored(@) THEN @ ELSE None]
        /\ UNCHANGED <<messages, moderationQueue, reports, readReceipts, reads, called,
                       flagged, unqueued>>
    BY <1>8 DEF Message!ReceiptFind, Message!At, Message!tables, Message!history
  <2>2. found \in MessageIds \cup {None}
    BY DEF Message!Stored
  <2>3. call' = [call EXCEPT ![c] = next]
    BY <1>t, <2>1 DEF Message!Call
  <2> HIDE DEF found
  <2>4. next \in Message!Call /\ next.pc = "check" /\ next.kind = "receipt"
    BY <1>t, <2>1, <2>2 DEF Message!Call
  <2> HIDE DEF next
  <2>5. next.pc \in StepsOf(next.kind)
    BY <2>4 DEF StepsOf
  <2>6. call' \in [Calls -> Message!Call] /\ CallsTyped'
    BY <1>t, <2>3, <2>4, <2>5, CallReplacedTyped
  <2>7. TablesTyped'
    BY <1>t, <2>1, TablesStayTyped
  <2>8. QED
    BY <1>t, <2>1, <2>6, <2>7, TypesOfParts DEF TypesInParts
<1>9. CASE Message!ReceiptCheck(c)
  <2>1. /\ call[c].kind = "receipt" /\ call[c].pc = "check"
        /\ Message!Goto(c, "insert") \/ Message!Goto(c, "done")
        /\ UNCHANGED <<messages, moderationQueue, reports, readReceipts, reads, called,
                       flagged, unqueued>>
    BY <1>9 DEF Message!ReceiptCheck, Message!At, Message!tables, Message!history
  <2>2. "insert" \in StepsOf(call[c].kind)
    BY <2>1 DEF StepsOf
  <2>3. QED
    BY <1>g, <2>1, <2>2
<1>10. CASE Message!ReceiptInsert(c)
  <2> DEFINE receipt == [by |-> c, reader |-> call[c].user, message |-> call[c].message]
  <2>1. /\ call[c].kind = "receipt" /\ call[c].pc = "insert"
        /\ call[c].message = None \/ Message!Stored(call[c].message)
        /\ readReceipts' = readReceipts \cup {receipt} /\ Message!Goto(c, "done")
        /\ UNCHANGED <<messages, moderationQueue, reports, reads, called, flagged, unqueued>>
    BY <1>10 DEF Message!ReceiptInsert, Message!At, Message!history
  <2>2. call[c].user \in Users \cup {None} /\ call[c].message \in MessageIds \cup {None}
    BY <1>t, <2>1 DEF Message!Call, Message!Stored
  <2>3. receipt \in Message!Receipt /\ receipt.message = call[c].message
    BY <2>2 DEF Message!Receipt
  <2> HIDE DEF receipt
  <2>4. TablesTyped'
    BY <1>t, <2>1, <2>3 DEF TablesTyped, Message!Stored
  <2>5. QED
    BY <1>d, <2>1, <2>4
<1>11. CASE Message!Report(c)
  <2> DEFINE row == [by |-> c, message |-> call[c].message, status |-> "pending"]
  <2>1. /\ call[c].kind = "report" /\ call[c].pc = "insert"
        /\ Message!Stored(call[c].message) /\ reports' = reports \cup {row}
        /\ Message!Goto(c, "count")
        /\ UNCHANGED <<messages, moderationQueue, readReceipts, reads, called, flagged, unqueued>>
    BY <1>11 DEF Message!Report, Message!At, Message!history
  <2>2. row \in Message!ContentReport /\ row.message = call[c].message
    BY <2>1 DEF Message!ContentReport, Message!Stored
  <2>3. "count" \in StepsOf(call[c].kind)
    BY <2>1 DEF StepsOf
  <2> HIDE DEF row
  <2>4. TablesTyped'
    BY <1>t, <2>1, <2>2 DEF TablesTyped, Message!Stored
  <2>5. call' \in [Calls -> Message!Call] /\ CallsTyped'
    BY <1>t, <2>1, <2>3, CallStaysTyped
  <2>6. QED
    BY <1>t, <2>1, <2>4, <2>5, TypesOfParts DEF TypesInParts
<1>12. CASE Message!Count(c)
  <2>1. /\ call[c].pc = "count"
        /\ Message!Goto(c, "queue") \/ Message!Goto(c, "done")
        /\ UNCHANGED <<messages, moderationQueue, reports, readReceipts, reads, called,
                       flagged, unqueued>>
    BY <1>12 DEF Message!Count, Message!tables, Message!history
  <2>2. call[c].kind = "report"
    BY <1>t, <2>1, KindOfStep
  <2>3. "queue" \in StepsOf(call[c].kind)
    BY <2>2 DEF StepsOf
  <2>4. QED
    BY <1>g, <2>1, <2>3
<1>13. ASSUME NEW r \in moderationQueue \cup reports, Message!ReviewFind(c, r)
       PROVE  MessagesTyped'
  <2> DEFINE next == [call[c] EXCEPT !.pc = "write", !.case = r.by]
  <2>1. /\ call[c].kind \in {"reviewItem", "reviewReport"} /\ call[c].pc = "find"
        /\ call' = [call EXCEPT ![c].pc = "write", ![c].case = r.by]
        /\ UNCHANGED <<messages, moderationQueue, reports, readReceipts, reads, called,
                       flagged, unqueued>>
    BY <1>13 DEF Message!ReviewFind, Message!At, Message!tables, Message!history
  <2>2. r.by \in Calls
    BY <1>t, <1>13 DEF TablesTyped, Message!Item, Message!ContentReport
  <2>3. call[c].message \in MessageIds
    BY <1>t, <2>1 DEF CallsTyped
  <2>4. call' = [call EXCEPT ![c] = next]
    BY <1>t, <2>1 DEF Message!Call
  <2>5. /\ next \in Message!Call /\ next.pc = "write" /\ next.kind = call[c].kind
        /\ next.case \in Calls /\ next.message = call[c].message
    BY <1>t, <2>2, ZenonT(60) DEF Message!Call
  <2> HIDE DEF next
  <2>6. next.pc \in StepsOf(next.kind)
    BY <2>1, <2>5 DEF StepsOf
  <2>7. call' \in [Calls -> Message!Call] /\ CallsTyped'
    BY <1>t, <2>1, <2>3, <2>4, <2>5, <2>6, CallReplacedTyped
  <2>8. TablesTyped'
    BY <1>t, <2>1, TablesStayTyped
  <2>9. QED
    BY <1>t, <2>1, <2>7, <2>8, TypesOfParts DEF TypesInParts
<1>14. CASE Message!ReviewContent(c)
  <2>1. /\ moderationQueue' = Message!Closed(moderationQueue, call[c].case)
        /\ Message!Goto(c, "done")
        /\ UNCHANGED <<messages, reports, readReceipts, reads, called, flagged, unqueued>>
    BY <1>14 DEF Message!ReviewContent, Message!history
  <2>2. \A r \in moderationQueue' : r \in Message!Item
                                    /\ \E s \in moderationQueue : s.message = r.message
    BY <1>t, <2>1 DEF Message!Closed, TablesTyped, Message!Item
  <2>3. TablesTyped'
    BY <1>t, <2>1, <2>2 DEF TablesTyped, Message!Stored
  <2>4. QED
    BY <1>d, <2>1, <2>3
<1>15. CASE Message!ReviewReport(c)
  <2>1. /\ reports' = Message!Closed(reports, call[c].case)
        /\ Message!Goto(c, "done")
        /\ UNCHANGED <<messages, moderationQueue, readReceipts, reads, called, flagged, unqueued>>
    BY <1>15 DEF Message!ReviewReport, Message!history
  <2>2. \A r \in reports' : r \in Message!ContentReport
                            /\ \E s \in reports : s.message = r.message
    BY <1>t, <2>1 DEF Message!Closed, TablesTyped, Message!ContentReport
  <2>3. TablesTyped'
    BY <1>t, <2>1, <2>2 DEF TablesTyped, Message!Stored
  <2>4. QED
    BY <1>d, <2>1, <2>3
<1>16. CASE Message!Fail(c)
  <2>1. /\ Message!Goto(c, "done")
        /\ UNCHANGED <<messages, moderationQueue, reports, readReceipts, reads, called, flagged>>
        /\ unqueued' = IF call[c].pc \in {"count", "queue"} THEN unqueued \cup {call[c].message}
                       ELSE unqueued
    BY <1>16 DEF Message!Fail, Message!tables
  <2>2. unqueued' \subseteq MessageIds
    BY <1>t, <2>1, KindOfStep
  <2>3. TablesTyped'
    BY <1>t, <2>1, TablesStayTyped
  <2>4. call' \in [Calls -> Message!Call] /\ CallsTyped'
    BY <1>t, <2>1, CallStaysTyped
  <2>5. QED
    BY <1>t, <2>1, <2>2, <2>3, <2>4, TypesOfParts DEF TypesInParts
<1>17. QED
  BY <1>1, <1>2, <1>3, <1>4, <1>5, <1>6, <1>7, <1>8, <1>9, <1>10, <1>11, <1>12, <1>13, <1>14,
     <1>15, <1>16 DEF Message!Step

LEMMA MessagesTypedNext ==
    ASSUME MessagesTyped, [Message!Next]_messageVars
    PROVE  MessagesTyped'
<1>1. ASSUME NEW m \in MessageIds, Message!Remove(m)
      PROVE  MessagesTyped'
  <2>1. /\ \A r \in moderationQueue \cup reports \cup reads : r.message # m
        /\ messages' = [messages EXCEPT ![m] = "removed"]
        /\ readReceipts' = {r \in readReceipts : r.message # m}
        /\ UNCHANGED <<moderationQueue, reports, reads, call, called, flagged, unqueued>>
    BY <1>1 DEF Message!Remove, Message!history
  <2>2. TablesTyped'
    BY <2>1, TypesOfParts DEF TypesInParts, TablesTyped, Message!Stored
  <2>3. CallsTyped'
    BY <2>1, TypesOfParts DEF TypesInParts, CallsTyped
  <2>4. QED
    BY <2>1, <2>2, <2>3, TypesOfParts DEF TypesInParts
<1>2. CASE UNCHANGED messageVars
  <2>1. TablesTyped' /\ CallsTyped'
    BY <1>2, TypesOfParts, TablesStayTyped DEF TypesInParts, messageVars, CallsTyped
  <2>2. QED
    BY <1>2, <2>1, TypesOfParts DEF TypesInParts, messageVars
<1>3. QED
  BY <1>1, <1>2, StartTyped, StepTyped DEF Message!Next

(***************************************************************************)
(* What a step of a call does to the messages that are on their way into   *)
(* the moderation queue.                                                   *)
(***************************************************************************)
StepDoes(c) ==
    /\ \A d \in Calls \ {c} : call'[d] = call[d]
    /\ \A m : Queued(m) => Queued(m)'
    /\ unqueued \subseteq unqueued'
    /\ reports' = reports \/ Message!Report(c) \/ Message!ReviewReport(c)
    /\ \A m \in flagged' \ flagged : call'[c].pc = "queue" /\ call'[c].message = m
    /\ \A m : call[c].pc = "queue" /\ call[c].message = m => Queued(m)' \/ m \in unqueued'
    /\ call[c].pc = "count" => Message!Count(c) \/ call[c].message \in unqueued'

LEMMA StepsDo ==
    ASSUME MessagesTyped, NEW c \in Calls, Message!Step(c)
    PROVE  StepDoes(c)
<1>t. call \in [Calls -> Message!Call] /\ CallsTyped
  BY TypesOfParts DEF TypesInParts
<1>n. ASSUME moderationQueue' = moderationQueue PROVE \A m : Queued(m) => Queued(m)'
  BY <1>n DEF Queued
\* Steps that queue nothing, and count nothing.
<1>g. ASSUME NEW pc \in {"insert", "write", "count", "done"}, Message!Goto(c, pc),
             call[c].pc \notin {"count", "queue"},
             reports' = reports \/ Message!Report(c) \/ Message!ReviewReport(c),
             UNCHANGED <<moderationQueue, flagged, unqueued>>
      PROVE  StepDoes(c)
  <2>1. /\ \A d \in Calls \ {c} : call'[d] = call[d]
        /\ call'[c].pc = pc /\ (pc # "done" => call'[c].kind = call[c].kind)
    BY <1>g, <1>t, CallGoes
  <2>2. \A m : Queued(m) => Queued(m)'
    BY <1>g, <1>n
  <2>3. QED
    BY <1>g, <2>1, <2>2 DEF StepDoes
<1>1. ASSUME NEW flag \in BOOLEAN, Message!Analyze(c, flag)
      PROVE  StepDoes(c)
  <2>1. /\ call[c].pc = "analyze"
        /\ flagged' = IF call[c].kind = "job" /\ flag THEN flagged \cup {call[c].message} ELSE flagged
        /\ UNCHANGED <<moderationQueue, reports, unqueued>>
    BY <1>1 DEF Message!Analyze, Message!tables
  <2>2. call[c].kind \in {"send", "job"}
    BY <1>t, <2>1, KindOfStep
  <2>3. \A d \in Calls \ {c} : call'[d] = call[d]
    BY <1>1 DEF Message!Analyze
  <2>4. call[c].kind = "job" /\ flag => call'[c].pc = "queue" /\ call'[c].message = call[c].message
    BY <1>1, <1>t DEF Message!Analyze, Message!Call
  <2>5. \A m : Queued(m) => Queued(m)'
    BY <2>1, <1>n
  <2>6. QED
    BY <2>1, <2>3, <2>4, <2>5 DEF StepDoes
<1>2. CASE Message!InsertMessage(c)
  <2>1. /\ call[c].kind = "send" /\ call[c].pc = "insert"
        /\ Message!Goto(c, IF call[c].flag THEN "queue" ELSE "done")
        /\ flagged' = IF call[c].flag THEN flagged \cup {call[c].message} ELSE flagged
        /\ UNCHANGED <<moderationQueue, reports, unqueued>>
    BY <1>2 DEF Message!InsertMessage, Message!At
  <2>2. CASE call[c].flag
    <3>1. Message!Goto(c, "queue")
      BY <2>1, <2>2
    <3>2. /\ \A d \in Calls \ {c} : call'[d] = call[d]
          /\ call'[c].pc = "queue" /\ call'[c].message = call[c].message
      BY <1>t, <3>1, CallGoes
    <3>3. \A m : Queued(m) => Queued(m)'
      BY <2>1, <1>n
    <3>4. QED
      BY <2>1, <2>2, <3>2, <3>3 DEF StepDoes
  <2>3. CASE ~call[c].flag
    BY <2>1, <2>3, <1>g
  <2>4. QED
    BY <2>2, <2>3
<1>3. CASE Message!Queue(c)
  <2> DEFINE item == [by |-> c, message |-> call[c].message, status |-> "pending"]
  <2>1. /\ call[c].pc = "queue" /\ moderationQueue' = moderationQueue \cup {item}
        /\ Message!Goto(c, "done")
        /\ UNCHANGED <<reports, flagged, unqueued>>
    BY <1>3 DEF Message!Queue, Message!history
  <2>2. (\A d \in Calls \ {c} : call'[d] = call[d]) /\ call'[c].pc = "done"
    BY <1>t, <2>1, CallGoes
  <2>3. item.message = call[c].message
    OBVIOUS
  <2> HIDE DEF item
  <2>4. \A m : Queued(m) \/ call[c].message = m => Queued(m)'
    BY <2>1, <2>3 DEF Queued
  <2>5. QED
    BY <2>1, <2>2, <2>4 DEF StepDoes
<1>4. CASE Message!EditFind(c) \/ Message!EditWrite(c) \/ Message!ReadFind(c)
           \/ Message!ReadInsert(c)
  <2>1. \E pc \in {"insert", "write", "done"} :
           Message!Goto(c, pc) /\ (pc = "insert" => call[c].kind = "read")
    BY <1>4 DEF Message!EditFind, Message!EditWrite, Message!ReadFind, Message!ReadInsert, Message!At
  <2>2. /\ call[c].pc \notin {"count", "queue"}
        /\ UNCHANGED <<moderationQueue, reports, flagged, unqueued>>
    BY <1>4 DEF Message!EditFind, Message!EditWrite, Message!ReadFind, Message!ReadInsert,
                Message!At, Message!tables, Message!history
  <2>3. QED
    BY <1>g, <2>1, <2>2
<1>5. ASSUME Message!ReceiptFind(c) \/ \E r \in moderationQueue \cup reports : Message!ReviewFind(c, r)
      PROVE  StepDoes(c)
  <2>1. /\ \A d \in Calls \ {c} : call'[d] = call[d]
        /\ call'[c].pc \in {"check", "write"}
    BY <1>5, <1>t DEF Message!ReceiptFind, Message!ReviewFind, Message!Call
  <2>2. /\ call[c].pc = "find"
        /\ UNCHANGED <<moderationQueue, reports, flagged, unqueued>>
    BY <1>5 DEF Message!ReceiptFind, Message!ReviewFind, Message!At, Message!tables, Message!history
  <2>3. \A m : Queued(m) => Queued(m)'
    BY <2>2, <1>n
  <2>4. QED
    BY <2>1, <2>2, <2>3 DEF StepDoes
<1>6. CASE Message!ReceiptCheck(c) \/ Message!ReceiptInsert(c)
  <2>1. /\ call[c].pc \in {"check", "insert"}
        /\ UNCHANGED <<moderationQueue, reports, flagged, unqueued>>
        /\ \E pc \in {"insert", "done"} : Message!Goto(c, pc)
    BY <1>6 DEF Message!ReceiptCheck, Message!ReceiptInsert, Message!At, Message!tables,
                Message!history
  <2>2. QED
    BY <1>g, <2>1
<1>7. CASE Message!Report(c) \/ Message!ReviewReport(c)
  <2>1. /\ Message!Goto(c, "count") \/ Message!Goto(c, "done")
        /\ call[c].pc \in {"insert", "write"}
        /\ UNCHANGED <<moderationQueue, flagged, unqueued>>
    BY <1>7 DEF Message!Report, Message!ReviewReport, Message!At, Message!history
  <2>2. QED
    BY <1>7, <1>g, <2>1
<1>8. CASE Message!Count(c)
  <2>1. /\ call[c].pc = "count"
        /\ \E pc \in {"queue", "done"} : Message!Goto(c, pc)
        /\ UNCHANGED <<moderationQueue, reports, flagged, unqueued>>
    BY <1>8 DEF Message!Count, Message!tables, Message!history
  <2>2. (\A d \in Calls \ {c} : call'[d] = call[d]) /\ call'[c].pc \in {"queue", "done"}
    BY <1>t, <2>1, CallGoes
  <2>3. \A m : Queued(m) => Queued(m)'
    BY <2>1, <1>n
  <2>4. QED
    BY <1>8, <2>1, <2>2, <2>3 DEF StepDoes
<1>9. CASE Message!ReviewContent(c)
  <2>1. /\ call[c].pc = "write" /\ moderationQueue' = Message!Closed(moderationQueue, call[c].case)
        /\ Message!Goto(c, "done")
        /\ UNCHANGED <<reports, flagged, unqueued>>
    BY <1>9 DEF Message!ReviewContent, Message!At, Message!history
  <2>2. (\A d \in Calls \ {c} : call'[d] = call[d]) /\ call'[c].pc = "done"
    BY <1>t, <2>1, CallGoes
  <2>3. ASSUME NEW item \in moderationQueue
        PROVE  \E closed \in moderationQueue' : closed.message = item.message
    <3>1. item \in Message!Item
      BY TypesOfParts DEF TypesInParts, TablesTyped
    <3>2. [item EXCEPT !.status = "closed"].message = item.message
      BY <3>1 DEF Message!Item
    <3>3. \/ item \in moderationQueue'
          \/ [item EXCEPT !.status = "closed"] \in moderationQueue'
      BY <2>1 DEF Message!Closed
    <3>4. QED
      BY <3>2, <3>3
  <2>4. \A m : Queued(m) => Queued(m)'
    BY <2>3 DEF Queued
  <2>5. QED
    BY <2>1, <2>2, <2>4 DEF StepDoes
<1>10. CASE Message!Fail(c)
  <2>1. /\ Message!Goto(c, "done")
        /\ UNCHANGED <<moderationQueue, reports, flagged>>
        /\ unqueued' = IF call[c].pc \in {"count", "queue"} THEN unqueued \cup {call[c].message}
                       ELSE unqueued
    BY <1>10 DEF Message!Fail, Message!tables
  <2>2. (\A d \in Calls \ {c} : call'[d] = call[d]) /\ call'[c].pc = "done"
    BY <1>t, <2>1, CallGoes
  <2>3. \A m : Queued(m) => Queued(m)'
    BY <2>1, <1>n
  <2>4. QED
    BY <2>1, <2>2, <2>3 DEF StepDoes
<1>11. QED
  BY <1>1, <1>2, <1>3, <1>4, <1>5, <1>6, <1>7, <1>8, <1>9, <1>10 DEF Message!Step

LEMMA StartDoes ==
    ASSUME NEW c \in Calls, NEW kind \in Message!Kinds, NEW m \in MessageIds, NEW u,
           MessagesTyped, Message!Start(c, kind, u, m)
    PROVE  StepDoes(c)
<1>1. /\ \A d \in Calls \ {c} : call'[d] = call[d]
      /\ call[c].pc = "new"
      /\ UNCHANGED <<moderationQueue, reports, flagged, unqueued>>
  BY DEF Message!Start, Message!tables, Message!history
<1>2. \A n : Queued(n) => Queued(n)'
  BY <1>1 DEF Queued
<1>3. QED
  BY <1>1, <1>2 DEF StepDoes

(***************************************************************************)
(* The moderation queue.                                                   *)
(***************************************************************************)
LEMMA QueuedInit == Message!Init => FlaggedQueued /\ ReportedQueued
<1> SUFFICES ASSUME Message!Init PROVE FlaggedQueued /\ ReportedQueued
  OBVIOUS
<1>1. flagged = {} /\ \A m \in MessageIds : Message!Pending(m) = {}
  BY DEF Message!Init, Message!Pending
<1>2. IsFiniteSet({}) /\ Cardinality({}) = 0
  BY FS_EmptySet
<1>3. QED
  BY <1>1, <1>2, BoundsAssumption DEF FlaggedQueued, ReportedQueued

LEMMA FlaggedQueuedStep ==
    ASSUME FlaggedQueued, NEW c \in Calls, StepDoes(c)
    PROVE  FlaggedQueued'
<1> SUFFICES ASSUME NEW m \in flagged'
             PROVE  \/ Queued(m)' \/ m \in unqueued'
                    \/ \E d \in Calls : call'[d].pc = "queue" /\ call'[d].message = m
  BY DEF FlaggedQueued
<1>1. CASE m \notin flagged
  BY <1>1 DEF StepDoes
<1>2. CASE m \in flagged
  <2>1. CASE Queued(m) \/ m \in unqueued
    BY <2>1 DEF StepDoes
  <2>2. ASSUME NEW d \in Calls, call[d].pc = "queue", call[d].message = m
        PROVE  \/ Queued(m)' \/ m \in unqueued'
               \/ \E e \in Calls : call'[e].pc = "queue" /\ call'[e].message = m
    BY <2>2 DEF StepDoes
  <2>3. QED
    BY <1>2, <2>1, <2>2 DEF FlaggedQueued
<1>3. QED
  BY <1>1, <1>2

(* A review leaves no more pending reports than there were.                        *)
LEMMA ClosedPending ==
    ASSUME MessagesTyped, NEW c \in Calls, NEW m \in MessageIds, Message!ReviewReport(c)
    PROVE  Message!Pending(m)' \subseteq Message!Pending(m)
<1>1. reports \subseteq Message!ContentReport
  BY TypesOfParts DEF TypesInParts, TablesTyped
<1>2. \A r \in Message!ContentReport : [r EXCEPT !.status = "closed"].status = "closed"
  BY DEF Message!ContentReport
<1>3. \A r \in reports' : r.status = "pending" => r \in reports
  BY <1>1, <1>2 DEF Message!ReviewReport, Message!Closed
<1>4. QED
  BY <1>3 DEF Message!Pending

LEMMA ReportedQueuedStep ==
    ASSUME MessagesTyped, ReportedQueued, NEW c \in Calls, StepDoes(c)
    PROVE  ReportedQueued'
<1>t. call \in [Calls -> Message!Call] /\ CallsTyped
  BY TypesOfParts DEF TypesInParts
<1>n. Threshold \in Nat
  BY BoundsAssumption
<1> SUFFICES ASSUME NEW m \in MessageIds
             PROVE  /\ IsFiniteSet(Message!Pending(m)')
                    /\ Cardinality(Message!Pending(m)') >= Threshold =>
                          \/ Queued(m)' \/ m \in unqueued'
                          \/ \E d \in Calls : call'[d].pc \in {"count", "queue"} /\ call'[d].message = m
  BY DEF ReportedQueued
<1> DEFINE P == Message!Pending(m)
<1>f. IsFiniteSet(P) /\ Cardinality(P) \in Nat
  BY FS_CardinalityType DEF ReportedQueued
\* When there are no more pending reports than before.
<1>s. ASSUME P' \subseteq P
      PROVE  /\ IsFiniteSet(P')
             /\ Cardinality(P') >= Threshold =>
                   \/ Queued(m)' \/ m \in unqueued'
                   \/ \E d \in Calls : call'[d].pc \in {"count", "queue"} /\ call'[d].message = m
  <2>1. IsFiniteSet(P') /\ Cardinality(P') \in Nat /\ Cardinality(P') <= Cardinality(P)
    BY <1>f, <1>s, FS_Subset, FS_CardinalityType
  <2>2. ASSUME Cardinality(P') >= Threshold
        PROVE  \/ Queued(m)' \/ m \in unqueued'
               \/ \E d \in Calls : call'[d].pc \in {"count", "queue"} /\ call'[d].message = m
    <3>1. Cardinality(P) >= Threshold
      BY <1>f, <1>n, <2>1, <2>2
    <3>2. CASE Queued(m) \/ m \in unqueued
      BY <3>2 DEF StepDoes
    <3>3. ASSUME NEW d \in Calls, call[d].pc \in {"count", "queue"}, call[d].message = m
          PROVE  \/ Queued(m)' \/ m \in unqueued'
                 \/ \E e \in Calls : call'[e].pc \in {"count", "queue"} /\ call'[e].message = m
      <4>1. CASE d # c
        BY <3>3, <4>1 DEF StepDoes
      <4>2. CASE d = c /\ call[c].pc = "queue"
        BY <3>3, <4>2 DEF StepDoes
      <4>3. CASE d = c /\ call[c].pc = "count"
        <5>1. CASE Message!Count(c)
          <6>1. Message!Cardinality(Message!Pending(call[c].message)) >= Threshold
            BY <3>1, <3>3, <4>3, SameCardinality
          <6>2. Message!Goto(c, "queue")
            BY <5>1, <6>1 DEF Message!Count
          <6>3. call'[c].pc = "queue" /\ call'[c].message = m
            BY <1>t, <3>3, <4>3, <6>2, CallGoes
          <6>4. QED
            BY <6>3
        <5>2. CASE m \in unqueued'
          BY <5>2
        <5>3. QED
          BY <3>3, <4>3, <5>1, <5>2 DEF StepDoes
      <4>4. QED
        BY <3>3, <4>1, <4>2, <4>3
    <3>4. QED
      BY <3>1, <3>2, <3>3 DEF ReportedQueued
  <2>3. QED
    BY <2>1, <2>2
<1>1. CASE reports' = reports
  <2>1. P' \subseteq P
    BY <1>1 DEF Message!Pending
  <2>2. QED
    BY <2>1, <1>s
<1>2. CASE Message!ReviewReport(c)
  BY <1>2, <1>s, ClosedPending
<1>3. CASE Message!Report(c)
  <2> DEFINE row == [by |-> c, message |-> call[c].message, status |-> "pending"]
  <2>1. reports' = reports \cup {row} /\ Message!Goto(c, "count")
    BY <1>3 DEF Message!Report
  <2>2. row.message = call[c].message
    OBVIOUS
  <2> HIDE DEF row
  <2>3. CASE call[c].message = m
    <3>1. call'[c].pc = "count" /\ call'[c].message = m
      BY <1>t, <2>1, <2>3, CallGoes
    <3>2. P' \subseteq P \cup {row}
      BY <2>1 DEF Message!Pending
    <3>3. IsFiniteSet(P \cup {row})
      BY <1>f, FS_AddElement
    <3>4. IsFiniteSet(P')
      BY <3>2, <3>3, FS_Subset
    <3>5. QED
      BY <3>1, <3>4
  <2>4. CASE call[c].message # m
    <3>1. P' \subseteq P
      BY <2>1, <2>2, <2>4 DEF Message!Pending
    <3>2. QED
      BY <3>1, <1>s
  <2>5. QED
    BY <2>3, <2>4
<1>4. QED
  BY <1>1, <1>2, <1>3 DEF StepDoes

LEMMA QueuedNext ==
    ASSUME MessagesTyped, FlaggedQueued, ReportedQueued, [Message!Next]_messageVars
    PROVE  FlaggedQueued' /\ ReportedQueued'
<1>1. ASSUME UNCHANGED <<moderationQueue, reports, call, flagged, unqueued>>
      PROVE  FlaggedQueued' /\ ReportedQueued'
  <2>1. \A m : Queued(m)' <=> Queued(m)
    BY <1>1 DEF Queued
  <2>2. \A m : Message!Pending(m)' = Message!Pending(m)
    BY <1>1 DEF Message!Pending
  <2>3. FlaggedQueued'
    BY <1>1, <2>1 DEF FlaggedQueued
  <2>4. ReportedQueued'
    BY <1>1, <2>1, <2>2 DEF ReportedQueued
  <2>5. QED
    BY <2>3, <2>4
<1>2. ASSUME NEW m \in MessageIds, Message!Remove(m)
      PROVE  FlaggedQueued' /\ ReportedQueued'
  BY <1>1, <1>2 DEF Message!Remove, Message!history
<1>3. CASE UNCHANGED messageVars
  BY <1>1, <1>3 DEF messageVars
<1>4. QED
  BY <1>2, <1>3, StepsDo, StartDoes, FlaggedQueuedStep, ReportedQueuedStep DEF Message!Next

(***************************************************************************)
(* Both parts together.                                                    *)
(***************************************************************************)
LEMMA PartsNext ==
    ASSUME [Next]_vars
    PROVE  [Conversation!Next]_conversationVars /\ [Message!Next]_messageVars
BY DEF Next, vars, conversationVars, messageVars

LEMMA ConversationsInvariant == Spec => []ConversationsInv
<1>1. Init => ConversationsInv
  BY ConversationsTypedInit, SingleInit, GuardSoundInit DEF Init, ConversationsInv
<1>2. ConversationsInv /\ [Next]_vars => ConversationsInv'
  BY PartsNext, ConversationsTypedNext, SingleNext, GuardSoundNext DEF ConversationsInv
<1>3. QED
  BY <1>1, <1>2, PTL DEF Spec

LEMMA MessagesInvariant == Spec => []MessagesInv
<1>1. Init => MessagesInv
  BY MessagesTypedInit, QueuedInit DEF Init, MessagesInv
<1>2. MessagesInv /\ [Next]_vars => MessagesInv'
  BY PartsNext, MessagesTypedNext, QueuedNext DEF MessagesInv
<1>3. QED
  BY <1>1, <1>2, PTL DEF Spec

\* Every variable of both parts keeps its type, there are no participants without a
\* conversation, and no row refers to a message that is not there.
THEOREM TypeCorrect == Spec => []TypeOK
<1>1. ConversationsInv /\ MessagesInv => TypeOK
  BY DEF ConversationsInv, ConversationsTyped, MessagesInv, MessagesTyped, TypeOK
<1>2. QED
  BY <1>1, ConversationsInvariant, MessagesInvariant, PTL

\* Looking for a row before inserting one keeps out a second row of a participant,
\* whatever runs in between, unless the requests that inserted them overlapped
\* (addParticipant).
THEOREM OneRowPerParticipantHolds == Spec => []OneRowPerParticipant
<1>1. ConversationsInv => Conversation!OneRowPerParticipant
  <2> SUFFICES ASSUME ConversationsInv, NEW u \in Users \ doubled
               PROVE  Cardinality(Conversation!RowsOf(u)) <= 1
    BY SameCardinality DEF Conversation!OneRowPerParticipant
  <2>1. CASE Conversation!RowsOf(u) = {}
    BY <2>1, FS_EmptySet
  <2>2. ASSUME NEW r \in Conversation!RowsOf(u)
        PROVE  Cardinality(Conversation!RowsOf(u)) <= 1
    <3>1. Conversation!RowsOf(u) = {r}
      BY <2>2 DEF ConversationsInv, Single, Conversation!RowsOf
    <3>2. QED
      BY <3>1, FS_Singleton
  <2>3. QED
    BY <2>1, <2>2
<1>2. QED
  BY <1>1, ConversationsInvariant, PTL DEF OneRowPerParticipant

\* A request adds or removes a participant only as the roles allow when it does so,
\* although the guard looked at them earlier, unless another request overtook it or one
\* of the two is in the table twice.
THEOREM ChangesAreAllowedHolds == Spec => ChangesAreAllowed
<1>1. ConversationsInv => Conversation!ChangeIsAllowed
  BY DEF ConversationsInv, GuardSound, Sound, Conversation!ChangeIsAllowed
<1>2. ConversationsInv => [Conversation!ChangeIsAllowed]_vars
  BY <1>1
<1>3. QED
  BY <1>2, ConversationsInvariant, PTL DEF ChangesAreAllowed

\* A message that an analysis flagged or that has Threshold pending reports is in the
\* moderation queue, or a call is about to put it there, or one failed at that.
THEOREM NothingEscapesTheQueueHolds == Spec => []NothingEscapesTheQueue
<1>1. MessagesInv => Message!NothingEscapesTheQueue
  BY SameCardinality
     DEF MessagesInv, FlaggedQueued, ReportedQueued, Queued, Message!NothingEscapesTheQueue
<1>2. QED
  BY <1>1, MessagesInvariant, PTL DEF NothingEscapesTheQueue
===============================================================================
