----------------------------- MODULE TokenTransfer -----------------------------
(***************************************************************************)
(* TokenService.transferToken and the token_transactions row it keeps,     *)
(* next to TransactionService, which creates, patches and removes rows,    *)
(* and TokenSyncService, which confirms the rows whose transfer it finds   *)
(* on the chain (how its runs go on is in TokenSync).                      *)
(*                                                                         *)
(* A transfer saves a PENDING row, announces it, sends the transfer to the *)
(* chain, and saves and announces the result; every one of these calls may *)
(* fail, the process may stop between any two, and patches, removals and   *)
(* syncs of the same row run in between.                                   *)
(*                                                                         *)
(* A call begins once its parameters are validated: the rejections before  *)
(* that change nothing.  Calls share no state but the row, so an id stands *)
(* for a call, its row and its transfer on the chain; a row that no call   *)
(* made has an id too, and its transfer was sent elsewhere.  Abstracted:   *)
(* users, wallets, amounts and token ids; txHash is known or not; the      *)
(* error columns are one.                                                  *)
(***************************************************************************)
EXTENDS Naturals, EntitySave

CONSTANTS
    Ids,            \* transactions
    Editors,        \* PATCH requests and saves of the sync in progress at a time
    PatchStatuses   \* what a PATCH may set: starknet's TransactionStatus

ASSUME PatchAssumption ==
    PatchStatuses \cap {"absent", "PENDING", "CONFIRMED", "FAILED"} = {}

VARIABLES
    row,            \* token_transactions
    call,           \* transferToken calls
    submitted,      \* transfers the chain has received
    edit,           \* PATCH requests and saves of the sync in progress
    \* History variables, read by properties only.
    announced,      \* events about a transaction that reached the webhook queue
    touched         \* transactions that a PATCH or DELETE wrote to

vars == <<row, call, submitted, edit, announced, touched>>

Row == [status : PatchStatuses \cup {"PENDING", "CONFIRMED", "FAILED"},
        hash : BOOLEAN, error : BOOLEAN]
Absent == [status |-> "absent", hash |-> FALSE, error |-> FALSE]
Pending(hash) == [status |-> "PENDING", hash |-> hash, error |-> FALSE]

\* "load" and "write" are the two statements of a save; a call is "done" when it
\* has answered, "lost" when its process stopped, and "none" when the row comes
\* from POST /token-transactions or from the sync.
Pc == {"idle", "create", "announceCreated", "send", "confirmLoad", "confirmWrite",
       "announceConfirmed", "failLoad", "failWrite", "announceFailed", "done", "lost", "none"}

Call == [pc : Pc, entity : Row, loaded : Row \cup {Absent}, response : {"", "201", "500"}]
Edit == [pc : {"idle", "load", "write"}, id : Ids, entity : Row, loaded : Row \cup {Absent}]

Init ==
    /\ row = [i \in Ids |-> Absent]
    /\ call = [i \in Ids |-> [pc |-> "idle", entity |-> Pending(FALSE),
                              loaded |-> Absent, response |-> ""]]
    /\ submitted = {}
    /\ edit \in [Editors -> {[pc |-> "idle", id |-> i, entity |-> Pending(FALSE),
                              loaded |-> Absent] : i \in Ids}]
    /\ announced = [i \in Ids |-> {}]
    /\ touched = {}

------------------------------------------------------------------------------
(* Saving an entity that has an id. *)

\* A save that found no row inserts it, which fails when there is one by then.
CanWrite(inRow, loaded) == loaded = Absent => inRow = Absent

\* The row after it; an update of a row removed since it was loaded does nothing.
Saved(inRow, loaded, entity) ==
    IF loaded = Absent THEN entity
    ELSE IF inRow = Absent THEN Absent
    ELSE [status |-> SavedColumn(inRow.status, loaded.status, entity.status),
          hash |-> SavedColumn(inRow.hash, loaded.hash, entity.hash),
          error |-> SavedColumn(inRow.error, loaded.error, entity.error)]

------------------------------------------------------------------------------
(* transferToken *)

Goto(i, pc) == call' = [call EXCEPT ![i].pc = pc]

Respond(i, code) == call' = [call EXCEPT ![i].pc = "done", ![i].response = code]

Begin(i) ==
    /\ call[i].pc = "idle" /\ i \notin submitted
    /\ Goto(i, "create")
    /\ UNCHANGED <<row, submitted, edit, announced, touched>>

\* The new row is saved, or the outer catch answers.
CreateRow(i) ==
    /\ call[i].pc = "create"
    /\ row' = [row EXCEPT ![i] = Pending(FALSE)]
    /\ Goto(i, "announceCreated")
    /\ UNCHANGED <<submitted, edit, announced, touched>>

CreateRowFails(i) ==
    /\ call[i].pc = "create"
    /\ Respond(i, "500")
    /\ UNCHANGED <<row, submitted, edit, announced, touched>>

\* dispatchEvent may fail before or after it has queued some of its jobs.
Announce(i, event) == announced' = [announced EXCEPT ![i] = @ \cup {event}]
AnnounceInPart(i, event) == Announce(i, event) \/ UNCHANGED announced

AnnounceCreated(i) ==
    /\ call[i].pc = "announceCreated"
    /\ Announce(i, "created")
    /\ Goto(i, "send")
    /\ UNCHANGED <<row, submitted, edit, touched>>

\* This one is outside the inner try block: the row stays PENDING.
AnnounceCreatedFails(i) ==
    /\ call[i].pc = "announceCreated"
    /\ AnnounceInPart(i, "created")
    /\ Respond(i, "500")
    /\ UNCHANGED <<row, submitted, edit, touched>>

\* The chain receives the transfer,
Submit(i) ==
    /\ call[i].pc = "send"
    /\ submitted' = submitted \cup {i}
    /\ UNCHANGED <<row, call, edit, announced, touched>>

\* Variant: only the status is assigned.
ConfirmWithoutHash(i) ==
    /\ call[i].pc = "send"
    /\ i \in submitted
    /\ call' = [call EXCEPT ![i].pc = "confirmLoad", ![i].entity.status = "CONFIRMED"]
    /\ UNCHANGED <<row, submitted, edit, announced, touched>>

\* and answers with its hash.
Confirm(i) ==
    /\ call[i].pc = "send"
    /\ i \in submitted
    /\ call' = [call EXCEPT ![i].pc = "confirmLoad",
                            ![i].entity.status = "CONFIRMED", ![i].entity.hash = TRUE]
    /\ UNCHANGED <<row, submitted, edit, announced, touched>>

\* The inner catch block; the entity keeps the hash it may have.
EnterCatch(i) == call' = [call EXCEPT ![i].pc = "failLoad",
                                      ![i].entity.status = "FAILED", ![i].entity.error = TRUE]

\* The transfer is rejected, or its answer never comes.
SendFails(i) ==
    /\ call[i].pc = "send"
    /\ EnterCatch(i)
    /\ UNCHANGED <<row, submitted, edit, announced, touched>>

LoadRow(i) ==
    /\ call[i].pc \in {"confirmLoad", "failLoad"}
    /\ call' = [call EXCEPT ![i].pc = IF @ = "confirmLoad" THEN "confirmWrite" ELSE "failWrite",
                            ![i].loaded = row[i]]
    /\ UNCHANGED <<row, submitted, edit, announced, touched>>

\* Variant: a transfer that failed is sent again.
WriteRowAndRetry(i) ==
    /\ call[i].pc \in {"confirmWrite", "failWrite"}
    /\ CanWrite(row[i], call[i].loaded)
    /\ row' = [row EXCEPT ![i] = Saved(@, call[i].loaded, call[i].entity)]
    /\ Goto(i, IF call[i].pc = "confirmWrite" THEN "announceConfirmed" ELSE "send")
    /\ UNCHANGED <<submitted, edit, announced, touched>>

WriteRow(i) ==
    /\ call[i].pc \in {"confirmWrite", "failWrite"}
    /\ CanWrite(row[i], call[i].loaded)
    /\ row' = [row EXCEPT ![i] = Saved(@, call[i].loaded, call[i].entity)]
    /\ Goto(i, IF call[i].pc = "confirmWrite" THEN "announceConfirmed" ELSE "announceFailed")
    /\ UNCHANGED <<submitted, edit, announced, touched>>

\* The save of a transfer that the chain has received fails: it is taken for a
\* failed transfer.
ConfirmSaveFails(i) ==
    /\ call[i].pc \in {"confirmLoad", "confirmWrite"}
    /\ EnterCatch(i)
    /\ UNCHANGED <<row, submitted, edit, announced, touched>>

AnnounceConfirmed(i) ==
    /\ call[i].pc = "announceConfirmed"
    /\ Announce(i, "confirmed")
    /\ Respond(i, "201")
    /\ UNCHANGED <<row, submitted, edit, touched>>

\* So it is when its announcement fails.
AnnounceConfirmedFails(i) ==
    /\ call[i].pc = "announceConfirmed"
    /\ AnnounceInPart(i, "confirmed")
    /\ EnterCatch(i)
    /\ UNCHANGED <<row, submitted, edit, touched>>

\* Variant: the failure is announced when the save fails as well.
FailSaveFailsAnnounced(i) ==
    /\ call[i].pc \in {"failLoad", "failWrite"}
    /\ Announce(i, "failed")
    /\ Respond(i, "500")
    /\ UNCHANGED <<row, submitted, edit, touched>>

\* A failed save inside the catch block goes to the outer one, which only answers.
FailSaveFails(i) ==
    /\ call[i].pc \in {"failLoad", "failWrite"}
    /\ Respond(i, "500")
    /\ UNCHANGED <<row, submitted, edit, announced, touched>>

\* Whether or not the failure can be announced, the answer is the same.
AnnounceFailed(i) ==
    /\ call[i].pc = "announceFailed"
    /\ AnnounceInPart(i, "failed")
    /\ Respond(i, "500")
    /\ UNCHANGED <<row, submitted, edit, touched>>

\* The process stops.
CallLost(i) ==
    /\ call[i].pc \notin {"idle", "done", "lost", "none"}
    /\ Goto(i, "lost")
    /\ UNCHANGED <<row, submitted, edit, announced, touched>>

------------------------------------------------------------------------------
(* TransactionService *)

\* create: the row holds the hash that the client names, and PENDING whatever
\* status it names.
CreateRecord(i) ==
    /\ call[i].pc = "idle"
    /\ row' = [row EXCEPT ![i] = Pending(TRUE)]
    /\ Goto(i, "none")
    /\ UNCHANGED <<submitted, edit, announced, touched>>

\* update: findOne (404 when there is no row), the assignment, and
EditFind(e, i, status) ==
    /\ edit[e].pc = "idle"
    /\ row[i] # Absent
    /\ edit' = [edit EXCEPT ![e] = [pc |-> "load", id |-> i, loaded |-> Absent,
                                    entity |-> [row[i] EXCEPT !.status = status]]]
    /\ UNCHANGED <<row, call, submitted, announced, touched>>

\* the save.
EditLoad(e) ==
    /\ edit[e].pc = "load"
    /\ edit' = [edit EXCEPT ![e].pc = "write", ![e].loaded = row[edit[e].id]]
    /\ UNCHANGED <<row, call, submitted, announced, touched>>

EditWrite(e) ==
    LET i == edit[e].id IN
    /\ edit[e].pc = "write"
    /\ CanWrite(row[i], edit[e].loaded)
    /\ row' = [row EXCEPT ![i] = Saved(@, edit[e].loaded, edit[e].entity)]
    /\ edit' = [edit EXCEPT ![e].pc = "idle"]
    /\ touched' = IF edit[e].entity.status \in PatchStatuses THEN touched \cup {i} ELSE touched
    /\ UNCHANGED <<call, submitted, announced>>

\* A statement fails, or the process stops.
EditFails(e) ==
    /\ edit[e].pc # "idle"
    /\ edit' = [edit EXCEPT ![e].pc = "idle"]
    /\ UNCHANGED <<row, call, submitted, announced, touched>>

\* Variant: the row is kept and marked.
RemoveSoftly(i) ==
    /\ row[i] # Absent
    /\ row' = [row EXCEPT ![i].status = "absent"]
    /\ touched' = touched \cup {i}
    /\ UNCHANGED <<call, submitted, edit, announced>>

Remove(i) ==
    /\ row[i] # Absent
    /\ row' = [row EXCEPT ![i] = Absent]
    /\ touched' = touched \cup {i}
    /\ UNCHANGED <<call, submitted, edit, announced>>

------------------------------------------------------------------------------
(* TokenSyncService *)

\* Another sender's transfer, or one by another way than transferToken.
SentElsewhere(i) ==
    /\ call[i].pc \in {"idle", "none"}
    /\ submitted' = submitted \cup {i}
    /\ UNCHANGED <<row, call, edit, announced, touched>>

\* A transfer of the chain whose hash no row has gets a row,
SyncInsert(i) ==
    /\ call[i].pc = "idle" /\ i \in submitted
    /\ row' = [row EXCEPT ![i] = [status |-> "CONFIRMED", hash |-> TRUE, error |-> FALSE]]
    /\ Goto(i, "none")
    /\ UNCHANGED <<submitted, edit, announced, touched>>

\* and the row found by a hash is confirmed, whatever its status; Object.assign copies
\* only what the new record names, so the error columns stay.  EditLoad, EditWrite and
\* EditFails are its save.
SyncFind(e, i) ==
    /\ edit[e].pc = "idle"
    /\ i \in submitted /\ row[i].hash
    /\ edit' = [edit EXCEPT ![e] = [pc |-> "load", id |-> i, loaded |-> Absent,
                                    entity |-> [row[i] EXCEPT !.status = "CONFIRMED"]]]
    /\ UNCHANGED <<row, call, submitted, announced, touched>>

\* A save of it that is about to write.
Syncing(e, i) ==
    edit[e].pc = "write" /\ edit[e].id = i /\ edit[e].entity.status = "CONFIRMED"

------------------------------------------------------------------------------
TransferStep(i) ==
    \/ Begin(i)
    \/ CreateRow(i)
    \/ CreateRowFails(i)
    \/ AnnounceCreated(i)
    \/ AnnounceCreatedFails(i)
    \/ Submit(i)
    \/ Confirm(i)
    \/ SendFails(i)
    \/ LoadRow(i)
    \/ WriteRow(i)
    \/ ConfirmSaveFails(i)
    \/ AnnounceConfirmed(i)
    \/ AnnounceConfirmedFails(i)
    \/ FailSaveFails(i)
    \/ AnnounceFailed(i)
    \/ CallLost(i)

EditStep(e) ==
    \/ \E i \in Ids, status \in PatchStatuses : EditFind(e, i, status)
    \/ \E i \in Ids : SyncFind(e, i)
    \/ EditLoad(e)
    \/ EditWrite(e)
    \/ EditFails(e)

Next ==
    \/ \E i \in Ids : TransferStep(i) \/ CreateRecord(i) \/ Remove(i)
    \/ \E i \in Ids : SentElsewhere(i) \/ SyncInsert(i)
    \/ \E e \in Editors : EditStep(e)

Spec == Init /\ [][Next]_vars

------------------------------------------------------------------------------
(* Properties. *)

TypeOK ==
    /\ row \in [Ids -> Row \cup {Absent}]
    /\ call \in [Ids -> Call]
    /\ submitted \subseteq Ids
    /\ edit \in [Editors -> Edit]
    /\ announced \in [Ids -> SUBSET {"created", "confirmed", "failed"}]
    /\ touched \subseteq Ids

\* However the column-wise writes of a transfer's saves, of stale patches and of the
\* sync mix, and whatever is removed and inserted again between them, a CONFIRMED row
\* is one whose transfer the chain has received.  It has its hash, unless a patch put
\* back the row of before the chain answered while the sync confirmed it; it has an
\* error only where the call took a later failure of its own for one of the transfer.
\* A FAILED row has its error.
ColumnsAgree ==
    \A i \in Ids :
       /\ row[i].status = "CONFIRMED" =>
             /\ i \in submitted
             /\ row[i].hash \/ i \in touched
             /\ row[i].error => call[i].entity.status = "FAILED" /\ call[i].entity.hash
       /\ row[i].status = "FAILED" => row[i].error

\* A transaction shown as failed becomes confirmed only by the sync, and only if the
\* chain had answered its call with a hash: transferToken never takes a failure back,
\* a patch never does, and a transfer that was rejected stays failed.
OnlySyncConfirmsFailed ==
    [][\A i \in Ids :
          row[i].status = "FAILED" /\ row'[i].status = "CONFIRMED" =>
             /\ i \in submitted /\ call[i].entity.hash
             /\ \E e \in Editors : Syncing(e, i)]_vars

\* The sender is answered with success only for a transfer that is stored as
\* confirmed, with its hash, and whose two events were announced; nothing later in
\* transferToken undoes that.
SuccessIsStored ==
    \A i \in Ids :
       call[i].response = "201" =>
          /\ announced[i] = {"created", "confirmed"}
          /\ i \notin touched => row[i] = [status |-> "CONFIRMED", hash |-> TRUE, error |-> FALSE]

\* The events announced about a transaction that was not edited are those of the
\* statuses its row went through: a failure was stored before it was announced, and
\* only the sync, which finds the transfer on the chain, replaces it; so was a
\* confirmation, which only a failure to announce it replaces.
EventsFollowRow ==
    \A i \in Ids \ touched :
       /\ "failed" \in announced[i] =>
             \/ row[i].status = "FAILED"
             \/ row[i].status = "CONFIRMED" /\ call[i].entity.hash
       /\ "confirmed" \in announced[i] => row[i].hash /\ row[i].status # "PENDING"

\* Both: what the sender and the subscribers were told is in the table.
ToldIsStored == SuccessIsStored /\ EventsFollowRow

==============================================================================
