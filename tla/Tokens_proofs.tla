----------------------------- MODULE Tokens_proofs -----------------------------
(***************************************************************************)
(* TokenTransfer and TokenSync, the writers of token_transactions.         *)
(*                                                                         *)
(* Of the transfers that a user asks for, for any number of transactions   *)
(* and of concurrent patches and saves of the sync: type correctness, the  *)
(* agreement of a row's columns, that only the sync confirms a failed      *)
(* transaction, and that the websocket told users nothing the table does   *)
(* not say.  Of the synchronization, for any number of transfers,          *)
(* concurrent runs, blocks and restarts: that no block is skipped, and     *)
(* how many rows it has of one transfer.                                   *)
(***************************************************************************)
EXTENDS TokenTransfer, TokenSync, FiniteSetTheorems, TLAPS

(* The two statements of a save keep the type of what they handle. *)
LEMMA SavedType ==
    ASSUME NEW inRow \in Row \cup {Absent}, NEW loaded \in Row \cup {Absent}, NEW entity \in Row
    PROVE  Saved(inRow, loaded, entity) \in Row \cup {Absent}
<1>1. CASE loaded = Absent \/ inRow = Absent
  BY <1>1 DEF Saved
<1>2. CASE loaded # Absent /\ inRow # Absent
  <2>1. inRow \in Row /\ loaded \in Row
    BY <1>2
  <2>2. Saved(inRow, loaded, entity) =
          [status |-> SavedColumn(inRow.status, loaded.status, entity.status),
           hash |-> SavedColumn(inRow.hash, loaded.hash, entity.hash),
           error |-> SavedColumn(inRow.error, loaded.error, entity.error)]
    BY <1>2 DEF Saved
  <2>3. QED
    BY <2>1, <2>2 DEF Row, SavedColumn
<1>3. QED
  BY <1>1, <1>2

LEMMA RowFields ==
    ASSUME NEW r \in Row
    PROVE  [status |-> r.status, hash |-> r.hash, error |-> r.error] = r
BY DEF Row

LEMMA TypeInit == Init => TypeOK
<1> SUFFICES ASSUME Init PROVE TypeOK
  OBVIOUS
<1>1. row \in [Ids -> Row \cup {Absent}] /\ submitted \subseteq Ids /\ touched \subseteq Ids
  BY DEF Init
<1>2. call \in [Ids -> Call]
  BY DEF Init, Call, Pc, Pending, Row
<1>3. edit \in [Editors -> Edit]
  <2>1. \A i \in Ids : [pc |-> "idle", id |-> i, entity |-> Pending(FALSE), loaded |-> Absent] \in Edit
    BY DEF Edit, Pending, Row
  <2>2. QED
    BY <2>1 DEF Init
<1>4. announced \in [Ids -> SUBSET {"created", "confirmed", "failed"}]
  BY DEF Init
<1>5. QED
  BY <1>1, <1>2, <1>3, <1>4 DEF TypeOK

(* A call that only moves, or answers, keeps its type. *)
LEMMA GotoType ==
    ASSUME TypeOK, NEW i \in Ids, NEW pc \in Pc, Goto(i, pc)
    PROVE  call' \in [Ids -> Call]
<1>1. [call[i] EXCEPT !.pc = pc] \in Call
  BY DEF TypeOK, Call
<1>2. call' = [call EXCEPT ![i] = [call[i] EXCEPT !.pc = pc]]
  BY DEF Goto, TypeOK
<1>3. QED
  BY <1>1, <1>2 DEF TypeOK

LEMMA RespondType ==
    ASSUME TypeOK, NEW i \in Ids, NEW code \in {"201", "500"}, Respond(i, code)
    PROVE  call' \in [Ids -> Call]
<1>1. [call[i] EXCEPT !.pc = "done", !.response = code] \in Call
  BY ZenonT(60) DEF TypeOK, Call, Pc
<1>2. call' = [call EXCEPT ![i] = [call[i] EXCEPT !.pc = "done", !.response = code]]
  BY DEF Respond, TypeOK
<1>3. QED
  BY <1>1, <1>2 DEF TypeOK

LEMMA EnterCatchType ==
    ASSUME TypeOK, NEW i \in Ids, EnterCatch(i)
    PROVE  call' \in [Ids -> Call]
<1> DEFINE after == [call[i] EXCEPT !.pc = "failLoad",
                        !.entity = [call[i].entity EXCEPT !.status = "FAILED", !.error = TRUE]]
<1>1. [call[i].entity EXCEPT !.status = "FAILED", !.error = TRUE] \in Row
  BY ZenonT(60) DEF TypeOK, Call, Row
<1>2. after \in Call
  BY <1>1, ZenonT(60) DEF TypeOK, Call, Pc
<1>3. call' = [call EXCEPT ![i] = after]
  BY ZenonT(60) DEF EnterCatch, TypeOK, Call
<1>4. QED
  BY <1>2, <1>3 DEF TypeOK

LEMMA AnnounceType ==
    ASSUME TypeOK, NEW i \in Ids, NEW event \in {"created", "confirmed", "failed"},
           AnnounceInPart(i, event)
    PROVE  announced' \in [Ids -> SUBSET {"created", "confirmed", "failed"}]
BY DEF AnnounceInPart, Announce, TypeOK

LEMMA TypeNext == TypeOK /\ [Next]_vars => TypeOK'
<1> SUFFICES ASSUME TypeOK, [Next]_vars PROVE TypeOK'
  OBVIOUS
<1>1. ASSUME NEW i \in Ids, TransferStep(i) PROVE TypeOK'
  <2>1. CASE Begin(i)
    BY <2>1, GotoType DEF Begin, TypeOK, Pc
  <2>2. CASE CreateRow(i)
    <3>1. row' \in [Ids -> Row \cup {Absent}]
      BY <2>2 DEF CreateRow, TypeOK, Pending, Row
    <3>2. QED
      BY <2>2, <3>1, GotoType DEF CreateRow, TypeOK, Pc
  <2>3. CASE CreateRowFails(i)
    BY <2>3, RespondType DEF CreateRowFails, TypeOK
  <2>4. CASE AnnounceCreated(i)
    BY <2>4, GotoType, AnnounceType DEF AnnounceCreated, AnnounceInPart, TypeOK, Pc
  <2>5. CASE AnnounceCreatedFails(i)
    BY <2>5, RespondType, AnnounceType DEF AnnounceCreatedFails, TypeOK
  <2>6. CASE Submit(i)
    BY <2>6 DEF Submit, TypeOK
  <2>7. CASE Confirm(i)
    <3> DEFINE after == [call[i] EXCEPT !.pc = "confirmLoad",
                            !.entity = [call[i].entity EXCEPT !.status = "CONFIRMED", !.hash = TRUE]]
    <3>1. [call[i].entity EXCEPT !.status = "CONFIRMED", !.hash = TRUE] \in Row
      BY ZenonT(60) DEF TypeOK, Call, Row
    <3>2. after \in Call
      BY <3>1, ZenonT(60) DEF TypeOK, Call, Pc
    <3>3. call' = [call EXCEPT ![i] = after]
      BY <2>7, ZenonT(60) DEF Confirm, TypeOK, Call
    <3>4. call' \in [Ids -> Call]
      BY <3>2, <3>3 DEF TypeOK
    <3>5. QED
      BY <2>7, <3>4 DEF Confirm, TypeOK
  <2>8. CASE SendFails(i)
    BY <2>8, EnterCatchType DEF SendFails, TypeOK
  <2>9. CASE LoadRow(i)
    <3> DEFINE pc == IF call[i].pc = "confirmLoad" THEN "confirmWrite" ELSE "failWrite"
               after == [call[i] EXCEPT !.pc = pc, !.loaded = row[i]]
    <3>1. after \in Call
      BY DEF TypeOK, Call, Pc
    <3>2. call' = [call EXCEPT ![i] = after]
      BY <2>9 DEF LoadRow, TypeOK, Call
    <3>3. call' \in [Ids -> Call]
      BY <3>1, <3>2 DEF TypeOK
    <3>4. QED
      BY <2>9, <3>3 DEF LoadRow, TypeOK
  <2>10. CASE WriteRow(i)
    <3>1. Saved(row[i], call[i].loaded, call[i].entity) \in Row \cup {Absent}
      BY SavedType DEF TypeOK, Call
    <3>2. row' \in [Ids -> Row \cup {Absent}]
      BY <2>10, <3>1 DEF WriteRow, TypeOK
    <3>3. QED
      BY <2>10, <3>2, GotoType DEF WriteRow, TypeOK, Pc
  <2>11. CASE ConfirmSaveFails(i)
    BY <2>11, EnterCatchType DEF ConfirmSaveFails, TypeOK
  <2>12. CASE AnnounceConfirmed(i)
    BY <2>12, RespondType, AnnounceType DEF AnnounceConfirmed, AnnounceInPart, TypeOK
  <2>13. CASE AnnounceConfirmedFails(i)
    BY <2>13, EnterCatchType, AnnounceType DEF AnnounceConfirmedFails, TypeOK
  <2>14. CASE FailSaveFails(i)
    BY <2>14, RespondType DEF FailSaveFails, TypeOK
  <2>15. CASE AnnounceFailed(i)
    BY <2>15, RespondType, AnnounceType DEF AnnounceFailed, TypeOK
  <2>16. CASE CallLost(i)
    BY <2>16, GotoType DEF CallLost, TypeOK, Pc
  <2>17. QED
    BY <1>1, <2>1, <2>2, <2>3, <2>4, <2>5, <2>6, <2>7, <2>8, <2>9, <2>10, <2>11, <2>12,
       <2>13, <2>14, <2>15, <2>16 DEF TransferStep
<1>2. ASSUME NEW i \in Ids, CreateRecord(i) PROVE TypeOK'
  <2>1. row' \in [Ids -> Row \cup {Absent}]
    BY <1>2 DEF CreateRecord, TypeOK, Pending, Row
  <2>2. QED
    BY <1>2, <2>1, GotoType DEF CreateRecord, TypeOK, Pc
<1>3. ASSUME NEW i \in Ids, Remove(i) \/ SentElsewhere(i) PROVE TypeOK'
  BY <1>3 DEF Remove, SentElsewhere, TypeOK
<1>9. ASSUME NEW i \in Ids, SyncInsert(i) PROVE TypeOK'
  <2>1. row' \in [Ids -> Row \cup {Absent}]
    BY <1>9 DEF SyncInsert, TypeOK, Row
  <2>2. QED
    BY <1>9, <2>1, GotoType DEF SyncInsert, TypeOK, Pc
<1>10. ASSUME NEW e \in Editors, NEW i \in Ids, SyncFind(e, i) PROVE TypeOK'
  <2> DEFINE entity == [row[i] EXCEPT !.status = "CONFIRMED"]
  <2>1. row[i] \in Row
    BY <1>10 DEF SyncFind, TypeOK, Absent
  <2>2. entity \in Row
    BY <2>1 DEF Row
  <2>3. [pc |-> "load", id |-> i, loaded |-> Absent, entity |-> entity] \in Edit
    BY <2>2 DEF Edit
  <2>4. QED
    BY <1>10, <2>3 DEF SyncFind, TypeOK
<1>4. ASSUME NEW e \in Editors, NEW i \in Ids, NEW status \in PatchStatuses, EditFind(e, i, status)
      PROVE TypeOK'
  <2> DEFINE entity == [row[i] EXCEPT !.status = status]
  <2>1. entity \in Row
    BY <1>4 DEF EditFind, TypeOK, Row
  <2>2. [pc |-> "load", id |-> i, loaded |-> Absent, entity |-> entity] \in Edit
    BY <2>1 DEF Edit
  <2>3. QED
    BY <1>4, <2>2 DEF EditFind, TypeOK
<1>5. ASSUME NEW e \in Editors, EditLoad(e) PROVE TypeOK'
  <2>1. [edit[e] EXCEPT !.pc = "write", !.loaded = row[edit[e].id]] \in Edit
    BY DEF TypeOK, Edit
  <2>2. edit' = [edit EXCEPT ![e] = [edit[e] EXCEPT !.pc = "write", !.loaded = row[edit[e].id]]]
    BY <1>5 DEF EditLoad, TypeOK
  <2>3. QED
    BY <1>5, <2>1, <2>2 DEF EditLoad, TypeOK
<1>6. ASSUME NEW e \in Editors, EditWrite(e) \/ EditFails(e) PROVE TypeOK'
  <2>1. [edit[e] EXCEPT !.pc = "idle"] \in Edit
    BY DEF TypeOK, Edit
  <2>2. edit' \in [Editors -> Edit]
    BY <1>6, <2>1 DEF EditWrite, EditFails, TypeOK
  <2>3. edit[e].id \in Ids
    BY DEF TypeOK, Edit
  <2>4. Saved(row[edit[e].id], edit[e].loaded, edit[e].entity) \in Row \cup {Absent}
    BY <2>3, SavedType DEF TypeOK, Edit
  <2>5. CASE EditWrite(e)
    BY <2>2, <2>3, <2>4, <2>5 DEF EditWrite, TypeOK
  <2>6. CASE EditFails(e)
    BY <2>2, <2>6 DEF EditFails, TypeOK
  <2>7. QED
    BY <1>6, <2>5, <2>6
<1>7. CASE UNCHANGED vars
  BY <1>7 DEF vars, TypeOK
<1>8. QED
  BY <1>1, <1>2, <1>3, <1>4, <1>5, <1>6, <1>7, <1>9, <1>10 DEF Next, EditStep

(* Every reachable state has the stated types. *)
THEOREM TypeCorrect == Spec => []TypeOK
BY TypeInit, TypeNext, PTL DEF Spec

------------------------------------------------------------------------------
(* The agreement of a row's columns.  It rests on what the copies of the row, in *)
(* a call's save and in the saves of patches and of the sync, may hold: none has *)
(* a hash before the call writes it, and none an error before the call writes    *)
(* its failure.                                                                  *)

\* No save of the call's entity has written a hash, or an error, yet.
HashUnwritten(c) == c.pc # "none" /\ (c.entity.hash => c.pc \in {"confirmLoad", "confirmWrite"})
ErrorUnwritten(c) == c.entity.status = "FAILED" => c.pc \in {"failLoad", "failWrite"}

NoHash(i) ==
    /\ ~row[i].hash
    /\ ~call[i].loaded.hash
    /\ \A e \in Editors : edit[e].id = i => ~edit[e].entity.hash /\ ~edit[e].loaded.hash

NoError(i) ==
    /\ ~row[i].error /\ row[i].status # "FAILED"
    /\ ~call[i].loaded.error /\ call[i].loaded.status # "FAILED"
    /\ \A e \in Editors : edit[e].id = i => ~edit[e].entity.error /\ ~edit[e].loaded.error

Confirmed == [status |-> "CONFIRMED", hash |-> TRUE, error |-> FALSE]

\* What a call holds at each step, sent telling whether the chain has its transfer.
Holds(sent, c) ==
    /\ c.pc \in {"idle", "create", "announceCreated", "send", "none"} => c.entity = Pending(FALSE)
    /\ c.pc \in {"confirmLoad", "confirmWrite", "announceConfirmed"} =>
          sent /\ c.entity = Confirmed
    /\ c.pc \in {"failLoad", "failWrite"} => c.entity.status = "FAILED" /\ c.entity.error
    /\ c.pc = "confirmWrite" => c.loaded.status # "CONFIRMED"

CallInv(i) ==
    /\ HashUnwritten(call[i]) => NoHash(i)
    /\ ErrorUnwritten(call[i]) => NoError(i)
    /\ Holds(i \in submitted, call[i])

RowInv(i) ==
    /\ row[i].status = "CONFIRMED" => i \in submitted /\ ~HashUnwritten(call[i])
    /\ row[i].status = "FAILED" => row[i].error

\* What a save under way confirms is on the chain.  One that writes back an old error,
\* and not its status, found a row of that status: the row has not failed since.
EditEntity(sent, d) ==
    d.pc # "idle" => \/ d.entity.status \in PatchStatuses
                     \/ d.entity.status = "CONFIRMED" /\ d.entity.hash /\ sent

EditInv(e) ==
    /\ EditEntity(edit[e].id \in submitted, edit[e])
    /\ edit[e].pc = "write" /\ edit[e].loaded.status = edit[e].entity.status
          /\ edit[e].entity.error # edit[e].loaded.error => row[edit[e].id].status # "FAILED"

Agreement ==
    /\ \A i \in Ids : CallInv(i) /\ RowInv(i)
    /\ \A e \in Editors : EditInv(e)

IInv == TypeOK /\ Agreement

LEMMA AgreementInit == Init => Agreement
<1> SUFFICES ASSUME Init PROVE Agreement
  OBVIOUS
<1>1. ASSUME NEW e \in Editors
      PROVE  edit[e].pc = "idle" /\ edit[e].entity = Pending(FALSE) /\ edit[e].loaded = Absent
  <2>1. edit[e] \in {[pc |-> "idle", id |-> i, entity |-> Pending(FALSE), loaded |-> Absent] : i \in Ids}
    BY DEF Init
  <2>2. PICK i \in Ids : edit[e] = [pc |-> "idle", id |-> i, entity |-> Pending(FALSE), loaded |-> Absent]
    BY <2>1
  <2>3. QED
    BY <2>2
<1>2. ASSUME NEW i \in Ids PROVE CallInv(i) /\ RowInv(i)
  <2>1. row[i] = Absent /\ call[i].pc = "idle" /\ call[i].loaded = Absent
        /\ call[i].entity = Pending(FALSE)
    BY DEF Init
  <2>2. NoHash(i) /\ NoError(i)
    BY <1>1, <2>1 DEF NoHash, NoError, Absent, Pending
  <2>3. Holds(i \in submitted, call[i]) /\ RowInv(i)
    BY <2>1 DEF Holds, RowInv, Absent
  <2>4. QED
    BY <2>2, <2>3 DEF CallInv
<1>3. ASSUME NEW e \in Editors PROVE EditInv(e)
  BY <1>1 DEF EditInv, EditEntity
<1>4. QED
  BY <1>2, <1>3 DEF Agreement

EditColumns ==
    \A e \in Editors : /\ edit[e].entity.hash \in BOOLEAN /\ edit[e].loaded.hash \in BOOLEAN
                       /\ edit[e].entity.error \in BOOLEAN /\ edit[e].loaded.error \in BOOLEAN

LEMMA EditColumnsType == TypeOK => EditColumns
<1> SUFFICES ASSUME TypeOK, NEW e \in Editors
             PROVE  /\ edit[e].entity.hash \in BOOLEAN /\ edit[e].loaded.hash \in BOOLEAN
                    /\ edit[e].entity.error \in BOOLEAN /\ edit[e].loaded.error \in BOOLEAN
  BY DEF EditColumns
<1>1. edit[e].entity \in Row /\ edit[e].loaded \in Row \cup {Absent}
  BY DEF TypeOK, Edit
<1>2. edit[e].entity.hash \in BOOLEAN /\ edit[e].entity.error \in BOOLEAN
  BY <1>1 DEF Row
<1>3. Absent.hash \in BOOLEAN /\ Absent.error \in BOOLEAN
  BY DEF Absent
<1>4. \A r \in Row : r.hash \in BOOLEAN /\ r.error \in BOOLEAN
  BY DEF Row
<1>5. QED
  BY <1>1, <1>2, <1>3, <1>4

(* What is known of a transaction does not depend on the row or call of another. *)
LEMMA Others ==
    ASSUME IInv, NEW i \in Ids, UNCHANGED edit, submitted \subseteq submitted',
           \A j \in Ids \ {i} : row'[j] = row[j] /\ call'[j] = call[j]
    PROVE  /\ \A j \in Ids \ {i} : CallInv(j)' /\ RowInv(j)'
           /\ \A e \in Editors : edit[e].id # i => EditInv(e)'
<1>1. ASSUME NEW j \in Ids \ {i} PROVE CallInv(j)' /\ RowInv(j)'
  <2>1. row'[j] = row[j] /\ call'[j] = call[j] /\ CallInv(j) /\ RowInv(j)
    BY DEF IInv, Agreement
  <2>2. (NoHash(j) => NoHash(j)') /\ (NoError(j) => NoError(j)')
    BY <2>1 DEF NoHash, NoError
  <2>3. Holds(j \in submitted, call[j])'
    BY <2>1 DEF CallInv, Holds
  <2>4. QED
    BY <2>1, <2>2, <2>3 DEF CallInv, RowInv
<1>2. ASSUME NEW e \in Editors, edit[e].id # i PROVE EditInv(e)'
  <2>1. edit[e].id \in Ids
    BY DEF IInv, TypeOK, Edit
  <2>2. row'[edit[e].id] = row[edit[e].id]
    BY <1>2, <2>1
  <2>3. QED
    BY <2>2 DEF IInv, Agreement, EditInv, EditEntity
<1>3. QED
  BY <1>1, <1>2

(* A step of a call that writes no row. *)
LEMMA CallMoves ==
    ASSUME IInv, NEW i \in Ids, NEW c \in Call, call' = [call EXCEPT ![i] = c],
           UNCHANGED <<row, edit>>, submitted \subseteq submitted',
           HashUnwritten(c) => HashUnwritten(call[i]) /\ ~c.loaded.hash,
           ErrorUnwritten(c) => /\ ErrorUnwritten(call[i])
                                /\ ~c.loaded.error /\ c.loaded.status # "FAILED",
           Holds(i \in submitted', c), row[i].status = "CONFIRMED" => ~HashUnwritten(c)
    PROVE  Agreement'
<1>1. ASSUME NEW j \in Ids, j # i PROVE CallInv(j)' /\ RowInv(j)'
  <2>1. \A k \in Ids \ {i} : row'[k] = row[k] /\ call'[k] = call[k]
    BY DEF IInv, TypeOK
  <2>2. QED
    BY <1>1, <2>1, Others
<1>2. CallInv(i)' /\ RowInv(i)'
  <2>1. call'[i] = c /\ CallInv(i) /\ RowInv(i)
    BY DEF IInv, TypeOK, Agreement
  <2>2. HashUnwritten(c) => NoHash(i)'
    BY <2>1 DEF CallInv, NoHash
  <2>3. ErrorUnwritten(c) => NoError(i)'
    BY <2>1 DEF CallInv, NoError
  <2>4. HashUnwritten(call[i])' = HashUnwritten(c) /\ ErrorUnwritten(call[i])' = ErrorUnwritten(c)
    BY <2>1 DEF HashUnwritten, ErrorUnwritten
  <2>5. QED
    BY <2>1, <2>2, <2>3, <2>4 DEF CallInv, RowInv
<1>3. ASSUME NEW e \in Editors PROVE EditInv(e)'
  BY DEF IInv, Agreement, EditInv, EditEntity
<1>4. QED
  BY <1>1, <1>2, <1>3 DEF Agreement

(* The save of a call, which writes the hash, or the failure, for the first time. *)
LEMMA CallWrites ==
    ASSUME IInv, NEW i \in Ids, WriteRow(i)
    PROVE  Agreement'
<1> DEFINE e0 == call[i].entity
           l0 == call[i].loaded
<1>1. /\ CallInv(i) /\ RowInv(i) /\ i \in Ids /\ e0 \in Row
      /\ row' = [row EXCEPT ![i] = Saved(row[i], l0, e0)]
      /\ UNCHANGED <<submitted, edit>>
  BY DEF WriteRow, IInv, TypeOK, Call, Agreement
<1>2. row'[i] = Saved(row[i], l0, e0) /\ \A j \in Ids \ {i} : row'[j] = row[j]
  BY <1>1 DEF IInv, TypeOK
<1>3. /\ call'[i].entity = e0 /\ call'[i].loaded = l0
      /\ call'[i].pc = IF call[i].pc = "confirmWrite" THEN "announceConfirmed" ELSE "announceFailed"
      /\ \A j \in Ids \ {i} : call'[j] = call[j]
  BY DEF WriteRow, Goto, IInv, TypeOK, Call
<1>4. CASE call[i].pc = "confirmWrite"
  <2>1. l0.status # "CONFIRMED" /\ i \in submitted /\ e0 = Confirmed
    BY <1>1, <1>4 DEF CallInv, Holds
  <2>2. NoHash(i) /\ NoError(i)
    BY <1>1, <1>4, <2>1 DEF CallInv, HashUnwritten, ErrorUnwritten, Confirmed
  <2>3. row'[i] = Absent \/ (row'[i].status = "CONFIRMED" /\ ~row'[i].error)
    <3>1. CASE l0 = Absent \/ row[i] = Absent
      <4>1. row'[i] = e0 \/ row'[i] = Absent
        BY <1>2, <3>1 DEF Saved
      <4>2. e0.status = "CONFIRMED" /\ ~e0.error
        BY <2>1 DEF Confirmed
      <4>3. QED
        BY <4>1, <4>2
    <3>2. CASE l0 # Absent /\ row[i] # Absent
      <4>1. row'[i] = [status |-> SavedColumn(row[i].status, l0.status, e0.status),
                       hash |-> SavedColumn(row[i].hash, l0.hash, e0.hash),
                       error |-> SavedColumn(row[i].error, l0.error, e0.error)]
        BY <1>2, <3>2 DEF Saved
      <4>2. SavedColumn(row[i].status, l0.status, e0.status) = "CONFIRMED"
        BY <2>1 DEF SavedColumn, Confirmed
      <4>3. row[i].error = FALSE /\ e0.error = FALSE
        <5>1. row[i] \in Row
          BY <3>2 DEF IInv, TypeOK
        <5>2. QED
          BY <2>1, <2>2, <5>1 DEF Confirmed, NoError, Row
      <4>4. SavedColumn(row[i].error, l0.error, e0.error) = FALSE
        BY <4>3 DEF SavedColumn
      <4>5. QED
        BY <4>1, <4>2, <4>4
    <3>3. QED
      BY <3>1, <3>2
  <2>4. ~HashUnwritten(call[i])'
    BY <1>3, <1>4, <2>1 DEF HashUnwritten, Confirmed
  <2>5. RowInv(i)'
    BY <1>1, <2>1, <2>3, <2>4 DEF RowInv, Absent
  <2>6. NoError(i)'
    BY <1>1, <1>3, <2>2, <2>3 DEF NoError, Absent
  <2>7. Holds(i \in submitted, call[i])'
    BY <1>1, <1>3, <1>4, <2>1 DEF Holds
  <2>8. CallInv(i)'
    BY <2>4, <2>6, <2>7 DEF CallInv
  <2>9. ASSUME NEW e \in Editors, edit[e].id = i PROVE EditInv(e)'
    <3>1. row'[i].status # "FAILED"
      BY <2>3 DEF Absent
    <3>2. QED
      BY <1>1, <2>9, <3>1 DEF IInv, Agreement, EditInv, EditEntity
  <2>10. QED
    BY <1>1, <1>2, <1>3, Others, <2>5, <2>8, <2>9 DEF Agreement
<1>5. CASE call[i].pc = "failWrite"
  <2>1. NoError(i) /\ e0.status = "FAILED" /\ e0.error
    BY <1>1, <1>5 DEF CallInv, ErrorUnwritten, Holds
  <2>2. row'[i] = Absent \/ (row'[i].status = "FAILED" /\ row'[i].error)
    <3>1. CASE l0 = Absent \/ row[i] = Absent
      BY <1>2, <2>1, <3>1 DEF Saved
    <3>2. CASE l0 # Absent /\ row[i] # Absent
      <4>1. row'[i] = [status |-> SavedColumn(row[i].status, l0.status, e0.status),
                       hash |-> SavedColumn(row[i].hash, l0.hash, e0.hash),
                       error |-> SavedColumn(row[i].error, l0.error, e0.error)]
        BY <1>2, <3>2 DEF Saved
      <4>2. l0 \in Row /\ e0 \in Row /\ ~l0.error /\ l0.status # "FAILED"
        BY <2>1, <3>2 DEF NoError, IInv, TypeOK, Call
      <4>3. SavedColumn(row[i].status, l0.status, e0.status) = "FAILED"
        BY <2>1, <4>2 DEF SavedColumn
      <4>4. SavedColumn(row[i].error, l0.error, e0.error) = TRUE
        BY <2>1, <4>2 DEF SavedColumn, Row
      <4>5. QED
        BY <4>1, <4>3, <4>4
    <3>3. QED
      BY <3>1, <3>2
  <2>3. HashUnwritten(call[i])' => HashUnwritten(call[i]) /\ ~e0.hash
    BY <1>3, <1>5 DEF HashUnwritten
  <2>4. ~ErrorUnwritten(call[i])'
    BY <1>3, <1>5, <2>1 DEF ErrorUnwritten
  <2>5. ASSUME HashUnwritten(call[i])' PROVE NoHash(i)'
    <3>1. NoHash(i) /\ ~e0.hash
      BY <1>1, <2>3, <2>5 DEF CallInv
    <3>2. ~row'[i].hash
      <4>1. CASE l0 = Absent \/ row[i] = Absent
        BY <1>2, <3>1, <4>1 DEF Saved, Absent
      <4>2. CASE l0 # Absent /\ row[i] # Absent
        <5>1. row'[i].hash = SavedColumn(row[i].hash, l0.hash, e0.hash)
          BY <1>2, <4>2 DEF Saved
        <5>2. QED
          BY <3>1, <5>1 DEF SavedColumn, NoHash
      <4>3. QED
        BY <4>1, <4>2
    <3>3. QED
      BY <1>1, <1>3, <3>1, <3>2 DEF NoHash
  <2>6. RowInv(i)'
    BY <2>2 DEF RowInv, Absent
  <2>7. Holds(i \in submitted, call[i])'
    BY <1>3, <1>5 DEF Holds
  <2>8. CallInv(i)'
    BY <2>4, <2>5, <2>7 DEF CallInv
  <2>9. ASSUME NEW e \in Editors, edit[e].id = i PROVE EditInv(e)'
    <3>1. edit[e].entity.error = edit[e].loaded.error
      <4>1. ~edit[e].entity.error /\ ~edit[e].loaded.error
        BY <2>1, <2>9 DEF NoError
      <4>2. EditColumns
        BY EditColumnsType DEF IInv
      <4>3. QED
        BY <4>1, <4>2 DEF EditColumns
    <3>2. QED
      BY <1>1, <2>9, <3>1 DEF IInv, Agreement, EditInv, EditEntity
  <2>10. QED
    BY <1>1, <1>2, <1>3, Others, <2>6, <2>8, <2>9 DEF Agreement
<1>6. QED
  BY <1>4, <1>5 DEF WriteRow

(* What the save of a patch, or of the sync, makes of the row. *)
LEMMA PatchedRow ==
    ASSUME IInv, NEW e \in Editors, EditWrite(e)
    PROVE  LET i == edit[e].id IN
           /\ NoHash(i) => ~row'[i].hash
           /\ NoError(i) => ~row'[i].error /\ row'[i].status # "FAILED"
           /\ row'[i].status = "CONFIRMED" =>
                 \/ row[i].status = "CONFIRMED"
                 \/ edit[e].entity.status = "CONFIRMED" /\ edit[e].entity.hash /\ i \in submitted
           /\ row'[i].status = "FAILED" => row[i].status = "FAILED" /\ row'[i].error = row[i].error
<1> DEFINE i == edit[e].id
           e0 == edit[e].entity
           l0 == edit[e].loaded
<1>1. /\ i \in Ids /\ EditInv(e) /\ edit[e].pc = "write"
      /\ e0 \in Row /\ l0 \in Row \cup {Absent} /\ row[i] \in Row \cup {Absent}
  BY DEF EditWrite, IInv, Agreement, TypeOK, Edit
<1>2. row'[i] = Saved(row[i], l0, e0)
  BY <1>1 DEF EditWrite, IInv, TypeOK
<1>3. /\ e0.status \in PatchStatuses \/ (e0.status = "CONFIRMED" /\ e0.hash /\ i \in submitted)
      /\ e0.status # "FAILED"
  BY <1>1, PatchAssumption DEF EditInv, EditEntity
<1>4. (NoHash(i) => ~e0.hash /\ ~l0.hash) /\ (NoError(i) => ~e0.error /\ ~l0.error)
  BY DEF NoHash, NoError
<1>5. CASE l0 = Absent \/ row[i] = Absent
  <2>1. row'[i] = e0 \/ row'[i] = Absent
    BY <1>2, <1>5 DEF Saved
  <2>2. e0.status = "CONFIRMED" => e0.hash /\ i \in submitted
    BY <1>3, PatchAssumption
  <2>3. QED
    BY <1>3, <1>4, <2>1, <2>2 DEF Absent
<1>6. CASE l0 # Absent /\ row[i] # Absent
  <2>1. row'[i] = [status |-> SavedColumn(row[i].status, l0.status, e0.status),
                   hash |-> SavedColumn(row[i].hash, l0.hash, e0.hash),
                   error |-> SavedColumn(row[i].error, l0.error, e0.error)]
    BY <1>2, <1>6 DEF Saved
  <2>2. /\ row'[i].hash = row[i].hash \/ row'[i].hash = e0.hash
        /\ row'[i].error = row[i].error \/ row'[i].error = e0.error
        /\ row'[i].status = row[i].status \/ row'[i].status = e0.status
    BY <2>1 DEF SavedColumn
  <2>3. NoHash(i) => ~row'[i].hash
    BY <1>4, <2>2 DEF NoHash
  <2>4. NoError(i) => ~row'[i].error /\ row'[i].status # "FAILED"
    BY <1>3, <1>4, <2>2 DEF NoError
  <2>5. ASSUME row'[i].status = "FAILED"
        PROVE  row[i].status = "FAILED" /\ row'[i].error = row[i].error
    <3>1. row[i].status = "FAILED"
      BY <1>3, <2>2, <2>5
    <3>2. l0.status = e0.status
      BY <1>3, <2>1, <2>5 DEF SavedColumn
    <3>3. e0.error = l0.error
      BY <1>1, <3>1, <3>2 DEF EditInv
    <3>4. QED
      BY <2>1, <3>1, <3>3 DEF SavedColumn
  <2>6. row'[i].status = "CONFIRMED" => \/ row[i].status = "CONFIRMED"
                                        \/ e0.status = "CONFIRMED" /\ e0.hash /\ i \in submitted
    BY <1>3, <2>2, PatchAssumption
  <2>7. QED
    BY <2>3, <2>4, <2>5, <2>6
<1>7. QED
  BY <1>5, <1>6

LEMMA AgreementPatch ==
    ASSUME IInv, NEW e \in Editors, EditWrite(e)
    PROVE  Agreement'
<1> DEFINE i == edit[e].id
<1>1. /\ i \in Ids /\ CallInv(i) /\ RowInv(i)
      /\ UNCHANGED <<call, submitted>>
      /\ \A j \in Ids \ {i} : row'[j] = row[j]
  BY DEF EditWrite, IInv, Agreement, TypeOK, Edit
<1>2. \A d \in Editors : /\ edit'[d].id = edit[d].id /\ edit'[d].entity = edit[d].entity
                         /\ edit'[d].loaded = edit[d].loaded
                         /\ edit'[d].pc = IF d = e THEN "idle" ELSE edit[d].pc
  BY DEF EditWrite, IInv, TypeOK, Edit
<1>3. /\ NoHash(i) => ~row'[i].hash
      /\ NoError(i) => ~row'[i].error /\ row'[i].status # "FAILED"
      /\ row'[i].status = "CONFIRMED" =>
            row[i].status = "CONFIRMED" \/ (edit[e].entity.hash /\ i \in submitted)
      /\ row'[i].status = "FAILED" => row[i].status = "FAILED" /\ row'[i].error = row[i].error
  BY PatchedRow
<1>4. ASSUME NEW j \in Ids PROVE CallInv(j)' /\ RowInv(j)'
  <2>1. CallInv(j) /\ RowInv(j) /\ call'[j] = call[j]
    BY <1>1 DEF IInv, Agreement
  <2>2. (NoHash(j) => NoHash(j)') /\ (NoError(j) => NoError(j)')
    <3>1. CASE j = i
      BY <1>1, <1>2, <1>3, <3>1 DEF NoHash, NoError
    <3>2. CASE j # i
      BY <1>1, <1>2, <3>2 DEF NoHash, NoError
    <3>3. QED
      BY <3>1, <3>2
  <2>3. Holds(j \in submitted, call[j])'
    BY <1>1, <2>1 DEF CallInv, Holds
  <2>4. RowInv(j)'
    <3>1. CASE j = i
      <4>1. edit[e].entity.hash => ~HashUnwritten(call[j])
        BY <1>1, <3>1 DEF CallInv, NoHash
      <4>2. HashUnwritten(call[j])' = HashUnwritten(call[j])
        BY <2>1 DEF HashUnwritten
      <4>3. ASSUME row'[j].status = "CONFIRMED" PROVE j \in submitted /\ ~HashUnwritten(call[j])
        BY <1>3, <2>1, <3>1, <4>1, <4>3 DEF RowInv
      <4>4. row'[j].status = "FAILED" => row'[j].error
        BY <1>3, <2>1, <3>1 DEF RowInv
      <4>5. QED
        BY <1>1, <4>2, <4>3, <4>4 DEF RowInv
    <3>2. CASE j # i
      BY <1>1, <2>1, <3>2 DEF RowInv, HashUnwritten
    <3>3. QED
      BY <3>1, <3>2
  <2>5. QED
    BY <2>1, <2>2, <2>3, <2>4 DEF CallInv, HashUnwritten, ErrorUnwritten
<1>5. ASSUME NEW d \in Editors PROVE EditInv(d)'
  <2>1. EditInv(d) /\ edit[d].id \in Ids
    BY DEF IInv, Agreement, TypeOK, Edit
  <2>2. row'[edit[d].id].status = "FAILED" => row[edit[d].id].status = "FAILED"
    BY <1>1, <1>3, <2>1
  <2>3. EditEntity(edit[d].id \in submitted, edit[d])'
    BY <1>1, <1>2, <2>1 DEF EditInv, EditEntity
  <2>4. QED
    BY <1>2, <2>1, <2>2, <2>3 DEF EditInv
<1>6. QED
  BY <1>4, <1>5 DEF Agreement

LEMMA AgreementNext == IInv /\ [Next]_vars => Agreement'
<1> SUFFICES ASSUME IInv, [Next]_vars PROVE Agreement'
  OBVIOUS
<1> USE DEF IInv
<1>1. ASSUME NEW i \in Ids, TransferStep(i) PROVE Agreement'
  <2> DEFINE c == call'[i]
  <2>0. CallInv(i) /\ RowInv(i) /\ call[i] \in Call
    BY DEF Agreement, TypeOK
  <2>1. CASE CreateRow(i)
    <3>1. /\ row'[i] = Pending(FALSE) /\ UNCHANGED <<submitted, edit>>
          /\ call'[i] = [call[i] EXCEPT !.pc = "announceCreated"]
          /\ \A j \in Ids \ {i} : row'[j] = row[j] /\ call'[j] = call[j]
      BY <2>1 DEF CreateRow, Goto, TypeOK
    <3>2. /\ call[i].pc = "create" /\ call[i].entity = Pending(FALSE) /\ NoHash(i) /\ NoError(i)
      BY <2>0, <2>1 DEF CreateRow, CallInv, Holds, HashUnwritten, ErrorUnwritten, Pending
    <3>3. call'[i].loaded = call[i].loaded /\ call'[i].entity = call[i].entity
          /\ call'[i].pc = "announceCreated"
      BY <2>0, <3>1 DEF Call
    <3>4. row'[i].status = "PENDING" /\ ~row'[i].hash /\ ~row'[i].error
      BY <3>1 DEF Pending
    <3>5. NoHash(i)' /\ NoError(i)'
      BY <3>1, <3>2, <3>3, <3>4 DEF NoHash, NoError
    <3>6. CallInv(i)' /\ RowInv(i)'
      BY <3>1, <3>2, <3>3, <3>4, <3>5 DEF CallInv, RowInv, Holds
    <3>7. ASSUME NEW e \in Editors, edit[e].id = i PROVE EditInv(e)'
      BY <3>1, <3>4, <3>7 DEF Agreement, EditInv, EditEntity
    <3>8. QED
      BY <3>1, <3>6, <3>7, Others DEF Agreement
  <2>2. CASE WriteRow(i)
    BY <2>2, CallWrites
  <2>3. ASSUME call[i].pc \notin {"idle", "none"}, NEW pc \in {"done", "lost"}, NEW response \in {"", "201", "500"},
               UNCHANGED <<row, submitted, edit>>,
               call' = [call EXCEPT ![i] = [call[i] EXCEPT !.pc = pc, !.response = response]]
        PROVE  Agreement'
    <3> DEFINE d == [call[i] EXCEPT !.pc = pc, !.response = response]
    <3>1. /\ d \in Call /\ d.pc \in {"done", "lost"}
          /\ d.entity = call[i].entity /\ d.loaded = call[i].loaded
      BY <2>0 DEF Call, Pc
    <3>2. Holds(i \in submitted', d)
      BY <3>1 DEF Holds
    <3>3. call' = [call EXCEPT ![i] = d] /\ UNCHANGED <<row, submitted, edit>>
      BY <2>3
    <3>4. /\ HashUnwritten(d) => HashUnwritten(call[i]) /\ NoHash(i)
          /\ ErrorUnwritten(d) => ErrorUnwritten(call[i]) /\ NoError(i)
          /\ ~HashUnwritten(call[i]) => ~HashUnwritten(d)
      BY <2>0, <2>3, <3>1 DEF HashUnwritten, ErrorUnwritten, CallInv
    <3> HIDE DEF d
    <3>5. QED
      BY <2>0, <3>1, <3>2, <3>3, <3>4, CallMoves DEF NoHash, NoError, RowInv
  <2>4. ASSUME EnterCatch(i), UNCHANGED <<row, submitted, edit>>,
               call[i].pc \in {"send", "confirmLoad", "confirmWrite", "announceConfirmed"}
        PROVE  Agreement'
    <3> DEFINE d == [call[i] EXCEPT !.pc = "failLoad",
                        !.entity = [call[i].entity EXCEPT !.status = "FAILED", !.error = TRUE]]
    <3>1. [call[i].entity EXCEPT !.status = "FAILED", !.error = TRUE] \in Row
      BY <2>0 DEF Call, Row
    <3>2. /\ d \in Call /\ d.pc = "failLoad" /\ d.loaded = call[i].loaded
          /\ d.entity.status = "FAILED" /\ d.entity.error /\ d.entity.hash = call[i].entity.hash
      BY <2>0, <3>1 DEF Call, Pc, Row
    <3>3. call' = [call EXCEPT ![i] = d]
      BY <2>0, <2>4 DEF EnterCatch, TypeOK, Call
    <3>4. ErrorUnwritten(call[i]) /\ NoError(i)
      BY <2>0, <2>4 DEF CallInv, Holds, ErrorUnwritten, Pending, Confirmed
    <3>5. Holds(i \in submitted', d)
      BY <3>2 DEF Holds
    <3>6. /\ HashUnwritten(d) => HashUnwritten(call[i]) /\ NoHash(i)
          /\ ~HashUnwritten(call[i]) => ~HashUnwritten(d)
      BY <2>0, <2>4, <3>2 DEF HashUnwritten, CallInv
    <3> HIDE DEF d
    <3>7. QED
      BY <2>0, <2>4, <3>2, <3>3, <3>4, <3>5, <3>6, CallMoves DEF NoHash, NoError, RowInv
  <2>5. ASSUME NEW pc \in {"create", "send"}, UNCHANGED <<row, submitted, edit>>,
               call[i].pc \in {"idle", "announceCreated"}, Goto(i, pc)
        PROVE  Agreement'
    <3> DEFINE d == [call[i] EXCEPT !.pc = pc]
    <3>1. d \in Call /\ d.pc = pc /\ d.loaded = call[i].loaded /\ d.entity = call[i].entity
      BY <2>0 DEF Call, Pc
    <3>2. call' = [call EXCEPT ![i] = d]
      BY <2>5 DEF Goto, TypeOK
    <3>3. HashUnwritten(call[i]) /\ ErrorUnwritten(call[i])
      BY <2>0, <2>5 DEF CallInv, Holds, HashUnwritten, ErrorUnwritten, Pending
    <3>4. NoHash(i) /\ NoError(i) /\ row[i].status # "CONFIRMED"
      BY <2>0, <3>3 DEF CallInv, RowInv
    <3>5. Holds(i \in submitted', d)
      BY <2>0, <2>5, <3>1 DEF CallInv, Holds
    <3> HIDE DEF d
    <3>6. QED
      BY <2>5, <3>1, <3>2, <3>3, <3>4, <3>5, CallMoves DEF NoHash, NoError
  <2>6. CASE Submit(i)
    <3>1. call' = [call EXCEPT ![i] = call[i]]
      BY <2>6 DEF Submit, TypeOK
    <3>2. HashUnwritten(call[i]) /\ ErrorUnwritten(call[i])
      BY <2>0, <2>6 DEF Submit, CallInv, Holds, HashUnwritten, ErrorUnwritten, Pending
    <3>3. NoHash(i) /\ NoError(i) /\ row[i].status # "CONFIRMED"
      BY <2>0, <3>2 DEF CallInv, RowInv
    <3>4. Holds(i \in submitted, call[i])'
      BY <2>0, <2>6 DEF Submit, CallInv, Holds
    <3>5. submitted \subseteq submitted' /\ UNCHANGED <<row, edit, call>>
      BY <2>6 DEF Submit
    <3>6. QED
      BY <2>0, <3>1, <3>2, <3>3, <3>4, <3>5, CallMoves DEF NoHash, NoError
  <2>7. CASE Confirm(i)
    <3> DEFINE entity == [call[i].entity EXCEPT !.status = "CONFIRMED", !.hash = TRUE]
               d == [call[i] EXCEPT !.pc = "confirmLoad", !.entity = entity]
    <3>1. call[i].pc = "send" /\ i \in submitted /\ call[i].entity = Pending(FALSE)
      BY <2>0, <2>7 DEF Confirm, CallInv, Holds
    <3>2. entity = Confirmed
      <4>1. call[i].entity = [status |-> "PENDING", hash |-> FALSE, error |-> FALSE]
        BY <3>1 DEF Pending
      <4>2. entity \in Row
        BY <2>0 DEF Call, Row
      <4>3. entity.status = "CONFIRMED" /\ entity.hash = TRUE /\ entity.error = FALSE
        BY <4>1
      <4>4. [status |-> entity.status, hash |-> entity.hash, error |-> entity.error] = entity
        BY <4>2, RowFields
      <4>5. QED
        BY <4>3, <4>4 DEF Confirmed
    <3>3. d \in Call /\ d.pc = "confirmLoad" /\ d.loaded = call[i].loaded /\ d.entity = entity
      <4>1. entity \in Row
        BY <3>2 DEF Row, Confirmed
      <4>2. QED
        BY <2>0, <4>1 DEF Call, Pc
    <3>4. call' = [call EXCEPT ![i] = d] /\ UNCHANGED <<row, submitted, edit>>
      BY <2>0, <2>7, ZenonT(60) DEF Confirm, TypeOK, Call
    <3>5. HashUnwritten(call[i]) /\ ErrorUnwritten(call[i])
      BY <3>1 DEF HashUnwritten, ErrorUnwritten, Pending
    <3>6. NoHash(i) /\ NoError(i) /\ row[i].status # "CONFIRMED"
      BY <2>0, <3>5 DEF CallInv, RowInv
    <3>7. Holds(i \in submitted', d)
      BY <3>1, <3>2, <3>3, <3>4 DEF Holds
    <3> HIDE DEF d
    <3>8. QED
      BY <3>3, <3>4, <3>5, <3>6, <3>7, CallMoves DEF NoHash, NoError
  <2>8. CASE LoadRow(i)
    <3> DEFINE pc == IF call[i].pc = "confirmLoad" THEN "confirmWrite" ELSE "failWrite"
               d == [call[i] EXCEPT !.pc = pc, !.loaded = row[i]]
    <3>1. /\ d \in Call /\ d.pc = pc /\ d.loaded = row[i] /\ d.entity = call[i].entity
          /\ call' = [call EXCEPT ![i] = d] /\ UNCHANGED <<row, submitted, edit>>
      BY <2>0, <2>8 DEF LoadRow, TypeOK, Call, Pc
    <3>2. call[i].pc \in {"confirmLoad", "failLoad"}
      BY <2>8 DEF LoadRow
    <3>3. /\ HashUnwritten(d) => HashUnwritten(call[i])
          /\ ErrorUnwritten(d) => ErrorUnwritten(call[i])
          /\ ~HashUnwritten(call[i]) => ~HashUnwritten(d)
          /\ call[i].pc = "confirmLoad" => HashUnwritten(call[i])
      BY <3>1, <3>2 DEF HashUnwritten, ErrorUnwritten
    <3>4. /\ HashUnwritten(d) => ~row[i].hash
          /\ ErrorUnwritten(d) => ~row[i].error /\ row[i].status # "FAILED"
          /\ call[i].pc = "confirmLoad" => row[i].status # "CONFIRMED"
      BY <2>0, <3>3 DEF CallInv, RowInv, NoHash, NoError
    <3>5. Holds(i \in submitted', d)
      BY <2>0, <3>1, <3>2, <3>4 DEF CallInv, Holds
    <3> HIDE DEF d
    <3>6. QED
      BY <2>0, <3>1, <3>3, <3>4, <3>5, CallMoves DEF RowInv
  <2>9. CASE CallLost(i)
    <3>1. call' = [call EXCEPT ![i] = [call[i] EXCEPT !.pc = "lost", !.response = call[i].response]]
      BY <2>0, <2>9 DEF CallLost, Goto, TypeOK, Call
    <3>2. call[i].response \in {"", "201", "500"}
      BY <2>0 DEF Call
    <3>3. call[i].pc \notin {"idle", "none"}
      BY <2>9 DEF CallLost
    <3>4. UNCHANGED <<row, submitted, edit>>
      BY <2>9 DEF CallLost
    <3>5. QED
      BY <2>3, <3>1, <3>2, <3>3, <3>4
  <2>10. ASSUME call[i].pc \notin {"idle", "none"}, NEW code \in {"201", "500"}, Respond(i, code),
                UNCHANGED <<row, submitted, edit>>
         PROVE  Agreement'
    <3>1. call' = [call EXCEPT ![i] = [call[i] EXCEPT !.pc = "done", !.response = code]]
      BY <2>0, <2>10 DEF Respond, TypeOK
    <3>2. QED
      BY <2>3, <2>10, <3>1
  <2>11. CASE CreateRowFails(i) \/ AnnounceCreatedFails(i) \/ FailSaveFails(i) \/ AnnounceFailed(i)
    BY <2>10, <2>11 DEF CreateRowFails, AnnounceCreatedFails, FailSaveFails, AnnounceFailed
  <2>12. CASE AnnounceConfirmed(i)
    BY <2>10, <2>12 DEF AnnounceConfirmed
  <2>13. CASE SendFails(i) \/ ConfirmSaveFails(i) \/ AnnounceConfirmedFails(i)
    BY <2>4, <2>13 DEF SendFails, ConfirmSaveFails, AnnounceConfirmedFails
  <2>14. CASE Begin(i) \/ AnnounceCreated(i)
    BY <2>5, <2>14 DEF Begin, AnnounceCreated
  <2>15. QED
    BY <1>1, <2>1, <2>2, <2>6, <2>7, <2>8, <2>9, <2>11, <2>12, <2>13, <2>14 DEF TransferStep
\* A row that no call made: what edits of its id hold is no error.
<1>2. ASSUME NEW i \in Ids, CreateRecord(i) \/ SyncInsert(i) PROVE Agreement'
  <2>1. CallInv(i) /\ RowInv(i) /\ call[i] \in Call
    BY DEF Agreement, TypeOK
  <2>2. /\ UNCHANGED <<submitted, edit>>
        /\ call'[i] = [call[i] EXCEPT !.pc = "none"] /\ call[i].pc = "idle"
        /\ \A j \in Ids \ {i} : row'[j] = row[j] /\ call'[j] = call[j]
    BY <1>2 DEF CreateRecord, SyncInsert, Goto, TypeOK
  <2>3. /\ call'[i].loaded = call[i].loaded /\ call'[i].pc = "none"
        /\ call'[i].entity = call[i].entity
    BY <2>1, <2>2 DEF Call
  <2>4. /\ row'[i].status # "FAILED" /\ ~row'[i].error
        /\ row'[i].status = "CONFIRMED" => i \in submitted
    BY <1>2 DEF CreateRecord, SyncInsert, TypeOK, Pending
  <2>5. call[i].entity = Pending(FALSE) /\ NoError(i)
    BY <2>1, <2>2 DEF CallInv, Holds, ErrorUnwritten, Pending
  <2>6. NoError(i)'
    BY <2>2, <2>3, <2>4, <2>5 DEF NoError
  <2>7. Holds(i \in submitted, call[i])'
    BY <2>3, <2>5 DEF Holds
  <2>8. ~HashUnwritten(call[i])'
    BY <2>3 DEF HashUnwritten
  <2>9. CallInv(i)' /\ RowInv(i)'
    BY <2>2, <2>4, <2>6, <2>7, <2>8 DEF CallInv, RowInv
  <2>10. ASSUME NEW e \in Editors, edit[e].id = i PROVE EditInv(e)'
    BY <2>2, <2>4, <2>10 DEF Agreement, EditInv, EditEntity
  <2>11. QED
    BY <2>2, <2>9, <2>10, Others DEF Agreement
<1>11. ASSUME NEW i \in Ids, SentElsewhere(i) PROVE Agreement'
  <2>1. UNCHANGED <<row, call, edit>> /\ submitted \subseteq submitted'
    BY <1>11 DEF SentElsewhere
  <2>2. ASSUME NEW j \in Ids PROVE CallInv(j)' /\ RowInv(j)'
    BY <2>1 DEF Agreement, CallInv, RowInv, NoHash, NoError, Holds, HashUnwritten, ErrorUnwritten
  <2>3. ASSUME NEW e \in Editors PROVE EditInv(e)'
    BY <2>1 DEF Agreement, EditInv, EditEntity
  <2>4. QED
    BY <2>2, <2>3 DEF Agreement
<1>3. ASSUME NEW i \in Ids, Remove(i) PROVE Agreement'
  <2>1. CallInv(i) /\ RowInv(i)
    BY DEF Agreement
  <2>2. /\ row'[i].status = "absent" /\ ~row'[i].hash /\ ~row'[i].error
        /\ UNCHANGED <<call, submitted, edit>> /\ \A j \in Ids \ {i} : row'[j] = row[j]
    BY <1>3 DEF Remove, TypeOK, Absent
  <2>3. (NoHash(i) => NoHash(i)') /\ (NoError(i) => NoError(i)')
    BY <2>2 DEF NoHash, NoError
  <2>4. CallInv(i)' /\ RowInv(i)'
    BY <2>1, <2>2, <2>3 DEF CallInv, RowInv, Holds, HashUnwritten, ErrorUnwritten
  <2>5. ASSUME NEW e \in Editors, edit[e].id = i PROVE EditInv(e)'
    BY <2>2, <2>5 DEF Agreement, EditInv, EditEntity
  <2>6. QED
    BY <2>2, <2>4, <2>5, Others DEF Agreement
<1>4. ASSUME NEW e \in Editors, EditWrite(e) PROVE Agreement'
  BY <1>4, AgreementPatch
\* A save that reads the row, or ends, changes only its own copies.
<1>5. ASSUME NEW e \in Editors, NEW c \in Edit, UNCHANGED <<row, call, submitted>>,
             edit' = [edit EXCEPT ![e] = c],
             EditEntity(c.id \in submitted, c),
             c.pc = "write" => c.loaded = row[c.id],
             c.entity.hash => (edit[e].id = c.id /\ edit[e].entity.hash) \/ row[c.id].hash,
             c.entity.error => (edit[e].id = c.id /\ edit[e].entity.error) \/ row[c.id].error,
             c.loaded.hash => (edit[e].id = c.id /\ edit[e].loaded.hash) \/ row[c.id].hash,
             c.loaded.error => (edit[e].id = c.id /\ edit[e].loaded.error) \/ row[c.id].error
      PROVE  Agreement'
  <2>1. edit'[e] = c /\ \A d \in Editors \ {e} : edit'[d] = edit[d]
    BY <1>5 DEF TypeOK
  <2>2. ASSUME NEW i \in Ids PROVE CallInv(i)' /\ RowInv(i)'
    <3>1. CallInv(i) /\ RowInv(i)
      BY DEF Agreement
    <3>2. NoHash(i) => NoHash(i)'
      BY <1>5, <2>1 DEF NoHash
    <3>3. NoError(i) => NoError(i)'
      BY <1>5, <2>1 DEF NoError
    <3>4. QED
      BY <1>5, <3>1, <3>2, <3>3 DEF CallInv, RowInv, Holds, HashUnwritten, ErrorUnwritten
  <2>3. ASSUME NEW d \in Editors PROVE EditInv(d)'
    <3>1. CASE d = e
      <4>1. c.pc = "write" /\ c.loaded.status = c.entity.status
              => row[c.id].status # "FAILED"
        BY <1>5, PatchAssumption DEF EditEntity
      <4>2. QED
        BY <1>5, <2>1, <3>1, <4>1 DEF EditInv
    <3>2. CASE d # e
      BY <1>5, <2>1, <3>2 DEF Agreement, EditInv, EditEntity
    <3>3. QED
      BY <3>1, <3>2
  <2>4. QED
    BY <2>2, <2>3 DEF Agreement
<1>6. ASSUME NEW e \in Editors, NEW i \in Ids, NEW status \in PatchStatuses, EditFind(e, i, status)
      PROVE Agreement'
  <2> DEFINE entity == [row[i] EXCEPT !.status = status]
             c == [pc |-> "load", id |-> i, loaded |-> Absent, entity |-> entity]
  <2>1. row[i] \in Row
    BY <1>6 DEF EditFind, TypeOK
  <2>2. entity \in Row /\ entity.status = status /\ entity.hash = row[i].hash /\ entity.error = row[i].error
    BY <2>1 DEF Row
  <2>3. c \in Edit /\ c.pc = "load" /\ c.id = i /\ ~c.loaded.hash /\ ~c.loaded.error /\ c.entity = entity
    BY <2>2 DEF Edit, Absent
  <2>4. UNCHANGED <<row, call, submitted>> /\ edit' = [edit EXCEPT ![e] = c]
    BY <1>6 DEF EditFind
  <2>5. EditEntity(c.id \in submitted, c)
    BY <2>2, <2>3 DEF EditEntity
  <2> HIDE DEF c, entity
  <2>6. QED
    BY <1>5, <2>2, <2>3, <2>4, <2>5
<1>12. ASSUME NEW e \in Editors, NEW i \in Ids, SyncFind(e, i) PROVE Agreement'
  <2> DEFINE entity == [row[i] EXCEPT !.status = "CONFIRMED"]
             c == [pc |-> "load", id |-> i, loaded |-> Absent, entity |-> entity]
  <2>1. row[i] \in Row /\ row[i].hash /\ i \in submitted
    BY <1>12 DEF SyncFind, TypeOK, Absent
  <2>2. entity \in Row /\ entity.status = "CONFIRMED" /\ entity.hash = row[i].hash /\ entity.error = row[i].error
    BY <2>1 DEF Row
  <2>3. c \in Edit /\ c.pc = "load" /\ c.id = i /\ ~c.loaded.hash /\ ~c.loaded.error /\ c.entity = entity
    BY <2>2 DEF Edit, Absent
  <2>4. UNCHANGED <<row, call, submitted>> /\ edit' = [edit EXCEPT ![e] = c]
    BY <1>12 DEF SyncFind
  <2>5. EditEntity(c.id \in submitted, c)
    BY <2>1, <2>2, <2>3 DEF EditEntity
  <2> HIDE DEF c, entity
  <2>6. QED
    BY <1>5, <2>2, <2>3, <2>4, <2>5
<1>7. ASSUME NEW e \in Editors, EditLoad(e) PROVE Agreement'
  <2> DEFINE c == [edit[e] EXCEPT !.pc = "write", !.loaded = row[edit[e].id]]
  <2>1. edit[e] \in Edit /\ EditInv(e) /\ edit[e].pc = "load"
    BY <1>7 DEF EditLoad, Agreement, TypeOK
  <2>2. /\ c \in Edit /\ c.pc = "write" /\ c.id = edit[e].id
        /\ c.loaded = row[c.id] /\ c.entity = edit[e].entity
    BY <2>1 DEF Edit, TypeOK
  <2>3. UNCHANGED <<row, call, submitted>> /\ edit' = [edit EXCEPT ![e] = c]
    BY <1>7 DEF EditLoad, TypeOK
  <2>4. EditEntity(c.id \in submitted, c)
    BY <2>1, <2>2 DEF EditInv, EditEntity
  <2> HIDE DEF c
  <2>5. QED
    BY <1>5, <2>2, <2>3, <2>4
<1>8. ASSUME NEW e \in Editors, EditFails(e) PROVE Agreement'
  <2> DEFINE c == [edit[e] EXCEPT !.pc = "idle"]
  <2>1. /\ c \in Edit /\ c.pc = "idle" /\ c.id = edit[e].id
        /\ c.loaded = edit[e].loaded /\ c.entity = edit[e].entity
    BY DEF Edit, TypeOK
  <2>2. UNCHANGED <<row, call, submitted>> /\ edit' = [edit EXCEPT ![e] = c]
    BY <1>8 DEF EditFails, TypeOK
  <2>3. EditEntity(c.id \in submitted, c)
    BY <2>1 DEF EditEntity
  <2> HIDE DEF c
  <2>4. QED
    BY <1>5, <2>1, <2>2, <2>3
<1>9. CASE UNCHANGED vars
  BY <1>9, ZenonT(60) DEF vars, Agreement, CallInv, RowInv, EditInv, NoHash, NoError, Holds,
     HashUnwritten, ErrorUnwritten, EditEntity
<1>10. QED
  BY <1>1, <1>2, <1>3, <1>4, <1>6, <1>7, <1>8, <1>9, <1>11, <1>12 DEF Next, EditStep

LEMMA IInvHolds == Spec => []IInv
<1>1. Init => IInv
  BY TypeInit, AgreementInit DEF IInv
<1>2. IInv /\ [Next]_vars => IInv'
  BY TypeNext, AgreementNext DEF IInv
<1>3. QED
  BY <1>1, <1>2, PTL DEF Spec

(* A row becomes FAILED no more, and CONFIRMED again, only by a save of the sync,  *)
(* of a transfer that the chain has and whose call had its hash.                  *)
THEOREM FailedConfirmedBySync == Spec => OnlySyncConfirmsFailed
<1>1. IInv /\ [Next]_vars
        => [\A i \in Ids : row[i].status = "FAILED" /\ row'[i].status = "CONFIRMED" =>
              /\ i \in submitted /\ call[i].entity.hash
              /\ \E e \in Editors : Syncing(e, i)]_vars
  <2> SUFFICES ASSUME IInv, [Next]_vars, NEW i \in Ids, row[i].status = "FAILED",
                      row'[i].status = "CONFIRMED"
               PROVE  /\ i \in submitted /\ call[i].entity.hash
                      /\ \E e \in Editors : Syncing(e, i)
    OBVIOUS
  <2>1. CallInv(i) /\ ~ErrorUnwritten(call[i])
    BY DEF IInv, Agreement, CallInv, NoError
  <2>2. row'[i] # row[i] /\ call[i].entity.status = "FAILED"
    BY <2>1 DEF ErrorUnwritten
  <2>3. call[i].pc \notin {"idle", "create", "confirmWrite", "failWrite", "none"}
    BY <2>1 DEF CallInv, Holds, ErrorUnwritten, Pending, Confirmed
  <2>4. CASE \E j \in Ids : TransferStep(j)
    <3>1. PICK j \in Ids : TransferStep(j)
      BY <2>4
    <3>2. i = j /\ (CreateRow(i) \/ WriteRow(i))
      BY <2>2, <3>1 DEF IInv, TypeOK, TransferStep, Begin, CreateRow, CreateRowFails,
         AnnounceCreated, AnnounceCreatedFails, Submit, Confirm, SendFails, LoadRow, WriteRow,
         ConfirmSaveFails, AnnounceConfirmed, AnnounceConfirmedFails, FailSaveFails,
         AnnounceFailed, CallLost
    <3>3. QED
      BY <2>3, <3>2 DEF CreateRow, WriteRow
  <2>5. CASE \E j \in Ids : CreateRecord(j) \/ SyncInsert(j) \/ SentElsewhere(j)
    BY <2>2, <2>3, <2>5 DEF IInv, TypeOK, CreateRecord, SyncInsert, SentElsewhere
  <2>6. CASE \E j \in Ids : Remove(j)
    BY <2>2, <2>6 DEF IInv, TypeOK, Remove, Absent
  <2>7. CASE \E e \in Editors : EditStep(e)
    <3>1. PICK e \in Editors : EditStep(e)
      BY <2>7
    <3>2. EditWrite(e) /\ edit[e].id = i
      BY <2>2, <3>1 DEF IInv, TypeOK, Edit, EditStep, EditFind, SyncFind, EditLoad, EditWrite, EditFails
    <3>3. edit[e].entity.status = "CONFIRMED" /\ edit[e].entity.hash /\ i \in submitted
      BY <3>2, PatchedRow
    <3>4. Syncing(e, i)
      BY <3>2, <3>3 DEF Syncing, EditWrite
    <3>5. call[i].entity.hash
      BY <2>1, <2>3, <3>2, <3>3 DEF CallInv, NoHash, HashUnwritten
    <3>6. QED
      BY <3>3, <3>4, <3>5
  <2>8. QED
    BY <2>2, <2>4, <2>5, <2>6, <2>7 DEF Next, vars
<1>2. QED
  BY <1>1, IInvHolds, PTL DEF Spec, OnlySyncConfirmsFailed
------------------------------------------------------------------------------
(* What the sender and the subscribers are told.  At each step of a call it is    *)
(* known what it has announced, and, while no patch or removal writes the row,    *)
(* what the row holds: the save that is under way has loaded it, an entity that   *)
(* may replace a confirmed row has the hash, and a save of the sync found the     *)
(* hash, which stays.                                                             *)

CallTold(i) ==
    /\ call[i].response # "" => call[i].pc = "done"
    /\ call[i].response = "201" =>
          announced[i] = {"created", "confirmed"} /\ call[i].entity.status # "FAILED"
    /\ call[i].pc \in {"idle", "create", "announceCreated", "none"} => announced[i] = {}
    /\ call[i].pc \in {"send", "confirmLoad", "confirmWrite", "announceConfirmed"} =>
          announced[i] = {"created"}
    /\ call[i].pc \in {"failLoad", "failWrite", "announceFailed"} => "failed" \notin announced[i]

RowTold(i) ==
    /\ call[i].pc \in {"idle", "create"} => row[i] = Absent
    /\ call[i].pc \in {"announceCreated", "send", "confirmLoad", "confirmWrite"} =>
          row[i] = Pending(FALSE)
    /\ call[i].pc = "announceConfirmed" \/ call[i].response = "201" => row[i] = Confirmed
    /\ call[i].pc \in {"failLoad", "failWrite"} =>
          /\ row[i] \in {Pending(FALSE), Confirmed}
          /\ row[i] = Confirmed => call[i].entity.hash
    /\ call[i].pc \in {"confirmWrite", "failWrite"} => call[i].loaded = row[i]
    /\ call[i].pc = "announceFailed" \/ "failed" \in announced[i] =>
          row[i].status = "FAILED" \/ (row[i].status = "CONFIRMED" /\ call[i].entity.hash)
    /\ "confirmed" \in announced[i] => row[i].hash /\ row[i].status # "PENDING"
    /\ row[i].status = "CONFIRMED" => row[i].hash
    /\ \A e \in Editors :
          edit[e].pc # "idle" /\ edit[e].id = i /\ edit[e].entity.status = "CONFIRMED" =>
             row[i].hash /\ (edit[e].pc = "write" => edit[e].loaded.hash)

Told == \A i \in Ids : CallTold(i) /\ (i \notin touched => RowTold(i))

(* A save that loaded the row as it still is stores the entity. *)
LEMMA SavedUndisturbed ==
    ASSUME NEW r \in Row, NEW entity \in Row
    PROVE  Saved(r, r, entity) = entity
<1>1. r # Absent
  BY PatchAssumption DEF Row, Absent
<1>2. \A v, w : SavedColumn(v, v, w) = w
  BY DEF SavedColumn
<1>3. QED
  BY <1>1, <1>2, RowFields DEF Saved

(* What the three kinds of steps of a call change in its record. *)
LEMMA GotoFields ==
    ASSUME TypeOK, NEW i \in Ids, NEW pc, Goto(i, pc)
    PROVE  /\ call'[i].pc = pc /\ call'[i].entity = call[i].entity
           /\ call'[i].loaded = call[i].loaded /\ call'[i].response = call[i].response
           /\ \A j \in Ids \ {i} : call'[j] = call[j]
BY DEF Goto, TypeOK, Call

LEMMA RespondFields ==
    ASSUME TypeOK, NEW i \in Ids, NEW code, Respond(i, code)
    PROVE  /\ call'[i].pc = "done" /\ call'[i].response = code
           /\ call'[i].entity = call[i].entity
           /\ \A j \in Ids \ {i} : call'[j] = call[j]
BY DEF Respond, TypeOK, Call

LEMMA EnterCatchFields ==
    ASSUME TypeOK, NEW i \in Ids, EnterCatch(i)
    PROVE  /\ call'[i].pc = "failLoad" /\ call'[i].entity.hash = call[i].entity.hash
           /\ call'[i].response = call[i].response
           /\ \A j \in Ids \ {i} : call'[j] = call[j]
<1>1. call[i] \in Call /\ call[i].entity \in Row
  BY DEF TypeOK, Call
<1>2. QED
  BY <1>1 DEF EnterCatch, TypeOK, Call, Row

LEMMA AnnounceFields ==
    ASSUME TypeOK, NEW i \in Ids, NEW event, AnnounceInPart(i, event)
    PROVE  /\ announced'[i] \in {announced[i], announced[i] \cup {event}}
           /\ Announce(i, event) => announced'[i] = announced[i] \cup {event}
           /\ \A j \in Ids \ {i} : announced'[j] = announced[j]
BY DEF AnnounceInPart, Announce, TypeOK

(* Who does not take part in a step is told the same, and so is the sender of a   *)
(* transaction that the step edits.                                              *)
LEMMA ToldKept ==
    ASSUME Told, NEW i \in Ids, call'[i] = call[i], announced'[i] = announced[i], edit' = edit,
           touched \subseteq touched', i \in touched' \/ row'[i] = row[i]
    PROVE  CallTold(i)' /\ (i \notin touched' => RowTold(i)')
<1>1. CallTold(i)'
  BY DEF Told, CallTold
<1>2. ASSUME i \notin touched' PROVE RowTold(i)'
  BY <1>2 DEF Told, RowTold
<1>3. QED
  BY <1>1, <1>2

(* A step of a transfer changes nothing of another one. *)
LEMMA TransferFrame ==
    ASSUME TypeOK, NEW i \in Ids, TransferStep(i)
    PROVE  /\ touched' = touched /\ edit' = edit
           /\ \A j \in Ids \ {i} : /\ call'[j] = call[j] /\ row'[j] = row[j]
                                   /\ announced'[j] = announced[j]
<1>1. CASE Begin(i) \/ CreateRow(i) \/ CreateRowFails(i) \/ Submit(i) \/ Confirm(i)
           \/ SendFails(i) \/ LoadRow(i) \/ WriteRow(i) \/ ConfirmSaveFails(i)
           \/ FailSaveFails(i) \/ CallLost(i)
  BY <1>1 DEF TypeOK, Begin, CreateRow, CreateRowFails, Submit, Confirm, SendFails, LoadRow,
     WriteRow, ConfirmSaveFails, FailSaveFails, CallLost, Goto, Respond, EnterCatch
<1>2. CASE AnnounceCreated(i) \/ AnnounceCreatedFails(i) \/ AnnounceConfirmed(i)
           \/ AnnounceConfirmedFails(i) \/ AnnounceFailed(i)
  BY <1>2 DEF TypeOK, AnnounceCreated, AnnounceCreatedFails, AnnounceConfirmed,
     AnnounceConfirmedFails, AnnounceFailed, Goto, Respond, EnterCatch, Announce, AnnounceInPart
<1>3. QED
  BY <1>1, <1>2 DEF TransferStep

LEMMA TransferTold ==
    ASSUME IInv, Told, NEW i \in Ids, TransferStep(i)
    PROVE  Told'
<1> SUFFICES ASSUME touched' = touched, edit' = edit
             PROVE  CallTold(i)' /\ (i \notin touched => RowTold(i)')
  <2>1. /\ touched' = touched /\ edit' = edit
        /\ \A j \in Ids \ {i} : call'[j] = call[j] /\ announced'[j] = announced[j] /\ row'[j] = row[j]
    BY TransferFrame DEF IInv
  <2>2. \A j \in Ids \ {i} : CallTold(j)' /\ (j \notin touched' => RowTold(j)')
    BY <2>1, ToldKept
  <2>3. QED
    BY <2>1, <2>2 DEF Told
<1>t. /\ TypeOK /\ CallTold(i) /\ (i \notin touched => RowTold(i)) /\ Holds(i \in submitted, call[i])
      /\ call[i] \in Call /\ call[i].entity \in Row
  BY DEF IInv, TypeOK, Agreement, CallInv, Told, Call
<1>f. /\ Pending(FALSE) # Confirmed /\ Pending(FALSE).status = "PENDING" /\ ~Pending(FALSE).hash
      /\ ~Absent.hash
      /\ Confirmed.hash /\ Confirmed.status = "CONFIRMED"
  BY DEF Pending, Confirmed, Absent
<1>1. CASE Begin(i)
  <2>1. call[i].pc = "idle" /\ Goto(i, "create") /\ UNCHANGED <<row, announced>>
    BY <1>1 DEF Begin
  <2>2. /\ call'[i].pc = "create" /\ call'[i].entity = call[i].entity
        /\ call'[i].response = call[i].response
    BY <1>t, <2>1, GotoFields
  <2>3. CallTold(i)'
    BY <1>t, <2>1, <2>2 DEF CallTold
  <2>4. ASSUME i \notin touched PROVE RowTold(i)'
    BY <1>t, <2>1, <2>2, <2>4 DEF RowTold, CallTold
  <2>5. QED
    BY <2>3, <2>4
<1>2. CASE CreateRow(i)
  <2>1. call[i].pc = "create" /\ Goto(i, "announceCreated") /\ announced' = announced
        /\ row'[i] = Pending(FALSE)
    BY <1>2, <1>t DEF CreateRow, TypeOK
  <2>2. /\ call'[i].pc = "announceCreated" /\ call'[i].entity = call[i].entity
        /\ call'[i].response = call[i].response
    BY <1>t, <2>1, GotoFields
  <2>3. CallTold(i)'
    BY <1>t, <2>1, <2>2 DEF CallTold
  <2>4. ASSUME i \notin touched PROVE RowTold(i)'
    BY <1>t, <1>f, <2>1, <2>2, <2>4 DEF RowTold, CallTold
  <2>5. QED
    BY <2>3, <2>4
<1>3. CASE CreateRowFails(i)
  <2>1. call[i].pc = "create" /\ Respond(i, "500") /\ UNCHANGED <<row, announced>>
    BY <1>3 DEF CreateRowFails
  <2>2. call'[i].pc = "done" /\ call'[i].response = "500" /\ call'[i].entity = call[i].entity
    BY <1>t, <2>1, RespondFields
  <2>3. CallTold(i)'
    BY <1>t, <2>1, <2>2 DEF CallTold
  <2>4. ASSUME i \notin touched PROVE RowTold(i)'
    BY <1>t, <2>1, <2>2, <2>4 DEF RowTold, CallTold
  <2>5. QED
    BY <2>3, <2>4
<1>4. CASE AnnounceCreated(i)
  <2>1. call[i].pc = "announceCreated" /\ Goto(i, "send") /\ row' = row
        /\ announced'[i] = {"created"}
    BY <1>4, <1>t, AnnounceFields DEF AnnounceCreated, AnnounceInPart, CallTold
  <2>2. /\ call'[i].pc = "send" /\ call'[i].entity = call[i].entity
        /\ call'[i].response = call[i].response
    BY <1>t, <2>1, GotoFields
  <2>3. CallTold(i)'
    BY <1>t, <2>1, <2>2 DEF CallTold
  <2>4. ASSUME i \notin touched PROVE RowTold(i)'
    BY <1>t, <2>1, <2>2, <2>4 DEF RowTold, CallTold
  <2>5. QED
    BY <2>3, <2>4
<1>5. CASE AnnounceCreatedFails(i)
  <2>1. call[i].pc = "announceCreated" /\ Respond(i, "500") /\ row' = row
        /\ announced'[i] \subseteq {"created"}
    BY <1>5, <1>t, AnnounceFields DEF AnnounceCreatedFails, CallTold
  <2>2. call'[i].pc = "done" /\ call'[i].response = "500" /\ call'[i].entity = call[i].entity
    BY <1>t, <2>1, RespondFields
  <2>3. CallTold(i)'
    BY <1>t, <2>1, <2>2 DEF CallTold
  <2>4. ASSUME i \notin touched PROVE RowTold(i)'
    BY <1>t, <2>1, <2>2, <2>4 DEF RowTold, CallTold
  <2>5. QED
    BY <2>3, <2>4
<1>6. CASE Submit(i)
  BY <1>6, ToldKept DEF Submit
<1>7. CASE Confirm(i)
  <2>1. call[i].pc = "send" /\ UNCHANGED <<row, announced>>
        /\ call'[i].pc = "confirmLoad" /\ call'[i].response = call[i].response
    BY <1>7, <1>t DEF Confirm, TypeOK, Call, Row
  <2>2. QED
    BY <1>t, <2>1 DEF CallTold, RowTold
<1>8. CASE SendFails(i)
  <2>1. call[i].pc = "send" /\ EnterCatch(i) /\ UNCHANGED <<row, announced>>
    BY <1>8 DEF SendFails
  <2>2. /\ call'[i].pc = "failLoad" /\ call'[i].entity.hash = call[i].entity.hash
        /\ call'[i].response = call[i].response
    BY <1>t, <2>1, EnterCatchFields
  <2>3. CallTold(i)'
    BY <1>t, <2>1, <2>2 DEF CallTold
  <2>4. ASSUME i \notin touched PROVE RowTold(i)'
    BY <1>t, <2>1, <2>2, <2>4, <1>f DEF RowTold, CallTold
  <2>5. QED
    BY <2>3, <2>4
<1>9. CASE LoadRow(i)
  <2>1. /\ call[i].pc \in {"confirmLoad", "failLoad"}
        /\ call'[i].pc = IF call[i].pc = "confirmLoad" THEN "confirmWrite" ELSE "failWrite"
        /\ call'[i].loaded = row[i] /\ call'[i].entity = call[i].entity
        /\ call'[i].response = call[i].response /\ UNCHANGED <<row, announced>>
    <3> DEFINE pc == IF call[i].pc = "confirmLoad" THEN "confirmWrite" ELSE "failWrite"
               after == [call[i] EXCEPT !.pc = pc, !.loaded = row[i]]
    <3>1. /\ call' = [call EXCEPT ![i] = after]
          /\ call[i].pc \in {"confirmLoad", "failLoad"} /\ UNCHANGED <<row, announced>>
      BY <1>9, <1>t DEF LoadRow, TypeOK, Call
    <3>2. /\ after.pc = pc /\ after.loaded = row[i] /\ after.entity = call[i].entity
          /\ after.response = call[i].response
      BY <1>t DEF Call
    <3>3. call'[i] = after
      BY <1>t, <3>1 DEF TypeOK
    <3> HIDE DEF after
    <3>4. QED
      BY <3>1, <3>2, <3>3
  <2>2. CallTold(i)'
    BY <1>t, <2>1 DEF CallTold
  <2>3. ASSUME i \notin touched PROVE RowTold(i)'
    BY <1>t, <2>1, <2>3 DEF RowTold, CallTold
  <2>4. QED
    BY <2>2, <2>3
<1>10. CASE WriteRow(i)
  <2>1. /\ row'[i] = Saved(row[i], call[i].loaded, call[i].entity) /\ announced' = announced
        /\ Goto(i, IF call[i].pc = "confirmWrite" THEN "announceConfirmed" ELSE "announceFailed")
        /\ call[i].pc \in {"confirmWrite", "failWrite"}
    BY <1>10, <1>t DEF WriteRow, TypeOK
  <2>2. CallTold(i)'
    <3>1. /\ call'[i].pc = IF call[i].pc = "confirmWrite" THEN "announceConfirmed" ELSE "announceFailed"
          /\ call'[i].response = call[i].response
      BY <1>t, <2>1, GotoFields
    <3>2. QED
      BY <1>t, <2>1, <3>1 DEF CallTold
  <2>3. ASSUME i \notin touched PROVE row'[i] = call[i].entity
    <3>1. Pending(FALSE) \in Row /\ Confirmed \in Row
      BY DEF Pending, Confirmed, Row
    <3>2. call[i].loaded = row[i] /\ row[i] \in Row
      BY <1>t, <2>1, <2>3, <3>1 DEF RowTold
    <3>3. QED
      BY <1>t, <2>1, <3>2, SavedUndisturbed
  <2>4. ASSUME i \notin touched, call[i].pc = "confirmWrite" PROVE RowTold(i)'
    <3>1. row'[i] = Confirmed
      BY <1>t, <2>3, <2>4 DEF Holds, Confirmed
    <3>2. /\ call'[i].pc = "announceConfirmed" /\ call'[i].response = ""
          /\ announced'[i] = {"created"}
      BY <1>t, <2>1, <2>4, GotoFields DEF CallTold
    <3>3. QED
      BY <1>t, <1>f, <2>4, <3>1, <3>2 DEF RowTold
  <2>5. ASSUME i \notin touched, call[i].pc = "failWrite" PROVE RowTold(i)'
    <3>1. row'[i].status = "FAILED" /\ (row[i].hash => row'[i].hash)
      BY <1>t, <1>f, <2>3, <2>5 DEF Holds, RowTold
    <3>2. /\ call'[i].pc = "announceFailed" /\ call'[i].response = ""
          /\ announced'[i] = announced[i]
      BY <1>t, <2>1, <2>5, GotoFields DEF CallTold
    <3>3. QED
      BY <1>t, <2>5, <3>1, <3>2 DEF RowTold
  <2>6. QED
    BY <2>1, <2>2, <2>4, <2>5
<1>11. CASE ConfirmSaveFails(i)
  <2>1. call[i].pc \in {"confirmLoad", "confirmWrite"} /\ EnterCatch(i)
        /\ UNCHANGED <<row, announced>>
    BY <1>11 DEF ConfirmSaveFails
  <2>2. /\ call'[i].pc = "failLoad" /\ call'[i].entity.hash = call[i].entity.hash
        /\ call'[i].response = call[i].response
    BY <1>t, <2>1, EnterCatchFields
  <2>3. CallTold(i)'
    BY <1>t, <2>1, <2>2 DEF CallTold
  <2>4. ASSUME i \notin touched PROVE RowTold(i)'
    BY <1>t, <2>1, <2>2, <2>4, <1>f DEF RowTold, CallTold
  <2>5. QED
    BY <2>3, <2>4
<1>12. CASE AnnounceConfirmed(i)
  <2>1. call[i].pc = "announceConfirmed" /\ Respond(i, "201") /\ row' = row
        /\ announced'[i] = {"created", "confirmed"}
    BY <1>12, <1>t, AnnounceFields, ZenonT(60) DEF AnnounceConfirmed, AnnounceInPart, CallTold
  <2>2. call'[i].pc = "done" /\ call'[i].response = "201" /\ call'[i].entity = call[i].entity
    BY <1>t, <2>1, RespondFields
  <2>3. CallTold(i)'
    BY <1>t, <1>f, <2>1, <2>2 DEF CallTold, Holds
  <2>4. ASSUME i \notin touched PROVE RowTold(i)'
    BY <1>t, <2>1, <2>2, <2>4, <1>f DEF RowTold, CallTold
  <2>5. QED
    BY <2>3, <2>4
<1>13. CASE AnnounceConfirmedFails(i)
  <2>1. call[i].pc = "announceConfirmed" /\ EnterCatch(i) /\ row' = row
        /\ announced'[i] \subseteq {"created", "confirmed"}
    <3>1. call[i].pc = "announceConfirmed" /\ EnterCatch(i) /\ row' = row
          /\ AnnounceInPart(i, "confirmed")
      BY <1>13 DEF AnnounceConfirmedFails
    <3>2. announced[i] = {"created"}
      BY <1>t, <3>1 DEF CallTold
    <3>3. announced'[i] \in {announced[i], announced[i] \cup {"confirmed"}}
      BY <1>t, <3>1, AnnounceFields
    <3>4. QED
      BY <3>1, <3>2, <3>3
  <2>2. call[i].entity.hash
    BY <1>t, <1>f, <2>1 DEF Holds
  <2>3. /\ call'[i].pc = "failLoad" /\ call'[i].entity.hash = call[i].entity.hash
        /\ call'[i].response = call[i].response
    BY <1>t, <2>1, EnterCatchFields
  <2>4. CallTold(i)'
    BY <1>t, <2>1, <2>3 DEF CallTold
  <2>5. ASSUME i \notin touched PROVE RowTold(i)'
    BY <1>t, <2>1, <2>3, <2>5, <1>f, <2>2 DEF RowTold, CallTold
  <2>6. QED
    BY <2>4, <2>5
<1>14. CASE FailSaveFails(i)
  <2>1. call[i].pc \in {"failLoad", "failWrite"} /\ Respond(i, "500")
        /\ UNCHANGED <<row, announced>>
    BY <1>14 DEF FailSaveFails
  <2>2. call'[i].pc = "done" /\ call'[i].response = "500" /\ call'[i].entity = call[i].entity
    BY <1>t, <2>1, RespondFields
  <2>3. CallTold(i)'
    BY <1>t, <2>1, <2>2 DEF CallTold
  <2>4. ASSUME i \notin touched PROVE RowTold(i)'
    BY <1>t, <2>1, <2>2, <2>4 DEF RowTold, CallTold
  <2>5. QED
    BY <2>3, <2>4
<1>15. CASE AnnounceFailed(i)
  <2>1. call[i].pc = "announceFailed" /\ Respond(i, "500") /\ row' = row
        /\ announced'[i] \in {announced[i], announced[i] \cup {"failed"}}
    BY <1>15, <1>t, AnnounceFields DEF AnnounceFailed
  <2>2. call'[i].pc = "done" /\ call'[i].response = "500" /\ call'[i].entity = call[i].entity
    BY <1>t, <2>1, RespondFields
  <2>3. CallTold(i)'
    BY <1>t, <2>1, <2>2 DEF CallTold
  <2>4. ASSUME i \notin touched PROVE RowTold(i)'
    BY <1>t, <2>1, <2>2, <2>4 DEF RowTold, CallTold
  <2>5. QED
    BY <2>3, <2>4
<1>16. CASE CallLost(i)
  <2>1. call[i].pc # "done" /\ Goto(i, "lost") /\ UNCHANGED <<row, announced>>
    BY <1>16 DEF CallLost
  <2>2. /\ call'[i].pc = "lost" /\ call'[i].entity = call[i].entity
        /\ call'[i].response = call[i].response
    BY <1>t, <2>1, GotoFields
  <2>3. CallTold(i)'
    BY <1>t, <2>1, <2>2 DEF CallTold
  <2>4. ASSUME i \notin touched PROVE RowTold(i)'
    BY <1>t, <2>1, <2>2, <2>4 DEF RowTold, CallTold
  <2>5. QED
    BY <2>3, <2>4
<1>17. QED
  BY <1>1, <1>2, <1>3, <1>4, <1>5, <1>6, <1>7, <1>8, <1>9, <1>10, <1>11, <1>12, <1>13,
     <1>14, <1>15, <1>16 DEF TransferStep

(* A save that finds or loads the row, or ends, changes only its own copies. *)
LEMMA EditTold ==
    ASSUME IInv, Told, NEW e \in Editors,
           \/ \E i \in Ids, status \in PatchStatuses : EditFind(e, i, status)
           \/ \E i \in Ids : SyncFind(e, i)
           \/ EditLoad(e)
           \/ EditFails(e)
    PROVE  Told'
<1>1. UNCHANGED <<row, call, announced, touched>>
  BY DEF EditFind, SyncFind, EditLoad, EditFails
<1>2. \A d \in Editors \ {e} : edit'[d] = edit[d]
  BY DEF EditFind, SyncFind, EditLoad, EditFails, IInv, TypeOK
<1>3. ASSUME NEW j \in Ids, j \notin touched, edit'[e].pc # "idle", edit'[e].id = j,
             edit'[e].entity.status = "CONFIRMED"
      PROVE  row[j].hash /\ (edit'[e].pc = "write" => edit'[e].loaded.hash)
  <2>1. ASSUME NEW i \in Ids, NEW status \in PatchStatuses, EditFind(e, i, status) PROVE FALSE
    <3>1. edit'[e].entity = [row[i] EXCEPT !.status = status] /\ row[i] \in Row
      BY <2>1 DEF EditFind, IInv, TypeOK
    <3>2. QED
      BY <1>3, <3>1, PatchAssumption DEF Row
  <2>2. ASSUME NEW i \in Ids, SyncFind(e, i)
        PROVE  row[j].hash /\ (edit'[e].pc = "write" => edit'[e].loaded.hash)
    <3>1. edit'[e].id = i /\ edit'[e].pc = "load" /\ row[i].hash
      BY <2>2 DEF SyncFind, IInv, TypeOK
    <3>2. QED
      BY <1>3, <3>1
  <2>3. CASE EditLoad(e)
    <3>1. /\ edit'[e].id = edit[e].id /\ edit'[e].entity = edit[e].entity
          /\ edit'[e].loaded = row[edit[e].id] /\ edit[e].pc = "load"
      BY <2>3 DEF EditLoad, IInv, TypeOK, Edit
    <3>2. row[j].hash
      BY <1>3, <3>1 DEF Told, RowTold
    <3>3. QED
      BY <1>3, <3>1, <3>2
  <2>4. CASE EditFails(e)
    BY <1>3, <2>4 DEF EditFails, IInv, TypeOK, Edit
  <2>5. QED
    BY <2>1, <2>2, <2>3, <2>4
<1>4. ASSUME NEW j \in Ids PROVE CallTold(j)' /\ (j \notin touched' => RowTold(j)')
  <2>1. CallTold(j)'
    BY <1>1 DEF Told, CallTold
  <2>2. ASSUME j \notin touched PROVE RowTold(j)'
    <3>1. \A d \in Editors :
             edit'[d].pc # "idle" /\ edit'[d].id = j /\ edit'[d].entity.status = "CONFIRMED" =>
                row[j].hash /\ (edit'[d].pc = "write" => edit'[d].loaded.hash)
      <4> SUFFICES ASSUME NEW d \in Editors, edit'[d].pc # "idle", edit'[d].id = j,
                          edit'[d].entity.status = "CONFIRMED"
                   PROVE  row[j].hash /\ (edit'[d].pc = "write" => edit'[d].loaded.hash)
        OBVIOUS
      <4>1. CASE d = e
        BY <1>3, <2>2, <4>1
      <4>2. CASE d # e
        <5>1. RowTold(j) /\ edit'[d] = edit[d]
          BY <1>2, <2>2, <4>2 DEF Told
        <5>2. QED
          BY <5>1 DEF RowTold
      <4>3. QED
        BY <4>1, <4>2
    <3>2. QED
      BY <1>1, <2>2, <3>1 DEF Told, RowTold
  <2>3. QED
    BY <1>1, <2>1, <2>2
<1>5. QED
  BY <1>4 DEF Told

(* The sync may confirm a failed row, with its hash, and leaves another as it is. *)
LEMMA WriteTold ==
    ASSUME IInv, Told, NEW e \in Editors, EditWrite(e)
    PROVE  Told'
<1>0. PICK i \in Ids : edit[e].id = i
  BY DEF IInv, TypeOK, Edit
<1> DEFINE e0 == edit[e].entity
           l0 == edit[e].loaded
<1>1. /\ UNCHANGED <<call, announced>> /\ edit[e].pc = "write"
      /\ \A j \in Ids \ {i} : row'[j] = row[j]
      /\ row'[i] = Saved(row[i], l0, e0)
      /\ touched' = IF e0.status \in PatchStatuses THEN touched \cup {i} ELSE touched
  BY <1>0 DEF EditWrite, IInv, TypeOK, Edit
<1>2. \A d \in Editors : /\ edit'[d].id = edit[d].id /\ edit'[d].entity = edit[d].entity
                         /\ edit'[d].loaded = edit[d].loaded
                         /\ edit'[d].pc # "idle" => edit'[d].pc = edit[d].pc
  BY DEF EditWrite, IInv, TypeOK, Edit
<1>3. ASSUME NEW j \in Ids PROVE CallTold(j)'
  BY <1>1 DEF Told, CallTold
<1>4. ASSUME NEW j \in Ids \ {i}, j \notin touched' PROVE RowTold(j)'
  <2>1. RowTold(j) /\ row'[j] = row[j] /\ call'[j] = call[j]
    BY <1>1, <1>4 DEF Told
  <2>2. QED
    BY <1>1, <1>2, <2>1 DEF RowTold
<1>5. ASSUME i \notin touched' PROVE RowTold(i)'
  <2>1. /\ i \notin touched /\ e0.status \notin PatchStatuses /\ RowTold(i) /\ CallTold(i)
    BY <1>1, <1>5 DEF Told
  <2>2. e0.status = "CONFIRMED" /\ e0.hash /\ CallInv(i) /\ call[i] \in Call
    BY <1>0, <1>1, <2>1 DEF IInv, Agreement, EditInv, EditEntity, TypeOK
  <2>3. row[i].hash /\ l0.hash
    BY <1>0, <1>1, <2>1, <2>2 DEF RowTold
  <2>4. /\ row[i] \in Row /\ l0 \in Row /\ e0 \in Row /\ row[i] # Absent /\ l0 # Absent
    BY <1>0, <1>1, <2>3 DEF IInv, TypeOK, Edit, Absent
  <2>5. /\ row'[i].status \in {row[i].status, "CONFIRMED"}
        /\ row'[i].hash = TRUE
        /\ row'[i].error \in {row[i].error, e0.error}
        /\ row'[i] \in Row
    <3>1. row'[i] = [status |-> SavedColumn(row[i].status, l0.status, e0.status),
                     hash |-> SavedColumn(row[i].hash, l0.hash, e0.hash),
                     error |-> SavedColumn(row[i].error, l0.error, e0.error)]
      BY <1>1, <2>4 DEF Saved
    <3>2. row[i].hash = TRUE /\ l0.hash = TRUE /\ e0.hash = TRUE
      BY <2>2, <2>3, <2>4 DEF Row
    <3>3. /\ SavedColumn(row[i].status, l0.status, e0.status) \in {row[i].status, "CONFIRMED"}
          /\ SavedColumn(row[i].hash, l0.hash, e0.hash) = TRUE
          /\ SavedColumn(row[i].error, l0.error, e0.error) \in {row[i].error, e0.error}
      BY <2>2, <3>2 DEF SavedColumn
    <3>4. row'[i] \in Row \cup {Absent}
      BY <1>1, <2>4, SavedType
    <3>5. row'[i].hash = TRUE
      BY <3>1, <3>3
    <3>6. QED
      BY <3>1, <3>3, <3>4, <3>5 DEF Absent
  <2>6. ~HashUnwritten(call[i])
    BY <1>0, <2>2 DEF CallInv, NoHash
  <2>7. call[i].pc # "none" => call[i].entity.hash
    BY <2>6 DEF HashUnwritten
  \* Where the row is confirmed and has no error, it stays so.
  <2>8. ASSUME row[i] = Confirmed, ErrorUnwritten(call[i]) PROVE row'[i] = Confirmed
    <3>1. ~row[i].error /\ ~e0.error
      BY <1>0, <2>2, <2>8 DEF CallInv, NoError
    <3>2. row[i].status = "CONFIRMED"
      BY <2>8 DEF Confirmed
    <3>3. row[i].error = FALSE /\ e0.error = FALSE
      BY <2>4, <3>1 DEF Row
    <3>4. row'[i].status = "CONFIRMED" /\ row'[i].error = FALSE /\ row'[i].hash = TRUE
      BY <2>5, <3>2, <3>3
    <3>5. QED
      BY <2>5, <3>4, RowFields DEF Confirmed
  <2>9. row[i].hash /\ ~Absent.hash /\ ~Pending(FALSE).hash
    BY <2>3 DEF Absent, Pending
  <2>10. call[i].pc \in {"announceConfirmed", "failLoad", "failWrite"} => ErrorUnwritten(call[i])
    BY <2>2 DEF CallInv, Holds, ErrorUnwritten, Confirmed
  <2>11. /\ call[i].pc \notin {"idle", "create", "announceCreated", "send", "confirmLoad", "confirmWrite"}
         /\ call[i].pc \in {"failLoad", "failWrite"} => row[i] = Confirmed
    BY <2>1, <2>9 DEF RowTold
  <2>12. call[i].response = "201" => ErrorUnwritten(call[i])
    BY <2>1 DEF CallTold, ErrorUnwritten
  <2>13. "failed" \in announced[i] \/ call[i].pc = "announceFailed" => call[i].pc # "none"
    BY <2>1 DEF CallTold
  <2>14. ASSUME call[i].pc = "announceConfirmed" \/ call[i].response = "201" PROVE row'[i] = Confirmed
    BY <2>1, <2>8, <2>10, <2>12, <2>14 DEF RowTold
  <2>15. ASSUME call[i].pc \in {"failLoad", "failWrite"}
         PROVE  row'[i] = Confirmed /\ row[i] = Confirmed /\ call[i].entity.hash
    BY <2>8, <2>10, <2>11, <2>7, <2>15
  <2>16. ASSUME call[i].pc = "announceFailed" \/ "failed" \in announced[i]
         PROVE  row'[i].status = "FAILED" \/ (row'[i].status = "CONFIRMED" /\ call[i].entity.hash)
    BY <2>1, <2>5, <2>7, <2>13, <2>16 DEF RowTold
  <2>17. "confirmed" \in announced[i] => row'[i].status # "PENDING"
    BY <2>1, <2>5 DEF RowTold
  <2>18. \A d \in Editors :
            edit'[d].pc # "idle" /\ edit'[d].id = i /\ edit'[d].entity.status = "CONFIRMED" =>
               row'[i].hash /\ (edit'[d].pc = "write" => edit'[d].loaded.hash)
    BY <1>2, <2>1, <2>5 DEF RowTold
  <2>19. call[i].pc = "failWrite" => call[i].loaded = row'[i]
    BY <2>1, <2>15 DEF RowTold
  <2>20. row'[i].hash /\ call' = call /\ announced' = announced
    BY <1>1, <2>5
  <2>21. QED
    BY <2>11, <2>14, <2>15, <2>16, <2>17, <2>18, <2>19, <2>20 DEF RowTold
<1>6. ASSUME NEW j \in Ids PROVE CallTold(j)' /\ (j \notin touched' => RowTold(j)')
  <2>1. CASE j = i
    BY <1>3, <1>5, <2>1
  <2>2. CASE j # i
    BY <1>3, <1>4, <2>2
  <2>3. QED
    BY <2>1, <2>2
<1>7. QED
  BY <1>6 DEF Told

LEMMA ToldNext == IInv /\ Told /\ [Next]_vars => Told'
<1> SUFFICES ASSUME IInv, Told, [Next]_vars PROVE Told'
  OBVIOUS
<1>t. TypeOK
  BY DEF IInv
<1>1. ASSUME NEW i \in Ids, TransferStep(i) PROVE Told'
  BY <1>1, TransferTold
<1>2. ASSUME NEW i \in Ids, CreateRecord(i) \/ SyncInsert(i) PROVE Told'
  <2>1. /\ call[i].pc = "idle" /\ Goto(i, "none") /\ UNCHANGED <<announced, touched, edit>>
        /\ \A j \in Ids \ {i} : row'[j] = row[j]
        /\ row'[i].hash
    BY <1>2, <1>t DEF CreateRecord, SyncInsert, TypeOK, Pending
  <2>2. CallTold(i)' /\ (i \notin touched' => RowTold(i)')
    <3>1. call'[i].pc = "none" /\ call'[i].response = call[i].response
      BY <1>t, <2>1, GotoFields
    <3>2. CallTold(i)'
      BY <2>1, <3>1 DEF Told, CallTold
    <3>3. call[i].response = "" /\ announced[i] = {}
      BY <2>1 DEF Told, CallTold
    <3>4. i \notin touched => RowTold(i)'
      BY <2>1, <3>1, <3>3 DEF Told, RowTold
    <3>5. QED
      BY <2>1, <3>2, <3>4
  <2>3. \A j \in Ids \ {i} : CallTold(j)' /\ (j \notin touched' => RowTold(j)')
    BY <1>t, <2>1, GotoFields, ToldKept
  <2>4. QED
    BY <2>2, <2>3 DEF Told
<1>3. ASSUME NEW i \in Ids, Remove(i) \/ SentElsewhere(i) PROVE Told'
  <2>1. /\ UNCHANGED <<call, announced, edit>> /\ touched \subseteq touched'
        /\ \A j \in Ids : j \in touched' \/ row'[j] = row[j]
    BY <1>3, <1>t DEF Remove, SentElsewhere, TypeOK
  <2>2. QED
    BY <2>1, ToldKept DEF Told
<1>4. ASSUME NEW e \in Editors, EditStep(e) PROVE Told'
  <2>1. CASE EditWrite(e)
    BY <2>1, WriteTold
  <2>2. CASE ~EditWrite(e)
    BY <1>4, <2>2, EditTold DEF EditStep
  <2>3. QED
    BY <2>1, <2>2
<1>5. CASE UNCHANGED vars
  BY <1>5, ToldKept DEF vars, Told
<1>6. QED
  BY <1>1, <1>2, <1>3, <1>4, <1>5 DEF Next

LEMMA ToldHolds == Spec => [](IInv /\ Told)
<1>1. Init => Told
  <2> SUFFICES ASSUME Init, NEW i \in Ids PROVE CallTold(i) /\ RowTold(i)
    BY DEF Told
  <2>1. /\ call[i].pc = "idle" /\ call[i].response = "" /\ row[i] = Absent /\ announced[i] = {}
    BY DEF Init
  <2>2. Absent.status # "CONFIRMED"
    BY DEF Absent
  <2>3. ASSUME NEW e \in Editors PROVE edit[e].pc = "idle"
    <3>1. edit[e] \in {[pc |-> "idle", id |-> j, entity |-> Pending(FALSE), loaded |-> Absent] : j \in Ids}
      BY DEF Init
    <3>2. PICK j \in Ids : edit[e] = [pc |-> "idle", id |-> j, entity |-> Pending(FALSE), loaded |-> Absent]
      BY <3>1
    <3>3. QED
      BY <3>2
  <2>4. QED
    BY <2>1, <2>2, <2>3 DEF CallTold, RowTold
<1>2. QED
  BY <1>1, IInvHolds, ToldNext, PTL DEF Spec

LEMMA ToldSays == Told => ToldIsStored
<1> SUFFICES ASSUME Told PROVE SuccessIsStored /\ EventsFollowRow
  BY DEF ToldIsStored
<1>1. SuccessIsStored
  BY DEF Told, CallTold, RowTold, SuccessIsStored, Confirmed
<1>2. EventsFollowRow
  BY DEF Told, RowTold, EventsFollowRow
<1>3. QED
  BY <1>1, <1>2

(* A CONFIRMED row is one whose transfer was received, with its hash if no patch   *)
(* wrote to it, and an error on it is its call's; a FAILED row has its error.      *)
THEOREM ColumnsAgreeHolds == Spec => []ColumnsAgree
<1>1. IInv /\ Told => ColumnsAgree
  <2> SUFFICES ASSUME IInv, Told, NEW i \in Ids
               PROVE  /\ row[i].status = "CONFIRMED" =>
                           /\ i \in submitted
                           /\ row[i].hash \/ i \in touched
                           /\ row[i].error => call[i].entity.status = "FAILED" /\ call[i].entity.hash
                      /\ row[i].status = "FAILED" => row[i].error
    BY DEF ColumnsAgree
  <2>1. CallInv(i) /\ RowInv(i) /\ (i \notin touched => RowTold(i))
    BY DEF IInv, Agreement, Told
  <2>2. ASSUME row[i].status = "CONFIRMED" PROVE row[i].hash \/ i \in touched
    BY <2>1, <2>2 DEF RowTold, RowInv
  <2>3. ASSUME row[i].status = "CONFIRMED", row[i].error
        PROVE  call[i].entity.status = "FAILED" /\ call[i].entity.hash
    <3>1. call[i].entity.status = "FAILED"
      BY <2>1, <2>3 DEF CallInv, NoError, ErrorUnwritten
    <3>2. call[i].pc # "none"
      BY <2>1, <3>1 DEF CallInv, Holds, Pending
    <3>3. QED
      BY <2>1, <2>3, <3>1, <3>2 DEF RowInv, HashUnwritten
  <2>4. QED
    BY <2>1, <2>2, <2>3 DEF RowInv
<1>2. QED
  BY <1>1, ToldHolds, PTL

(* The sender is told of success only when the confirmed transfer is stored and  *)
(* announced, and what the subscribers are told is what the row went through,    *)
(* for every transaction that no patch or removal wrote to, whatever fails or    *)
(* stops.                                                                        *)
THEOREM ToldIsStoredHolds == Spec => []ToldIsStored
BY ToldHolds, ToldSays, PTL

--------------------------------------------------------------------------------
(***************************************************************************)
(* TokenSync: type correctness.  A run synchronizes no further than the    *)
(* head, and saves the row of one event at a time.                         *)
(***************************************************************************)
\* A run awaits the save of its event's row.
Saves == {"insert", "update", "restore"}

RunsConsistent ==
    \A r \in Runs :
       /\ run[r].to <= head
       /\ run[r].pc = "idle" => run[r] = Idle
       /\ run[r].pc \notin Saves => run[r].event = {}
       /\ run[r].pc \in Saves => \E t \in Transfers : run[r].event = {t}

SyncTyped == SyncTypeOK /\ RunsConsistent

RowsTyped == own \in [Transfers -> Nat] /\ others \in [Transfers -> Nat]

(***************************************************************************)
(* Nothing is passed over: what a run has passed, of the blocks it is to   *)
(* synchronize, has its row or was left out by name; and a run fetches     *)
(* from a block before which that is true of every transfer.               *)
(***************************************************************************)
Passed(r, t) ==
    \/ TokenOf[t] < run[r].token
    \/ TokenOf[t] = run[r].token /\ run[r].pc \in {"loop"} \cup Saves
       /\ t \notin run[r].todo \cup run[r].event

RunsRecord ==
    \A r \in Runs : run[r].pc # "idle" =>
       \A t \in Transfers : block[t] \in 1..run[r].to /\ Passed(r, t) => Recorded(t)

\* What a run has found is recorded as long as it is in the run's hands.
FoundRecorded ==
    \A r \in Runs : run[r].pc \in {"update", "restore"} =>
       \A t \in run[r].event : Recorded(t)

(***************************************************************************)
(* One insert per run: the rows that the runs inserted, and those they are *)
(* about to, are no more than the runs, for a run looks for a row before   *)
(* and there is one of the runs' own then, or it was deleted.              *)
(***************************************************************************)
InsertsBounded ==
    \A t \in Transfers :
       own[t] + Cardinality(Waiting("insert", t)) <= Cardinality(Runs)

(* A run's next record; the others stay as they are.                                *)
LEMMA RunReplaced ==
    ASSUME SyncTyped, NEW r \in Runs, NEW new \in Run, run' = [run EXCEPT ![r] = new],
           UNCHANGED head, new.to <= head, new.pc = "idle" => new = Idle,
           new.pc \notin Saves => new.event = {},
           new.pc \in Saves => \E t \in Transfers : new.event = {t}
    PROVE  run' \in [Runs -> Run] /\ RunsConsistent'
<1>1. run \in [Runs -> Run] /\ RunsConsistent
  BY DEF SyncTyped, SyncTypeOK
<1>2. run' \in [Runs -> Run] /\ \A q \in Runs : run'[q] = IF q = r THEN new ELSE run[q]
  BY <1>1
<1>3. RunsConsistent'
  BY <1>1, <1>2 DEF RunsConsistent
<1>4. QED
  BY <1>2, <1>3

LEMMA IdleRun == Idle \in Run /\ Idle.pc = "idle" /\ Idle.to = 0 /\ Idle.token = 1
                 /\ Idle.todo = {} /\ Idle.event = {}
BY BoundsAssumption DEF Idle, Run, Numbers

LEMMA SyncTypedInit == SyncInit => SyncTyped
<1> SUFFICES ASSUME SyncInit PROVE SyncTyped
  OBVIOUS
<1>1. head \in Numbers /\ block \in [Transfers -> Numbers] /\ RowsTyped
      /\ known \subseteq Transfers /\ lastSyncedBlock \in 0..head
  BY BoundsAssumption DEF SyncInit, Numbers, RowsTyped
<1>2. run \in [Runs -> Run] /\ \A r \in Runs : run[r] = Idle
  BY IdleRun DEF SyncInit
<1>3. head = 0 /\ restarts \in 0..MaxRestarts /\ dropped = {}
  BY BoundsAssumption DEF SyncInit
<1>4. RunsConsistent
  BY <1>2, <1>3, IdleRun DEF RunsConsistent, Saves
<1>5. QED
  BY <1>1, <1>2, <1>3, <1>4 DEF SyncTyped, SyncTypeOK, RowsTyped

LEMMA SyncTypedNext ==
    ASSUME SyncTyped, [SyncNext]_syncVars
    PROVE  SyncTyped'
<1>t. /\ head \in 0..MaxBlock /\ block \in [Transfers -> Numbers] /\ known \subseteq Transfers
      /\ RowsTyped /\ lastSyncedBlock \in 0..head /\ run \in [Runs -> Run]
      /\ restarts \in 0..MaxRestarts /\ dropped \subseteq Transfers
      /\ RunsConsistent
  BY DEF SyncTyped, SyncTypeOK, Numbers, RowsTyped
<1>u. ASSUME UNCHANGED rowVars PROVE RowsTyped'
  BY <1>u, <1>t DEF rowVars, RowsTyped
<1>b. MaxBlock \in Nat /\ MaxRestarts \in Nat /\ Window \in Nat
  BY BoundsAssumption
\* Steps that leave the runs alone.
<1>s. ASSUME UNCHANGED <<run, restarts, lastSyncedBlock>>, head' \in Numbers, head <= head',
             block' \in [Transfers -> Numbers], RowsTyped',
             known' \subseteq Transfers, dropped' \subseteq Transfers
      PROVE  SyncTyped'
  <2>1. lastSyncedBlock' \in 0..head'
    BY <1>s, <1>t, <1>b DEF Numbers
  <2>2. ASSUME NEW r \in Runs PROVE run[r].to <= head'
    BY <1>s, <1>t, <1>b DEF RunsConsistent, Numbers, Run
  <2>3. RunsConsistent'
    BY <1>s, <1>t, <2>2 DEF RunsConsistent
  <2>4. QED
    BY <1>s, <1>t, <2>1, <2>3 DEF SyncTyped, SyncTypeOK, RowsTyped
\* Steps of a run.
<1>r. ASSUME NEW r \in Runs, NEW new \in Run, run' = [run EXCEPT ![r] = new],
             new.to <= head, new.pc = "idle" => new = Idle,
             new.pc \notin Saves => new.event = {},
             new.pc \in Saves => \E t \in Transfers : new.event = {t},
             UNCHANGED <<chainVars, restarts>>, lastSyncedBlock' \in 0..head,
             RowsTyped', dropped' \subseteq Transfers
      PROVE  SyncTyped'
  <2>1. UNCHANGED <<head, block, known>>
    BY <1>r DEF chainVars
  <2>2. run' \in [Runs -> Run] /\ RunsConsistent'
    BY <1>r, <2>1, RunReplaced
  <2>3. QED
    BY <1>r, <1>t, <2>1, <2>2 DEF SyncTyped, SyncTypeOK, Numbers, RowsTyped
<1>1. ASSUME NEW S \in SUBSET {t \in Transfers : block[t] = 0}, Mine(S)
      PROVE  SyncTyped'
  <2>1. head' = head + 1 /\ head' \in Numbers
    BY <1>1, <1>t, <1>b DEF Mine, Numbers
  <2>2. block' \in [Transfers -> Numbers]
    BY <1>1, <1>t, <2>1 DEF Mine
  <2>3. head <= head'
    BY <1>t, <2>1
  <2>4. QED
    BY <1>1, <1>s, <1>t, <1>u, <2>1, <2>2, <2>3 DEF Mine
<1>2. ASSUME NEW t \in Transfers, ConnectWallets(t)
      PROVE  SyncTyped'
  BY <1>2, <1>s, <1>t, <1>u DEF ConnectWallets, Numbers
<1>3. ASSUME NEW t \in Transfers, ConfirmTransfer(t) \/ PostRow(t)
      PROVE  SyncTyped'
  <2>1. RowsTyped'
    BY <1>3, <1>t DEF ConfirmTransfer, PostRow, RowsTyped
  <2>2. UNCHANGED <<head, block, known, lastSyncedBlock, run, restarts, dropped>>
    BY <1>3, <1>t DEF ConfirmTransfer, PostRow, chainVars
  <2>3. QED
    BY <1>s, <1>t, <2>1, <2>2 DEF Numbers
<1>d. ASSUME NEW t \in Transfers, TakeRow(t)
      PROVE  RowsTyped'
  BY <1>d, <1>t DEF TakeRow, RowsTyped
<1>17. ASSUME NEW t \in Transfers, DeleteRow(t)
       PROVE  SyncTyped'
  <2>1. UNCHANGED <<head, block, known, lastSyncedBlock, run, restarts>> /\ dropped' \subseteq Transfers
    BY <1>17, <1>t DEF DeleteRow, chainVars
  <2>2. RowsTyped'
    BY <1>17, <1>d DEF DeleteRow
  <2>3. QED
    BY <1>s, <1>t, <2>1, <2>2 DEF Numbers
<1>18. ASSUME NEW t \in Transfers, NEW r \in Runs, DeleteFoundRow(t, r)
       PROVE  SyncTyped'
  <2> DEFINE new == [run[r] EXCEPT !.pc = "restore"]
  <2>1. /\ run' = [run EXCEPT ![r] = new] /\ dropped' \subseteq Transfers
        /\ UNCHANGED <<chainVars, lastSyncedBlock, restarts>>
    BY <1>18, <1>t DEF DeleteFoundRow
  <2>2. run[r].to <= head /\ run[r].event = {t}
    BY <1>18, <1>t DEF RunsConsistent, DeleteFoundRow, Waiting
  <2>3. new \in Run /\ new.to = run[r].to /\ new.pc = "restore" /\ new.event = {t}
    BY <1>t, <2>2 DEF Run
  <2>4. RowsTyped'
    BY <1>18, <1>d DEF DeleteFoundRow
  <2> HIDE DEF new
  <2>5. QED
    BY <1>r, <1>t, <2>1, <2>2, <2>3, <2>4 DEF Saves
<1>4. ASSUME NEW r \in Runs, Start(r)
      PROVE  SyncTyped'
  <2> DEFINE new == [run[r] EXCEPT !.pc = "events", !.to = head]
             from == IF lastSyncedBlock = 0 THEN Later(head, Window) ELSE lastSyncedBlock
  <2>1. run' = [run EXCEPT ![r] = new]
    BY <1>4, <1>t DEF Start
  <2>2. run[r].event = {}
    BY <1>4, <1>t DEF Start, RunsConsistent, Saves
  <2>3. new \in Run /\ new.to = head /\ new.pc = "events" /\ new.event = {}
    BY <1>t, <2>2 DEF Run, Numbers
  <2>4. from \in 0..head
    BY <1>t, <1>b DEF Later
  <2>5. /\ lastSyncedBlock' = from /\ dropped' \subseteq Transfers
        /\ UNCHANGED <<chainVars, rowVars, restarts>>
    BY <1>4, <1>t DEF Start
  <2>6. head <= head
    BY <1>t
  <2> HIDE DEF new, from
  <2>7. QED
    BY <1>r, <1>t, <1>u, <2>1, <2>3, <2>4, <2>5, <2>6 DEF Saves
<1>5. ASSUME NEW r \in Runs, FetchEvents(r)
      PROVE  SyncTyped'
  <2>1. PICK chunk \in SUBSET Events(r) :
          /\ run' = [run EXCEPT ![r].pc = "loop", ![r].todo = chunk]
          /\ dropped' = dropped \cup {t \in Events(r) \ chunk : Rows(t) = 0}
    BY <1>5 DEF FetchEvents
  <2> DEFINE new == [run[r] EXCEPT !.pc = "loop", !.todo = chunk]
  <2>2. run' = [run EXCEPT ![r] = new]
    BY <1>t, <2>1
  <2>3. Events(r) \subseteq Transfers
    BY DEF Events
  <2>4. run[r].to <= head /\ run[r].event = {}
    BY <1>5, <1>t DEF FetchEvents, RunsConsistent, Saves
  <2>5. new \in Run /\ new.to = run[r].to /\ new.pc = "loop" /\ new.event = {}
    BY <1>t, <2>3, <2>4 DEF Run
  <2>6. UNCHANGED <<chainVars, rowVars, lastSyncedBlock, restarts>>
    BY <1>5 DEF FetchEvents
  <2>7. dropped' \subseteq Transfers
    BY <1>t, <2>1, <2>3
  <2> HIDE DEF new
  <2>8. QED
    BY <1>r, <1>t, <1>u, <2>2, <2>4, <2>5, <2>6, <2>7 DEF Saves
<1>6. ASSUME NEW r \in Runs, NEW t \in Transfers, run[r].pc = "loop",
             run' = [run EXCEPT ![r].todo = @ \ {t}],
             UNCHANGED <<chainVars, rowVars, lastSyncedBlock, restarts>>,
             dropped' \subseteq Transfers
      PROVE  SyncTyped'
  <2> DEFINE new == [run[r] EXCEPT !.todo = @ \ {t}]
  <2>1. run' = [run EXCEPT ![r] = new]
    BY <1>t, <1>6
  <2>2. run[r].to <= head /\ run[r].event = {}
    BY <1>6, <1>t DEF RunsConsistent, Saves
  <2>3. new \in Run /\ new.to = run[r].to /\ new.pc = "loop" /\ new.event = {}
    BY <1>t, <1>6, <2>2 DEF Run
  <2> HIDE DEF new
  <2>4. QED
    BY <1>r, <1>t, <1>u, <1>6, <2>1, <2>2, <2>3 DEF Saves
<1>7. ASSUME NEW r \in Runs, NEW t \in Transfers, FindRow(r, t) \/ FindNoRow(r, t)
      PROVE  SyncTyped'
  <2>1. PICK pc \in {"insert", "update"} :
           run' = [run EXCEPT ![r].pc = pc, ![r].event = {t}, ![r].todo = @ \ {t}]
    BY <1>7 DEF FindRow, FindNoRow
  <2> DEFINE new == [run[r] EXCEPT !.pc = pc, !.event = {t}, !.todo = @ \ {t}]
  <2>2. run' = [run EXCEPT ![r] = new]
    BY <1>t, <2>1
  <2>3. run[r].to <= head
    BY <1>t DEF RunsConsistent
  <2>4. new \in Run /\ new.to = run[r].to /\ new.pc = pc /\ new.event = {t}
    BY <1>t DEF Run
  <2>5. UNCHANGED <<chainVars, rowVars, lastSyncedBlock, restarts, dropped>>
    BY <1>7, <1>t DEF FindRow, FindNoRow
  <2> HIDE DEF new
  <2>6. QED
    BY <1>r, <1>t, <1>u, <2>2, <2>3, <2>4, <2>5 DEF Saves
<1>8. ASSUME NEW r \in Runs, Continue(r),
             UNCHANGED <<chainVars, lastSyncedBlock, restarts>>,
             RowsTyped', dropped' \subseteq Transfers
      PROVE  SyncTyped'
  <2> DEFINE new == [run[r] EXCEPT !.pc = "loop", !.event = {}]
  <2>1. run' = [run EXCEPT ![r] = new]
    BY <1>t, <1>8 DEF Continue
  <2>2. run[r].to <= head
    BY <1>t DEF RunsConsistent
  <2>3. new \in Run /\ new.to = run[r].to /\ new.pc = "loop" /\ new.event = {}
    BY <1>t DEF Run
  <2> HIDE DEF new
  <2>4. QED
    BY <1>r, <1>t, <1>8, <2>1, <2>2, <2>3 DEF Saves
<1>9. ASSUME NEW r \in Runs, UpdateRow(r) \/ RestoreRow(r) \/ InsertRow(r)
      PROVE  SyncTyped'
  <2>1. RowsTyped'
    BY <1>9, <1>t, <1>u DEF UpdateRow, RestoreRow, InsertRow, RowsTyped
  <2>2. Continue(r) /\ UNCHANGED <<chainVars, lastSyncedBlock, restarts, dropped>>
    BY <1>9 DEF UpdateRow, RestoreRow, InsertRow
  <2>3. QED
    BY <1>8, <1>t, <2>1, <2>2
<1>10. ASSUME NEW r \in Runs, EventFails(r)
       PROVE  SyncTyped'
  <2>1. CASE run[r].pc # "loop"
    <3>1. run[r].event \subseteq Transfers
      BY <1>t DEF Run
    <3>2. /\ Continue(r) /\ dropped' \subseteq Transfers
          /\ UNCHANGED <<chainVars, rowVars, lastSyncedBlock, restarts>>
      BY <1>10, <1>t, <2>1, <3>1 DEF EventFails
    <3>3. QED
      BY <1>8, <1>u, <3>2
  <2>2. CASE run[r].pc = "loop"
    <3>1. PICK t \in run[r].todo : /\ run' = [run EXCEPT ![r].todo = @ \ {t}]
                                   /\ dropped' = dropped \cup {t}
      BY <1>10, <2>2 DEF EventFails
    <3>2. t \in Transfers
      BY <1>t DEF Run
    <3>3. UNCHANGED <<chainVars, rowVars, lastSyncedBlock, restarts>>
      BY <1>10, <2>2 DEF EventFails
    <3>4. QED
      BY <1>6, <1>t, <2>2, <3>1, <3>2, <3>3
  <2>3. QED
    BY <1>10, <2>1, <2>2 DEF EventFails
<1>11. ASSUME NEW r \in Runs, NextToken(r)
       PROVE  SyncTyped'
  <2> DEFINE new == [run[r] EXCEPT !.pc = "events", !.token = 2]
  <2>1. run' = [run EXCEPT ![r] = new]
    BY <1>t, <1>11 DEF NextToken
  <2>2. run[r].to <= head /\ run[r].event = {}
    BY <1>11, <1>t DEF NextToken, RunsConsistent, Saves
  <2>t. 2 \in 1..2
    OBVIOUS
  <2>3. new \in Run /\ new.to = run[r].to /\ new.pc = "events" /\ new.event = {}
    BY <1>t, <2>2, <2>t DEF Run
  <2>4. UNCHANGED <<chainVars, rowVars, lastSyncedBlock, restarts, dropped>>
    BY <1>11 DEF NextToken
  <2> HIDE DEF new
  <2>5. QED
    BY <1>r, <1>t, <1>u, <2>1, <2>2, <2>3, <2>4 DEF Saves
<1>12. ASSUME NEW r \in Runs, Finish(r) \/ FetchFails(r)
       PROVE  SyncTyped'
  <2>1. run[r].to \in 0..head
    BY <1>t, <1>b DEF RunsConsistent, Run, Numbers
  <2>2. /\ run' = [run EXCEPT ![r] = Idle] /\ lastSyncedBlock' \in 0..head
        /\ UNCHANGED <<chainVars, rowVars, restarts, dropped>>
    BY <1>12, <1>t, <2>1 DEF Finish, FetchFails
  <2>3. 0 <= head
    BY <1>t
  <2>4. QED
    BY <1>r, <1>t, <1>u, <2>2, <2>3, IdleRun DEF Saves
<1>13. CASE Restart
  <2>1. /\ restarts' \in 0..MaxRestarts /\ lastSyncedBlock' = 0
        /\ run' = [r \in Runs |-> Idle]
        /\ UNCHANGED <<head, block, known, rowVars, dropped>>
    BY <1>13, <1>t, <1>b DEF Restart, chainVars
  <2>2. run' \in [Runs -> Run] /\ \A r \in Runs : run'[r] = Idle
    BY <2>1, IdleRun
  <2>3. RunsConsistent'
    BY <1>t, <2>1, <2>2, IdleRun DEF RunsConsistent, Saves
  <2>4. lastSyncedBlock' \in 0..head'
    BY <1>t, <2>1
  <2>5. QED
    BY <1>t, <1>u, <2>1, <2>2, <2>3, <2>4 DEF SyncTyped, SyncTypeOK, Numbers, RowsTyped
<1>14. CASE UNCHANGED syncVars
  BY <1>14, <1>t, <1>s, <1>u DEF syncVars, rowVars, Numbers
<1>15. ASSUME NEW r \in Runs, NEW t \in Transfers, Skip(r, t)
       PROVE  SyncTyped'
  BY <1>6, <1>15, <1>t DEF Skip
<1>16. QED
  BY <1>1, <1>2, <1>3, <1>4, <1>5, <1>7, <1>9, <1>10, <1>11, <1>12, <1>13, <1>14, <1>15, <1>17,
     <1>18
     DEF SyncNext, Proceed

(***************************************************************************)
(* TokenSync: no block is skipped.                                         *)
(***************************************************************************)
(* What is recorded stays so: a row is deleted by name.                             *)
LEMMA RecordedKept ==
    ASSUME SyncTyped, SyncTyped', [SyncNext]_syncVars, NEW t \in Transfers, Recorded(t)
    PROVE  Recorded(t)'
<1>t. /\ own[t] \in Nat /\ others[t] \in Nat /\ own'[t] \in Nat /\ others'[t] \in Nat
      /\ own \in [Transfers -> Nat] /\ others \in [Transfers -> Nat]
  BY DEF SyncTyped, SyncTypeOK
<1>1. ASSUME Rows(t)' >= Rows(t), dropped \subseteq dropped'
      PROVE  Recorded(t)'
  BY <1>1, <1>t DEF Recorded, Rows
<1>2. ASSUME UNCHANGED rowVars, dropped \subseteq dropped'
      PROVE  Recorded(t)'
  <2>1. Rows(t)' = Rows(t) /\ Rows(t) \in Nat
    BY <1>2, <1>t DEF rowVars, Rows
  <2>2. QED
    BY <1>1, <1>2, <2>1
<1>3. ASSUME UNCHANGED dropped, \A u \in Transfers : own'[u] >= own[u] /\ others'[u] >= others[u]
      PROVE  Recorded(t)'
  <2>1. Rows(t)' >= Rows(t)
    BY <1>3, <1>t DEF Rows
  <2>2. QED
    BY <1>1, <1>3, <2>1
<1>4. ASSUME NEW u \in Transfers, TakeRow(u),
             dropped' = IF Rows(u) = 1 THEN dropped \cup {u} ELSE dropped
      PROVE  Recorded(t)'
  <2>1. CASE u # t
    <3>1. own'[t] = own[t] /\ others'[t] = others[t]
      BY <1>4, <1>t, <2>1 DEF TakeRow
    <3>2. QED
      BY <1>1, <1>4, <1>t, <3>1 DEF Rows
  <2>2. CASE u = t /\ Rows(t) = 1
    BY <1>4, <2>2 DEF Recorded
  <2>3. CASE u = t /\ Rows(t) # 1
    <3>1. Rows(t)' = Rows(t) - 1 /\ Rows(t) > 0
      BY <1>4, <1>t, <2>3 DEF TakeRow, Rows
    <3>2. Rows(t)' > 0
      BY <1>t, <2>3, <3>1 DEF Rows
    <3>3. QED
      BY <3>2 DEF Recorded
  <2>4. QED
    BY <2>1, <2>2, <2>3
<1>5. CASE \E u \in Transfers : ConfirmTransfer(u) \/ PostRow(u)
  <2>1. UNCHANGED dropped /\ \A u \in Transfers : own'[u] >= own[u] /\ others'[u] >= others[u]
    <3>1. PICK u \in Transfers : ConfirmTransfer(u) \/ PostRow(u)
      BY <1>5
    <3>2. UNCHANGED <<own, dropped>> /\ others' = [others EXCEPT ![u] = @ + 1]
      BY <3>1 DEF ConfirmTransfer, PostRow
    <3>3. QED
      BY <3>2, <1>t
  <2>2. QED
    BY <2>1, <1>3
<1>6. CASE \E u \in Transfers : DeleteRow(u) \/ \E r \in Runs : DeleteFoundRow(u, r)
  BY <1>4, <1>6 DEF DeleteRow, DeleteFoundRow
<1>7. CASE \E r \in Runs : RestoreRow(r) \/ InsertRow(r)
  <2>1. PICK r \in Runs : RestoreRow(r) \/ InsertRow(r)
    BY <1>7
  <2>2. UNCHANGED dropped /\ \A u \in Transfers : own'[u] >= own[u] /\ others'[u] >= others[u]
    BY <2>1, <1>t DEF RestoreRow, InsertRow
  <2>3. QED
    BY <2>2, <1>3
<1>8. CASE UNCHANGED rowVars /\ dropped \subseteq dropped'
  BY <1>2, <1>8
<1>9. ASSUME NEW r \in Runs, Start(r) \/ FetchFails(r) \/ EventFails(r) \/ FetchEvents(r)
                               \/ UpdateRow(r) \/ NextToken(r) \/ Finish(r)
      PROVE  UNCHANGED rowVars /\ dropped \subseteq dropped'
  BY <1>9 DEF Start, FetchFails, EventFails, FetchEvents, UpdateRow, NextToken, Finish
<1>10. ASSUME NEW r \in Runs, NEW u \in Transfers, Skip(r, u) \/ FindRow(r, u) \/ FindNoRow(r, u)
       PROVE  UNCHANGED rowVars /\ dropped \subseteq dropped'
  BY <1>10 DEF Skip, FindRow, FindNoRow
<1>11. ASSUME \/ \E S \in SUBSET {u \in Transfers : block[u] = 0} : Mine(S)
              \/ \E u \in Transfers : ConnectWallets(u)
              \/ Restart
              \/ UNCHANGED syncVars
       PROVE  UNCHANGED rowVars /\ dropped \subseteq dropped'
  BY <1>11 DEF Mine, ConnectWallets, Restart, syncVars, rowVars
<1>12. QED
  BY <1>5, <1>6, <1>7, <1>8, <1>9, <1>10, <1>11 DEF SyncNext, Proceed

LEMMA RunsRecordInit == SyncInit => NoBlockIsSkipped /\ RunsRecord
BY IdleRun DEF SyncInit, NoBlockIsSkipped, RunsRecord

(* A run goes on: what it has passed now, it had passed or is recorded by this step. *)
LEMMA RunsRecordGoes ==
    ASSUME SyncTyped, SyncTyped', RunsRecord, NEW r \in Runs, UNCHANGED <<chainVars>>,
           \A t \in Transfers : Recorded(t) => Recorded(t)',
           \A q \in Runs \ {r} : run'[q] = run[q],
           run'[r].pc # "idle" =>
              \A t \in Transfers : block[t] \in 1..run'[r].to /\ Passed(r, t)' => Recorded(t)'
    PROVE  RunsRecord'
<1> SUFFICES ASSUME NEW q \in Runs, run'[q].pc # "idle", NEW t \in Transfers,
                    block'[t] \in 1..run'[q].to, Passed(q, t)'
             PROVE  Recorded(t)'
  BY DEF RunsRecord
<1>1. block' = block
  BY DEF chainVars
<1>2. CASE q = r
  BY <1>1, <1>2
<1>3. CASE q # r
  <2>1. run'[q] = run[q]
    BY <1>3
  <2>2. Passed(q, t)
    BY <2>1 DEF Passed
  <2>3. Recorded(t)
    BY <1>1, <2>1, <2>2 DEF RunsRecord
  <2>4. QED
    BY <2>3
<1>4. QED
  BY <1>2, <1>3

LEMMA RunsRecordNext ==
    ASSUME SyncTyped, SyncTyped', NoBlockIsSkipped, RunsRecord, FoundRecorded,
           [SyncNext]_syncVars
    PROVE  NoBlockIsSkipped' /\ RunsRecord'
<1>t. /\ head \in 0..MaxBlock /\ block \in [Transfers -> Numbers]
      /\ lastSyncedBlock \in 0..head /\ run \in [Runs -> Run]
      /\ RunsConsistent /\ MaxBlock \in Nat
      /\ run' \in [Runs -> Run] /\ lastSyncedBlock' \in 0..head'
      /\ own \in [Transfers -> Nat] /\ others \in [Transfers -> Nat]
  BY BoundsAssumption DEF SyncTyped, SyncTypeOK, Numbers
<1>k. TokenOf \in [Transfers -> 1..2]
  BY TokenAssumption
<1>m. \A t \in Transfers : Recorded(t) => Recorded(t)'
  BY RecordedKept
<1>n. \A t \in Transfers : Rows(t) \in Nat
  BY <1>t DEF Rows
\* A transfer that a step drops when it has no row.
<1>w. ASSUME NEW S \in SUBSET Transfers, NEW t \in S,
             dropped' = dropped \cup {u \in S : Rows(u) = 0}
      PROVE  Recorded(t)'
  <2>1. CASE Rows(t) = 0
    BY <1>w, <2>1 DEF Recorded
  <2>2. CASE Rows(t) # 0
    <3>1. Rows(t) > 0
      BY <1>n, <2>2
    <3>2. QED
      BY <1>m, <3>1 DEF Recorded
  <2>3. QED
    BY <2>1, <2>2
\* Steps that leave the runs and the chain alone.
<1>s. ASSUME UNCHANGED <<block, run, lastSyncedBlock>>
      PROVE  NoBlockIsSkipped' /\ RunsRecord'
  BY <1>m, <1>s DEF NoBlockIsSkipped, RunsRecord, Passed
\* Steps of a run that start none and end none.
<1>r. ASSUME NEW r \in Runs, UNCHANGED <<chainVars, lastSyncedBlock>>,
             \A q \in Runs \ {r} : run'[q] = run[q],
             run'[r].pc # "idle" =>
                \A t \in Transfers : block[t] \in 1..run'[r].to /\ Passed(r, t)' => Recorded(t)'
      PROVE  NoBlockIsSkipped' /\ RunsRecord'
  <2>1. NoBlockIsSkipped'
    BY <1>m, <1>r DEF NoBlockIsSkipped, chainVars
  <2>2. QED
    BY <1>m, <1>r, <2>1, RunsRecordGoes
<1>1. ASSUME NEW S \in SUBSET {t \in Transfers : block[t] = 0}, Mine(S)
      PROVE  NoBlockIsSkipped' /\ RunsRecord'
  <2>1. /\ \A t \in Transfers : block'[t] = block[t] \/ block'[t] = head + 1
        /\ UNCHANGED <<rowVars, lastSyncedBlock, run, dropped>>
    BY <1>1, <1>t DEF Mine
  <2>3. \A r \in Runs : run[r].to <= head /\ run[r].to \in Nat
    BY <1>t DEF RunsConsistent, Run, Numbers
  <2>4. NoBlockIsSkipped'
    <3>1. \A t \in Transfers : block'[t] # 0 /\ block'[t] < lastSyncedBlock =>
             block'[t] = block[t]
      BY <1>t, <2>1
    <3>2. QED
      BY <2>1, <1>m, <3>1 DEF NoBlockIsSkipped
  <2>5. RunsRecord'
    <3>1. \A t \in Transfers, r \in Runs : block'[t] \in 1..run[r].to => block'[t] = block[t]
      BY <1>t, <2>1, <2>3
    <3>2. QED
      BY <2>1, <1>m, <3>1 DEF RunsRecord, Passed
  <2>6. QED
    BY <2>4, <2>5
<1>2. ASSUME NEW t \in Transfers, ConnectWallets(t)
      PROVE  NoBlockIsSkipped' /\ RunsRecord'
  <2>1. UNCHANGED <<block, run, lastSyncedBlock, rowVars, dropped>>
    BY <1>2 DEF ConnectWallets
  <2>2. QED
    BY <2>1, <1>s
<1>3. ASSUME NEW t \in Transfers, ConfirmTransfer(t) \/ PostRow(t) \/ DeleteRow(t)
      PROVE  NoBlockIsSkipped' /\ RunsRecord'
  <2>1. UNCHANGED <<block, run, lastSyncedBlock>>
    BY <1>3 DEF ConfirmTransfer, PostRow, DeleteRow, chainVars
  <2>2. QED
    BY <2>1, <1>s
\* The event of a run is found, or its row deleted: it stays the run's event.
<1>17. ASSUME NEW r \in Runs, NEW t \in Transfers, DeleteFoundRow(t, r)
       PROVE  NoBlockIsSkipped' /\ RunsRecord'
  <2>1. run[r].pc = "update" /\ run' = [run EXCEPT ![r].pc = "restore"]
        /\ UNCHANGED <<chainVars, lastSyncedBlock>>
    BY <1>17 DEF DeleteFoundRow, Waiting
  <2>2. /\ \A q \in Runs \ {r} : run'[q] = run[q]
        /\ run'[r].pc = "restore" /\ run'[r].to = run[r].to /\ run'[r].token = run[r].token
        /\ run'[r].todo = run[r].todo /\ run'[r].event = run[r].event
    BY <1>t, <2>1 DEF Run
  <2>3. \A u \in Transfers : Passed(r, u)' => Passed(r, u)
    BY <2>1, <2>2 DEF Passed, Saves
  <2>4. QED
    BY <2>1, <2>2, <2>3, <1>m, <1>r DEF RunsRecord
<1>4. ASSUME NEW r \in Runs, Start(r)
      PROVE  NoBlockIsSkipped' /\ RunsRecord'
  <2> DEFINE from == IF lastSyncedBlock = 0 THEN Later(head, Window) ELSE lastSyncedBlock
  <2>1. /\ lastSyncedBlock' = from /\ UNCHANGED <<chainVars, rowVars>>
        /\ dropped' = dropped \cup {t \in Transfers : block[t] \in 1..(from - 1) /\ Rows(t) = 0}
        /\ \A q \in Runs \ {r} : run'[q] = run[q]
    BY <1>4, <1>t DEF Start
  <2>2. run'[r].pc = "events" /\ run'[r].token = 1
    <3>1. run[r].token = 1
      BY <1>4, <1>t, IdleRun DEF Start, RunsConsistent, Saves
    <3>2. QED
      BY <1>4, <1>t, <3>1 DEF Start, Run
  <2> HIDE DEF from
  <2>4. \A t \in Transfers : ~Passed(r, t)'
    BY <1>k, <2>2 DEF Passed, Saves
  <2>5. RunsRecord'
    BY <2>1, <1>m, <2>4, RunsRecordGoes
  <2>6. NoBlockIsSkipped'
    <3> SUFFICES ASSUME NEW t \in Transfers, block'[t] # 0, block'[t] < lastSyncedBlock'
                 PROVE  Recorded(t)'
      BY DEF NoBlockIsSkipped
    <3>1. block'[t] = block[t] /\ block[t] \in Nat /\ from \in Nat
      BY <2>1, <1>t DEF chainVars, Numbers
    <3>2. block[t] \in 1..(from - 1)
      BY <2>1, <3>1
    <3>3. CASE Rows(t) = 0
      BY <2>1, <3>2, <3>3 DEF Recorded
    <3>4. CASE Rows(t) # 0
      BY <1>m, <1>n, <3>4 DEF Recorded
    <3>5. QED
      BY <3>3, <3>4
  <2>7. QED
    BY <2>5, <2>6
<1>5. ASSUME NEW r \in Runs, FetchEvents(r)
      PROVE  NoBlockIsSkipped' /\ RunsRecord'
  <2>1. PICK chunk \in SUBSET Events(r) :
          /\ run' = [run EXCEPT ![r].pc = "loop", ![r].todo = chunk]
          /\ dropped' = dropped \cup {t \in Events(r) \ chunk : Rows(t) = 0}
    BY <1>5 DEF FetchEvents
  <2>2. UNCHANGED <<chainVars, rowVars, lastSyncedBlock>> /\ run[r].pc = "events"
    BY <1>5 DEF FetchEvents
  <2>3. /\ \A q \in Runs \ {r} : run'[q] = run[q]
        /\ run'[r].pc = "loop" /\ run'[r].to = run[r].to /\ run'[r].token = run[r].token
        /\ run'[r].todo = chunk
    BY <1>t, <2>1 DEF Run
  <2>5. ASSUME NEW t \in Transfers, block[t] \in 1..run'[r].to, Passed(r, t)'
        PROVE  Recorded(t)'
    <3>1. CASE TokenOf[t] < run[r].token
      <4>1. Passed(r, t)
        BY <3>1 DEF Passed, Saves
      <4>2. QED
        BY <2>2, <2>3, <1>m, <2>5, <4>1 DEF RunsRecord
    <3>2. CASE TokenOf[t] = run[r].token /\ t \notin chunk
      <4>1. CASE block[t] < lastSyncedBlock
        BY <1>t, <1>m, <2>5, <4>1 DEF NoBlockIsSkipped
      <4>2. CASE ~(block[t] < lastSyncedBlock)
        <5>1. block[t] \in lastSyncedBlock..run[r].to /\ block[t] # 0
          BY <1>t, <2>3, <2>5, <4>2 DEF Numbers
        <5>2. t \in Events(r) \ chunk
          BY <3>2, <5>1 DEF Events
        <5>3. Events(r) \ chunk \subseteq Transfers
          BY DEF Events
        <5>4. QED
          BY <2>1, <5>2, <5>3, <1>w
      <4>3. QED
        BY <4>1, <4>2
    <3>3. QED
      BY <2>3, <2>5, <3>1, <3>2 DEF Passed, Saves
  <2>6. QED
    BY <2>2, <2>3, <1>m, <2>5, <1>r
\* An event is done with, because it is recorded or dropped.
<1>6. ASSUME NEW r \in Runs, NEW t \in Transfers, run[r].pc = "loop",
             run' = [run EXCEPT ![r].todo = @ \ {t}], Recorded(t)',
             UNCHANGED <<chainVars, rowVars, lastSyncedBlock>>
      PROVE  NoBlockIsSkipped' /\ RunsRecord'
  <2>1. /\ \A q \in Runs \ {r} : run'[q] = run[q]
        /\ run'[r].pc = run[r].pc /\ run'[r].to = run[r].to /\ run'[r].token = run[r].token
        /\ run'[r].todo = run[r].todo \ {t} /\ run'[r].event = run[r].event
    BY <1>t, <1>6 DEF Run
  <2>3. ASSUME NEW u \in Transfers, block[u] \in 1..run'[r].to, Passed(r, u)', u # t
        PROVE  Recorded(u)'
    <3>1. Passed(r, u)
      BY <2>1, <2>3 DEF Passed, Saves
    <3>2. QED
      BY <1>6, <2>1, <1>m, <2>3, <3>1 DEF RunsRecord
  <2>4. QED
    BY <1>6, <2>1, <1>m, <2>3, <1>r
<1>7. ASSUME NEW r \in Runs, NEW t \in Transfers, FindRow(r, t) \/ FindNoRow(r, t)
      PROVE  NoBlockIsSkipped' /\ RunsRecord'
  <2>1. /\ run[r].pc = "loop" /\ UNCHANGED <<chainVars, lastSyncedBlock>>
        /\ \E pc \in {"insert", "update"} :
              run' = [run EXCEPT ![r].pc = pc, ![r].event = {t}, ![r].todo = @ \ {t}]
    BY <1>7 DEF FindRow, FindNoRow
  <2>2. /\ \A q \in Runs \ {r} : run'[q] = run[q]
        /\ run'[r].pc \in Saves /\ run'[r].to = run[r].to /\ run'[r].token = run[r].token
        /\ run'[r].todo = run[r].todo \ {t} /\ run'[r].event = {t}
    BY <1>t, <2>1 DEF Run, Saves
  <2>3. run[r].event = {}
    BY <1>t, <2>1 DEF RunsConsistent, Saves
  <2>4. \A u \in Transfers : Passed(r, u)' => Passed(r, u)
    BY <2>1, <2>2, <2>3 DEF Passed, Saves
  <2>5. run[r].pc # "idle"
    BY <2>1
  <2>6. QED
    BY <2>1, <2>2, <2>4, <2>5, <1>m, <1>r DEF RunsRecord
\* The event of a run is saved or has failed.
<1>8. ASSUME NEW r \in Runs, run[r].pc \in Saves, Continue(r),
             UNCHANGED <<chainVars, lastSyncedBlock>>,
             \A t \in run[r].event : Recorded(t)'
      PROVE  NoBlockIsSkipped' /\ RunsRecord'
  <2>1. /\ \A q \in Runs \ {r} : run'[q] = run[q]
        /\ run'[r].pc = "loop" /\ run'[r].to = run[r].to /\ run'[r].token = run[r].token
        /\ run'[r].todo = run[r].todo /\ run'[r].event = {}
    BY <1>t, <1>8 DEF Run, Continue
  <2>2. \A u \in Transfers : Passed(r, u)' => Passed(r, u) \/ u \in run[r].event
    BY <1>8, <2>1 DEF Passed, Saves
  <2>3. run[r].pc # "idle"
    BY <1>8 DEF Saves
  <2>4. QED
    BY <1>8, <1>m, <2>1, <2>2, <2>3, <1>r DEF RunsRecord
<1>9. ASSUME NEW r \in Runs, UpdateRow(r) \/ RestoreRow(r) \/ InsertRow(r)
      PROVE  NoBlockIsSkipped' /\ RunsRecord'
  <2>1. /\ run[r].pc \in Saves /\ Continue(r) /\ UNCHANGED <<chainVars, lastSyncedBlock, dropped>>
        /\ run[r].event \subseteq Transfers
    BY <1>9, <1>t DEF UpdateRow, RestoreRow, InsertRow, Saves, Run
  <2>2. ASSUME NEW t \in run[r].event
        PROVE  Recorded(t)'
    <3>1. t \in Transfers
      BY <2>1
    <3>2. CASE InsertRow(r)
      <4>1. own'[t] = own[t] + 1 /\ others'[t] = others[t] /\ own[t] \in Nat /\ others[t] \in Nat
        BY <3>1, <3>2, <1>t, <2>2 DEF InsertRow
      <4>2. QED
        BY <4>1 DEF Recorded, Rows
    <3>3. CASE ~InsertRow(r)
      <4>1. run[r].pc \in {"update", "restore"}
        BY <1>9, <3>3 DEF UpdateRow, RestoreRow
      <4>2. QED
        BY <1>m, <2>2, <3>1, <4>1 DEF FoundRecorded
    <3>4. QED
      BY <3>2, <3>3
  <2>3. QED
    BY <1>8, <2>1, <2>2
<1>10. ASSUME NEW r \in Runs, EventFails(r)
       PROVE  NoBlockIsSkipped' /\ RunsRecord'
  <2>1. UNCHANGED <<chainVars, rowVars, lastSyncedBlock>>
    BY <1>10 DEF EventFails
  <2>2. CASE /\ run[r].pc \in Saves /\ Continue(r)
             /\ dropped' = dropped \cup {t \in run[r].event : Rows(t) = 0}
    <3>1. run[r].event \subseteq Transfers
      BY <1>t DEF Run
    <3>2. \A t \in run[r].event : Recorded(t)'
      BY <2>2, <3>1, <1>w
    <3>3. QED
      BY <1>8, <2>1, <2>2, <3>2
  <2>3. CASE run[r].pc = "loop"
    <3>1. PICK t \in run[r].todo : /\ run' = [run EXCEPT ![r].todo = @ \ {t}]
                                   /\ dropped' = dropped \cup {t}
      BY <1>10, <2>3 DEF EventFails
    <3>2. t \in Transfers
      BY <1>t DEF Run
    <3>3. Recorded(t)'
      BY <3>1 DEF Recorded
    <3>4. QED
      BY <1>6, <2>1, <2>3, <3>1, <3>2, <3>3
  <2>4. QED
    BY <1>10, <2>2, <2>3 DEF EventFails, Saves
<1>11. ASSUME NEW r \in Runs, NextToken(r)
       PROVE  NoBlockIsSkipped' /\ RunsRecord'
  <2>1. /\ run[r].pc = "loop" /\ run[r].todo = {} /\ run[r].token = 1
        /\ run' = [run EXCEPT ![r].pc = "events", ![r].token = 2]
        /\ UNCHANGED <<chainVars, rowVars, lastSyncedBlock, dropped>>
    BY <1>11 DEF NextToken
  <2>2. /\ \A q \in Runs \ {r} : run'[q] = run[q]
        /\ run'[r].pc = "events" /\ run'[r].to = run[r].to /\ run'[r].token = 2
    BY <1>t, <2>1 DEF Run
  <2>3. run[r].event = {}
    BY <1>t, <2>1 DEF RunsConsistent, Saves
  <2>5. \A u \in Transfers : TokenOf[u] < 2 => TokenOf[u] = 1
    BY <1>k
  <2>6. \A u \in Transfers : Passed(r, u)' => Passed(r, u)
    BY <2>1, <2>2, <2>3, <2>5 DEF Passed, Saves
  <2>7. QED
    BY <2>1, <2>2, <1>m, <2>6, <1>r DEF RunsRecord
<1>12. ASSUME NEW r \in Runs, FetchFails(r)
       PROVE  NoBlockIsSkipped' /\ RunsRecord'
  <2>1. /\ run' = [run EXCEPT ![r] = Idle]
        /\ UNCHANGED <<chainVars, rowVars, lastSyncedBlock, dropped>>
    BY <1>12 DEF FetchFails
  <2>2. (\A q \in Runs \ {r} : run'[q] = run[q]) /\ run'[r].pc = "idle"
    BY <1>t, <2>1, IdleRun
  <2>4. QED
    BY <2>1, <2>2, <1>m, <1>r
<1>13. ASSUME NEW r \in Runs, Finish(r)
       PROVE  NoBlockIsSkipped' /\ RunsRecord'
  <2>1. /\ run[r].pc = "loop" /\ run[r].todo = {} /\ run[r].token = 2
        /\ run' = [run EXCEPT ![r] = Idle] /\ lastSyncedBlock' = run[r].to
        /\ UNCHANGED <<chainVars, rowVars, dropped>>
    BY <1>13 DEF Finish
  <2>2. (\A q \in Runs \ {r} : run'[q] = run[q]) /\ run'[r].pc = "idle"
    BY <1>t, <2>1, IdleRun
  <2>4. RunsRecord'
    BY <2>1, <2>2, <1>m, RunsRecordGoes
  <2>5. run[r].event = {}
    BY <1>t, <2>1 DEF RunsConsistent, Saves
  <2>6. \A u \in Transfers : TokenOf[u] < 2 \/ TokenOf[u] = 2
    BY <1>k
  <2>7. \A u \in Transfers : Passed(r, u)
    BY <2>1, <2>5, <2>6 DEF Passed, Saves
  <2>8. \A u \in Transfers : block[u] # 0 /\ block[u] < run[r].to => block[u] \in 1..run[r].to
    BY <1>t DEF Run, Numbers
  <2>9. \A u \in Transfers : block[u] # 0 /\ block[u] < run[r].to => Recorded(u)'
    BY <2>1, <1>m, <2>7, <2>8 DEF RunsRecord
  <2>10. QED
    BY <2>1, <2>4, <2>9 DEF NoBlockIsSkipped, chainVars
<1>14. CASE Restart
  <2>1. lastSyncedBlock' = 0 /\ \A r \in Runs : run'[r].pc = "idle"
    BY <1>14, IdleRun DEF Restart
  <2>2. UNCHANGED block
    BY <1>14 DEF Restart, chainVars
  <2>3. NoBlockIsSkipped'
    BY <1>t, <2>1, <2>2 DEF NoBlockIsSkipped, Numbers
  <2>4. QED
    BY <2>1, <2>3 DEF RunsRecord
<1>15. CASE UNCHANGED syncVars
  <2>1. UNCHANGED <<block, run, lastSyncedBlock>>
    BY <1>15 DEF syncVars
  <2>2. QED
    BY <2>1, <1>s
<1>16. ASSUME NEW r \in Runs, NEW t \in Transfers, Skip(r, t)
       PROVE  NoBlockIsSkipped' /\ RunsRecord'
  <2>1. /\ run[r].pc = "loop" /\ run' = [run EXCEPT ![r].todo = @ \ {t}]
        /\ UNCHANGED <<chainVars, rowVars, lastSyncedBlock>> /\ t \in dropped'
    BY <1>16 DEF Skip
  <2>2. Recorded(t)'
    BY <2>1 DEF Recorded
  <2>3. QED
    BY <1>6, <2>1, <2>2
<1>18. QED
  BY <1>1, <1>2, <1>3, <1>4, <1>5, <1>7, <1>9, <1>10, <1>11, <1>12, <1>13, <1>14, <1>15, <1>16,
     <1>17
     DEF SyncNext, Proceed

(* What a run finds has a row.                                                      *)
LEMMA FoundRecordedNext ==
    ASSUME SyncTyped, SyncTyped', FoundRecorded, [SyncNext]_syncVars
    PROVE  FoundRecorded'
<1>t. run \in [Runs -> Run] /\ \A t \in Transfers : Recorded(t) => Recorded(t)'
  BY RecordedKept DEF SyncTyped, SyncTypeOK
<1>e. \A r \in Runs : run[r].event \subseteq Transfers
  BY <1>t DEF Run
<1>1. ASSUME \A q \in Runs : run'[q].pc \in {"update", "restore"} =>
                run[q].pc \in {"update", "restore"} /\ run'[q].event = run[q].event
      PROVE  FoundRecorded'
  BY <1>1, <1>t, <1>e DEF FoundRecorded
<1>2. ASSUME NEW r \in Runs, \A q \in Runs \ {r} : run'[q] = run[q],
             run'[r].pc \notin {"update", "restore"}
      PROVE  FoundRecorded'
  BY <1>1, <1>2
<1>3. CASE UNCHANGED run
  BY <1>1, <1>3
<1>4. ASSUME NEW r \in Runs,
             \/ Start(r) \/ FetchEvents(r) \/ FetchFails(r) \/ NextToken(r) \/ Finish(r)
             \/ UpdateRow(r) \/ RestoreRow(r) \/ InsertRow(r) \/ EventFails(r)
             \/ \E t \in Transfers : Skip(r, t) \/ FindNoRow(r, t)
      PROVE  FoundRecorded'
  <2>1. \A q \in Runs \ {r} : run'[q] = run[q]
    BY <1>4, <1>t DEF Start, FetchEvents, FetchFails, NextToken, Finish, EventFails, Skip, UpdateRow,
                      RestoreRow, InsertRow, FindNoRow, Continue
  <2>2. run[r] \in Run
    BY <1>t
  <2>3. run'[r].pc \in {"idle", "events", "loop", "insert"}
    <3>1. CASE Start(r) \/ FetchEvents(r) \/ FetchFails(r) \/ NextToken(r) \/ Finish(r)
      BY <3>1, <1>t, <2>2, IdleRun DEF Start, FetchEvents, FetchFails, NextToken, Finish, Run
    <3>2. CASE UpdateRow(r) \/ RestoreRow(r) \/ InsertRow(r)
      BY <3>2, <1>t, <2>2 DEF UpdateRow, RestoreRow, InsertRow, Continue, Run
    <3>3. CASE EventFails(r)
      BY <3>3, <1>t, <2>2 DEF EventFails, Continue, Run
    <3>4. CASE \E t \in Transfers : Skip(r, t) \/ FindNoRow(r, t)
      BY <3>4, <1>t, <2>2 DEF Skip, FindNoRow, Run
    <3>5. QED
      BY <1>4, <3>1, <3>2, <3>3, <3>4
  <2>4. QED
    BY <1>2, <2>1, <2>3
<1>5. ASSUME NEW r \in Runs, NEW t \in Transfers, FindRow(r, t)
      PROVE  FoundRecorded'
  <2>1. (\A q \in Runs \ {r} : run'[q] = run[q]) /\ run'[r].event = {t} /\ Rows(t) > 0
    BY <1>5, <1>t DEF FindRow, Run
  <2>2. Recorded(t)
    BY <2>1 DEF Recorded
  <2>3. QED
    BY <1>t, <1>e, <2>1, <2>2 DEF FoundRecorded
<1>6. ASSUME NEW r \in Runs, NEW t \in Transfers, DeleteFoundRow(t, r)
      PROVE  FoundRecorded'
  <2>1. (\A q \in Runs \ {r} : run'[q] = run[q]) /\ run'[r].event = run[r].event
        /\ run[r].pc = "update"
    BY <1>6, <1>t DEF DeleteFoundRow, Waiting, Run
  <2>2. QED
    BY <1>1, <2>1
<1>7. CASE Restart
  <2>1. \A q \in Runs : run'[q].pc = "idle"
    BY <1>7, IdleRun DEF Restart
  <2>2. QED
    BY <1>1, <2>1
<1>8. QED
  BY <1>3, <1>4, <1>5, <1>6, <1>7
     DEF SyncNext, Proceed, Mine, ConnectWallets, ConfirmTransfer, PostRow, DeleteRow, syncVars

(***************************************************************************)
(* TokenSync: one insert of each run.                                      *)
(***************************************************************************)
LEMMA WaitingBound ==
    ASSUME NEW S \in SUBSET Runs
    PROVE  /\ IsFiniteSet(S) /\ Cardinality(S) \in Nat /\ Cardinality(S) <= Cardinality(Runs)
           /\ Cardinality(Runs) \in Nat
BY RunsAssumption, FS_Subset, FS_CardinalityType

LEMMA InsertsBoundedInit == SyncInit => InsertsBounded
<1> SUFFICES ASSUME SyncInit, NEW t \in Transfers
             PROVE  own[t] + Cardinality(Waiting("insert", t)) <= Cardinality(Runs)
  BY DEF InsertsBounded
<1>1. own[t] = 0 /\ Waiting("insert", t) \in SUBSET Runs
  BY DEF SyncInit, Waiting
<1>2. QED
  BY <1>1, WaitingBound

(* A step that inserts no row for the runs, and lets none of them wait to.           *)
LEMMA InsertsBoundedStays ==
    ASSUME SyncTyped, SyncTyped', InsertsBounded, NEW t \in Transfers, own'[t] <= own[t],
           \A r \in Runs : run'[r].pc = "insert" => run'[r] = run[r] \/ run'[r].event # {t}
    PROVE  own'[t] + Cardinality(Waiting("insert", t)') <= Cardinality(Runs)
<1>1. Waiting("insert", t)' \in SUBSET Waiting("insert", t)
  BY DEF Waiting
<1>2. Waiting("insert", t) \in SUBSET Runs
  BY DEF Waiting
<1>3. Cardinality(Waiting("insert", t)') <= Cardinality(Waiting("insert", t))
  BY <1>1, <1>2, WaitingBound, FS_Subset
<1>4. Waiting("insert", t)' \in SUBSET Runs
  BY <1>1, <1>2
<1>5. own[t] \in Nat /\ own'[t] \in Nat
  BY DEF SyncTyped, SyncTypeOK
<1>6. own[t] + Cardinality(Waiting("insert", t)) <= Cardinality(Runs)
  BY DEF InsertsBounded
<1>7. Cardinality(Waiting("insert", t)) \in Nat /\ Cardinality(Waiting("insert", t)') \in Nat
      /\ Cardinality(Runs) \in Nat
  BY <1>2, <1>4, WaitingBound
<1> DEFINE w == Cardinality(Waiting("insert", t))
           v == Cardinality(Waiting("insert", t)')
<1>8. w \in Nat /\ v \in Nat /\ v <= w /\ own[t] + w <= Cardinality(Runs)
  BY <1>3, <1>6, <1>7
<1> HIDE DEF w, v
<1>9. own'[t] + v <= Cardinality(Runs)
  BY <1>5, <1>7, <1>8
<1>10. QED
  BY <1>9 DEF v

LEMMA InsertsBoundedNext ==
    ASSUME SyncTyped, SyncTyped', InsertsBounded, [SyncNext]_syncVars
    PROVE  InsertsBounded'
<1>t. /\ own \in [Transfers -> Nat] /\ others \in [Transfers -> Nat] /\ run \in [Runs -> Run]
      /\ RunsConsistent
  BY DEF SyncTyped, SyncTypeOK
<1>s. ASSUME \A t \in Transfers : own'[t] <= own[t],
             \A r \in Runs : run'[r].pc = "insert" => run'[r] = run[r]
      PROVE  InsertsBounded'
  <2>1. \A t \in Transfers : own'[t] + Cardinality(Waiting("insert", t)') <= Cardinality(Runs)
    BY <1>s, InsertsBoundedStays
  <2>2. QED
    BY <2>1 DEF InsertsBounded
<1>u. ASSUME UNCHANGED own
      PROVE  \A t \in Transfers : own'[t] <= own[t]
  <2>1. \A t \in Transfers : own[t] \in Nat
    BY <1>t
  <2>2. QED
    BY <1>u, <2>1
<1>1. CASE UNCHANGED <<own, run>>
  BY <1>1, <1>s, <1>u
<1>2. ASSUME NEW t \in Transfers, TakeRow(t),
             \A r \in Runs : run'[r].pc = "insert" => run'[r] = run[r]
      PROVE  InsertsBounded'
  <2>1. \A u \in Transfers : own'[u] <= own[u]
    <3>1. \A u \in Transfers : own[u] \in Nat
      BY <1>t
    <3>2. QED
      BY <1>2, <1>t, <3>1 DEF TakeRow
  <2>2. QED
    BY <1>2, <1>s, <2>1
<1>3. ASSUME NEW t \in Transfers, DeleteRow(t)
      PROVE  InsertsBounded'
  BY <1>2, <1>3 DEF DeleteRow
<1>4. ASSUME NEW t \in Transfers, NEW r \in Runs, DeleteFoundRow(t, r)
      PROVE  InsertsBounded'
  <2>1. \A q \in Runs : run'[q].pc = "insert" => run'[q] = run[q]
    BY <1>4, <1>t DEF DeleteFoundRow, Run
  <2>2. QED
    BY <1>2, <1>4, <2>1 DEF DeleteFoundRow
<1>5. ASSUME NEW r \in Runs,
             \/ Start(r) \/ FetchEvents(r) \/ FetchFails(r) \/ NextToken(r) \/ Finish(r)
             \/ UpdateRow(r) \/ RestoreRow(r) \/ EventFails(r)
             \/ \E t \in Transfers : Skip(r, t) \/ FindRow(r, t)
      PROVE  InsertsBounded'
  <2>1. UNCHANGED own /\ \A q \in Runs \ {r} : run'[q] = run[q]
    BY <1>5, <1>t DEF Start, FetchEvents, FetchFails, NextToken, Finish, EventFails, Skip, UpdateRow,
                      RestoreRow, FindRow, Continue, rowVars
  <2>2. run[r] \in Run
    BY <1>t
  <2>3. run'[r].pc \in {"idle", "events", "loop", "update"}
    <3>1. CASE Start(r) \/ FetchEvents(r) \/ FetchFails(r) \/ NextToken(r) \/ Finish(r)
      BY <3>1, <1>t, <2>2, IdleRun DEF Start, FetchEvents, FetchFails, NextToken, Finish, Run
    <3>2. CASE UpdateRow(r) \/ RestoreRow(r)
      BY <3>2, <1>t, <2>2 DEF UpdateRow, RestoreRow, Continue, Run
    <3>3. CASE EventFails(r)
      BY <3>3, <1>t, <2>2 DEF EventFails, Continue, Run
    <3>4. CASE \E t \in Transfers : Skip(r, t) \/ FindRow(r, t)
      BY <3>4, <1>t, <2>2 DEF Skip, FindRow, Run
    <3>5. QED
      BY <1>5, <3>1, <3>2, <3>3, <3>4
  <2>4. QED
    BY <1>s, <1>u, <2>1, <2>3
\* A run finds no row: then the runs have none in the table, and wait for one each.
<1>6. ASSUME NEW r \in Runs, NEW t \in Transfers, FindNoRow(r, t)
      PROVE  InsertsBounded'
  <2>1. /\ UNCHANGED own /\ Rows(t) = 0 /\ \A q \in Runs \ {r} : run'[q] = run[q]
        /\ run'[r].event = {t}
    BY <1>6, <1>t DEF FindNoRow, Run, rowVars
  <2>2. own'[t] = 0
    <3>1. own[t] \in Nat /\ others[t] \in Nat
      BY <1>t
    <3>2. QED
      BY <2>1, <3>1 DEF Rows
  <2>3. Waiting("insert", t)' \in SUBSET Runs
    BY DEF Waiting
  <2>4. own'[t] + Cardinality(Waiting("insert", t)') <= Cardinality(Runs)
    BY <2>2, <2>3, WaitingBound
  <2>5. ASSUME NEW u \in Transfers, u # t
        PROVE  own'[u] + Cardinality(Waiting("insert", u)') <= Cardinality(Runs)
    <3>1. \A q \in Runs : run'[q].pc = "insert" => run'[q] = run[q] \/ run'[q].event # {u}
      BY <2>1, <2>5
    <3>2. own'[u] <= own[u]
      BY <1>u, <2>1
    <3>3. QED
      BY <3>1, <3>2, InsertsBoundedStays
  <2>6. QED
    BY <2>4, <2>5 DEF InsertsBounded
\* One that waited inserts its row.
<1>7. ASSUME NEW r \in Runs, InsertRow(r)
      PROVE  InsertsBounded'
  <2>1. PICK t \in Transfers : run[r].event = {t}
    BY <1>7, <1>t DEF InsertRow, RunsConsistent, Saves
  <2>2. /\ run[r].pc = "insert" /\ (\A q \in Runs \ {r} : run'[q] = run[q])
        /\ run'[r].pc = "loop"
    BY <1>7, <1>t DEF InsertRow, Continue, Run
  <2>3. \A u \in Transfers : own'[u] = IF u = t THEN own[u] + 1 ELSE own[u]
    BY <1>7, <2>1 DEF InsertRow
  <2>4. ASSUME NEW u \in Transfers, u # t
        PROVE  own'[u] + Cardinality(Waiting("insert", u)') <= Cardinality(Runs)
    <3>1. own[u] \in Nat /\ own'[u] = own[u]
      BY <1>t, <2>3, <2>4
    <3>2. own'[u] <= own[u]
      BY <3>1
    <3>3. \A q \in Runs : run'[q].pc = "insert" => run'[q] = run[q] \/ run'[q].event # {u}
      BY <2>2
    <3>4. QED
      BY <3>2, <3>3, InsertsBoundedStays
  <2>5. own'[t] + Cardinality(Waiting("insert", t)') <= Cardinality(Runs)
    <3>1. Waiting("insert", t)' = Waiting("insert", t) \ {r} /\ r \in Waiting("insert", t)
          /\ Waiting("insert", t) \in SUBSET Runs
      BY <2>1, <2>2 DEF Waiting
    <3> DEFINE w == Cardinality(Waiting("insert", t))
    <3>2. w \in Nat /\ Cardinality(Waiting("insert", t)') = w - 1
      BY <3>1, WaitingBound, FS_RemoveElement
    <3>3. own[t] + w <= Cardinality(Runs) /\ own[t] \in Nat /\ Cardinality(Runs) \in Nat
      BY <1>t, <3>1, WaitingBound DEF InsertsBounded
    <3> HIDE DEF w
    <3>4. own'[t] = own[t] + 1
      BY <2>3
    <3>5. QED
      BY <3>2, <3>3, <3>4
  <2>6. QED
    BY <2>4, <2>5 DEF InsertsBounded
<1>8. CASE Restart
  <2>1. UNCHANGED own /\ \A q \in Runs : run'[q].pc = "idle"
    BY <1>8, IdleRun DEF Restart, rowVars
  <2>2. QED
    BY <1>s, <1>u, <2>1
<1>9. QED
  BY <1>1, <1>3, <1>4, <1>5, <1>6, <1>7, <1>8
     DEF SyncNext, Proceed, Mine, ConnectWallets, ConfirmTransfer, PostRow, syncVars, rowVars

SyncInv == SyncTyped /\ NoBlockIsSkipped /\ RunsRecord /\ FoundRecorded /\ InsertsBounded

LEMMA SyncInvariant == SyncSpec => []SyncInv
<1>1. SyncInit => SyncInv
  <2>1. SyncInit => FoundRecorded
    BY IdleRun DEF SyncInit, FoundRecorded
  <2>2. QED
    BY <2>1, SyncTypedInit, RunsRecordInit, InsertsBoundedInit DEF SyncInv
<1>2. SyncInv /\ [SyncNext]_syncVars => SyncInv'
  <2> SUFFICES ASSUME SyncInv, [SyncNext]_syncVars PROVE SyncInv'
    OBVIOUS
  <2>1. SyncTyped /\ NoBlockIsSkipped /\ RunsRecord /\ FoundRecorded /\ InsertsBounded
    BY DEF SyncInv
  <2>2. SyncTyped'
    BY <2>1, SyncTypedNext
  <2>3. NoBlockIsSkipped' /\ RunsRecord'
    BY <2>1, <2>2, RunsRecordNext
  <2>4. FoundRecorded' /\ InsertsBounded'
    BY <2>1, <2>2, FoundRecordedNext, InsertsBoundedNext
  <2>5. QED
    BY <2>2, <2>3, <2>4 DEF SyncInv
<1>3. QED
  BY <1>1, <1>2, PTL DEF SyncSpec

\* Every variable keeps its type, and no block after the head counts as synchronized
\* (syncTransactions).
THEOREM SyncTypeCorrect == SyncSpec => []SyncTypeOK
BY SyncInvariant, PTL DEF SyncInv, SyncTyped

\* A transfer in a block before lastSyncedBlock has its row or was left out by name,
\* however many runs overlap, fail and finish in any order, and whatever rows others
\* post and delete (syncTransactions, syncTokenTransactions).
THEOREM NoBlockIsSkippedHolds == SyncSpec => []NoBlockIsSkipped
BY SyncInvariant, PTL DEF SyncInv

\* The sync has at most one row of a transfer for each run at a time, through restarts
\* and whatever rows others post and delete (syncTokenTransactions).
THEOREM OneInsertPerRunHolds == SyncSpec => []OneInsertPerRun
<1>1. SyncTyped /\ InsertsBounded => OneInsertPerRun
  <2> SUFFICES ASSUME SyncTyped, InsertsBounded, NEW t \in Transfers
               PROVE  own[t] <= Cardinality(Runs)
    BY DEF OneInsertPerRun
  <2>1. Waiting("insert", t) \in SUBSET Runs
    BY DEF Waiting
  <2>2. Cardinality(Waiting("insert", t)) \in Nat /\ Cardinality(Runs) \in Nat
    BY <2>1, WaitingBound
  <2>3. own[t] \in Nat /\ own[t] + Cardinality(Waiting("insert", t)) <= Cardinality(Runs)
    BY DEF SyncTyped, SyncTypeOK, InsertsBounded
  <2>4. QED
    BY <2>2, <2>3
<1>2. QED
  BY <1>1, SyncInvariant, PTL DEF SyncInv

================================================================================
