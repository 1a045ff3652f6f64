------------------------------- MODULE TokenSync -------------------------------
(***************************************************************************)
(* TokenSyncService: every five minutes a run reads the transfer events of *)
(* each token contract from the block synced last to the head of the chain *)
(* and stores those between two connected wallets in token_transactions,   *)
(* where TokenService.transferToken stores its own and any client may post *)
(* and delete rows, of whatever hash it names.                             *)
(*                                                                         *)
(* Nothing keeps runs apart: a run may still await when the next one       *)
(* starts.  lastSyncedBlock is in the memory of the process.  Abstracted:  *)
(* a transaction is known by its hash, and of its rows only their numbers  *)
(* are kept; users, amounts and receipts are left out.                     *)
(*                                                                         *)
(* What TokenTransfer names too has Sync in its name here: the theorems    *)
(* about the writers of the table are in one module, Tokens_proofs.        *)
(***************************************************************************)
EXTENDS Naturals, FiniteSets

CONSTANTS
    Transfers,      \* transfers that may happen on the chain
    TokenOf,        \* the contract of each: 1 or 2
    Runs,           \* runs in progress at a time
    MaxBlock,       \* bound: blocks mined
    MaxRestarts,    \* bound: restarts of the process
    MaxRows,        \* bound: rows of a transfer for which another writer adds one more
    Window,         \* blocks that the first run looks back (100 in the code)
    ChunkSize       \* events that one query answers (100 in the code)

ASSUME TokenAssumption == TokenOf \in [Transfers -> 1..2]
ASSUME BoundsAssumption == {MaxBlock, MaxRestarts, MaxRows, Window, ChunkSize} \subseteq Nat
ASSUME RunsAssumption == IsFiniteSet(Runs)

VARIABLES
    head,               \* the chain's last block
    block,              \* the block of each transfer, 0 before it is mined
    known,              \* transfers between wallets that are connected
    own,                \* per transfer: rows with its hash that the runs inserted as new
    others,             \* per transfer: the other rows with its hash
    lastSyncedBlock,
    run,                \* runs in progress
    restarts,
    \* History variable, read by properties only.
    dropped             \* transfers that a run left out or failed on, or never looks
                        \* at, or whose last row was deleted

chainVars == <<head, block, known>>
rowVars == <<own, others>>
syncVars == <<head, block, known, own, others, lastSyncedBlock, run, restarts, dropped>>

Numbers == 0..MaxBlock

\* In "insert", "update" and "restore" the run awaits the save of its event's row: a
\* new one, one that it found, and one that was deleted since.
Run == [pc : {"idle", "events", "loop", "insert", "update", "restore"}, to : Numbers,
        token : 1..2, todo : SUBSET Transfers, event : SUBSET Transfers]

Idle == [pc |-> "idle", to |-> 0, token |-> 1, todo |-> {}, event |-> {}]

SyncInit ==
    /\ head = 0
    /\ block = [t \in Transfers |-> 0]
    /\ known \in SUBSET Transfers
    /\ own = [t \in Transfers |-> 0] /\ others = [t \in Transfers |-> 0]
    /\ lastSyncedBlock = 0
    /\ run = [r \in Runs |-> Idle]
    /\ restarts = 0
    /\ dropped = {}

Rows(t) == own[t] + others[t]

------------------------------------------------------------------------------
(* Outside: the chain, connected wallets, and the other writers of the table. *)

Mine(S) ==
    /\ head < MaxBlock
    /\ head' = head + 1
    /\ block' = [t \in Transfers |-> IF t \in S THEN head + 1 ELSE block[t]]
    /\ UNCHANGED <<known, rowVars, lastSyncedBlock, run, restarts, dropped>>

ConnectWallets(t) ==
    /\ t \notin known
    /\ known' = known \cup {t}
    /\ UNCHANGED <<head, block, rowVars, lastSyncedBlock, run, restarts, dropped>>

\* transferToken saves the hash with the result, before or after the transfer is mined;
\* it looks for no row that has it.
ConfirmTransfer(t) ==
    /\ t \in known /\ others[t] < MaxRows
    /\ others' = [others EXCEPT ![t] = @ + 1]
    /\ UNCHANGED <<chainVars, own, lastSyncedBlock, run, restarts, dropped>>

\* Nor does POST /token-transactions, whoever's wallets they are.
PostRow(t) ==
    /\ others[t] < MaxRows
    /\ others' = [others EXCEPT ![t] = @ + 1]
    /\ UNCHANGED <<chainVars, own, lastSyncedBlock, run, restarts, dropped>>

Waiting(pc, t) == {r \in Runs : run[r].pc = pc /\ run[r].event = {t}}

TakeRow(t) ==
    \/ own[t] > 0 /\ own' = [own EXCEPT ![t] = @ - 1] /\ UNCHANGED others
    \/ others[t] > 0 /\ others' = [others EXCEPT ![t] = @ - 1] /\ UNCHANGED own

\* DELETE /token-transactions, of a row that no run holds,
DeleteRow(t) ==
    /\ Rows(t) = 1 => Waiting("update", t) = {}
    /\ TakeRow(t)
    /\ dropped' = IF Rows(t) = 1 THEN dropped \cup {t} ELSE dropped
    /\ UNCHANGED <<chainVars, lastSyncedBlock, run, restarts>>

\* or of one that a run has found: of the runs that hold it, this one saves it first.
DeleteFoundRow(t, r) ==
    /\ r \in Waiting("update", t)
    /\ TakeRow(t)
    /\ run' = [run EXCEPT ![r].pc = "restore"]
    /\ dropped' = IF Rows(t) = 1 THEN dropped \cup {t} ELSE dropped
    /\ UNCHANGED <<chainVars, lastSyncedBlock, restarts>>

------------------------------------------------------------------------------
(* syncTransactions *)

Later(a, b) == IF a >= b THEN a - b ELSE 0

\* Variant: only the first run starts.
StartOnce(r) ==
    LET from == Later(head, Window) IN
    /\ run[r].pc = "idle"
    /\ head > 0 /\ lastSyncedBlock = 0
    /\ run' = [run EXCEPT ![r].pc = "events", ![r].to = head]
    /\ lastSyncedBlock' = from
    /\ dropped' = dropped \cup {t \in Transfers : block[t] \in 1..(from - 1) /\ Rows(t) = 0}
    /\ UNCHANGED <<chainVars, rowVars, restarts>>

\* The chain answers with its head.  On the first run blocks before the window are
\* passed over.
Start(r) ==
    LET from == IF lastSyncedBlock = 0 THEN Later(head, Window) ELSE lastSyncedBlock IN
    /\ run[r].pc = "idle"
    /\ head > 0
    /\ run' = [run EXCEPT ![r].pc = "events", ![r].to = head]
    /\ lastSyncedBlock' = from
    /\ dropped' = dropped \cup {t \in Transfers : block[t] \in 1..(from - 1) /\ Rows(t) = 0}
    /\ UNCHANGED <<chainVars, rowVars, restarts>>

\* The events of the run's contract, in the order of their blocks, up to ChunkSize of
\* them: the token to go on with is not used.  The first block is where the last
\* completed run ended, which may be another one than when this run began.
Events(r) ==
    {t \in Transfers : /\ TokenOf[t] = run[r].token
                       /\ block[t] \in lastSyncedBlock..run[r].to /\ block[t] # 0}

FetchEvents(r) ==
    /\ run[r].pc = "events"
    /\ \E chunk \in SUBSET Events(r) :
          /\ Cardinality(chunk) =
               IF Cardinality(Events(r)) <= ChunkSize THEN Cardinality(Events(r)) ELSE ChunkSize
          /\ \A t \in chunk, u \in Events(r) \ chunk : block[t] <= block[u]
          /\ run' = [run EXCEPT ![r].pc = "loop", ![r].todo = chunk]
          /\ dropped' = dropped \cup {t \in Events(r) \ chunk : Rows(t) = 0}
    /\ UNCHANGED <<chainVars, rowVars, lastSyncedBlock, restarts>>

\* Variant: a run that failed counts as completed.
FetchFailsButEnds(r) ==
    /\ run[r].pc = "events"
    /\ run' = [run EXCEPT ![r] = Idle]
    /\ lastSyncedBlock' = run[r].to
    /\ UNCHANGED <<chainVars, rowVars, restarts, dropped>>

\* The node does not answer: the run ends, and the next one starts where it did.
FetchFails(r) ==
    /\ run[r].pc = "events"
    /\ run' = [run EXCEPT ![r] = Idle]
    /\ UNCHANGED <<chainVars, rowVars, lastSyncedBlock, restarts, dropped>>

\* An event of wallets that are not connected (yet) is left out.
Skip(r, t) ==
    /\ run[r].pc = "loop"
    /\ t \in run[r].todo \ known
    /\ run' = [run EXCEPT ![r].todo = @ \ {t}]
    /\ dropped' = dropped \cup {t}
    /\ UNCHANGED <<chainVars, rowVars, lastSyncedBlock, restarts>>

\* A row with the hash is found: its status becomes CONFIRMED,
FindRow(r, t) ==
    /\ run[r].pc = "loop"
    /\ t \in run[r].todo \cap known /\ Rows(t) > 0
    /\ run' = [run EXCEPT ![r].pc = "update", ![r].event = {t}, ![r].todo = @ \ {t}]
    /\ UNCHANGED <<chainVars, rowVars, lastSyncedBlock, restarts, dropped>>

Continue(r) == run' = [run EXCEPT ![r].pc = "loop", ![r].event = {}]

UpdateRow(r) ==
    /\ run[r].pc = "update"
    /\ Continue(r)
    /\ UNCHANGED <<chainVars, rowVars, lastSyncedBlock, restarts, dropped>>

\* and the save inserts it again if it is gone.
RestoreRow(r) ==
    /\ run[r].pc = "restore"
    /\ others' = [t \in Transfers |-> IF t \in run[r].event THEN others[t] + 1 ELSE others[t]]
    /\ Continue(r)
    /\ UNCHANGED <<chainVars, own, lastSyncedBlock, restarts, dropped>>

\* Variant: whether there is a row or not.
FindNothing(r, t) ==
    /\ run[r].pc = "loop"
    /\ t \in run[r].todo \cap known
    /\ run' = [run EXCEPT ![r].pc = "insert", ![r].event = {t}, ![r].todo = @ \ {t}]
    /\ UNCHANGED <<chainVars, rowVars, lastSyncedBlock, restarts, dropped>>

\* There is none: one is to be inserted,
FindNoRow(r, t) ==
    /\ run[r].pc = "loop"
    /\ t \in run[r].todo \cap known /\ Rows(t) = 0
    /\ run' = [run EXCEPT ![r].pc = "insert", ![r].event = {t}, ![r].todo = @ \ {t}]
    /\ UNCHANGED <<chainVars, rowVars, lastSyncedBlock, restarts, dropped>>

\* after an await.
InsertRow(r) ==
    /\ run[r].pc = "insert"
    /\ own' = [t \in Transfers |-> IF t \in run[r].event THEN own[t] + 1 ELSE own[t]]
    /\ Continue(r)
    /\ UNCHANGED <<chainVars, others, lastSyncedBlock, restarts, dropped>>

\* The error of one event is logged, and the loop goes on without it.
EventFails(r) ==
    \/ /\ run[r].pc \in {"insert", "update", "restore"}
       /\ Continue(r)
       /\ dropped' = dropped \cup {t \in run[r].event : Rows(t) = 0}
       /\ UNCHANGED <<chainVars, rowVars, lastSyncedBlock, restarts>>
    \/ /\ run[r].pc = "loop"
       /\ \E t \in run[r].todo :
             /\ run' = [run EXCEPT ![r].todo = @ \ {t}]
             /\ dropped' = dropped \cup {t}
       /\ UNCHANGED <<chainVars, rowVars, lastSyncedBlock, restarts>>

NextToken(r) ==
    /\ run[r].pc = "loop" /\ run[r].todo = {} /\ run[r].token = 1
    /\ run' = [run EXCEPT ![r].pc = "events", ![r].token = 2]
    /\ UNCHANGED <<chainVars, rowVars, lastSyncedBlock, restarts, dropped>>

\* Variant: the run ends one block on.
FinishAfter(r) ==
    /\ run[r].pc = "loop" /\ run[r].todo = {} /\ run[r].token = 2
    /\ lastSyncedBlock' = run[r].to + 1
    /\ run' = [run EXCEPT ![r] = Idle]
    /\ UNCHANGED <<chainVars, rowVars, restarts, dropped>>

Finish(r) ==
    /\ run[r].pc = "loop" /\ run[r].todo = {} /\ run[r].token = 2
    /\ lastSyncedBlock' = run[r].to
    /\ run' = [run EXCEPT ![r] = Idle]
    /\ UNCHANGED <<chainVars, rowVars, restarts, dropped>>

\* The process stops and is started again.
Restart ==
    /\ restarts < MaxRestarts
    /\ restarts' = restarts + 1
    /\ lastSyncedBlock' = 0
    /\ run' = [r \in Runs |-> Idle]
    /\ UNCHANGED <<chainVars, rowVars, dropped>>

------------------------------------------------------------------------------
\* What a run does next if nothing fails.
Proceed(r) ==
    \/ FetchEvents(r)
    \/ \E t \in Transfers : Skip(r, t) \/ FindRow(r, t) \/ FindNoRow(r, t)
    \/ UpdateRow(r)
    \/ RestoreRow(r)
    \/ InsertRow(r)
    \/ NextToken(r)
    \/ Finish(r)

SyncNext ==
    \/ \E S \in SUBSET {t \in Transfers : block[t] = 0} : Mine(S)
    \/ \E t \in Transfers : ConnectWallets(t) \/ ConfirmTransfer(t) \/ PostRow(t) \/ DeleteRow(t)
    \/ \E t \in Transfers, r \in Runs : DeleteFoundRow(t, r)
    \/ \E r \in Runs : Start(r) \/ Proceed(r) \/ FetchFails(r) \/ EventFails(r)
    \/ Restart

SyncSpec == SyncInit /\ [][SyncNext]_syncVars

\* The timer starts runs, a run goes on, and the node answers the query for each
\* contract again and again.
FairSpec ==
    /\ SyncSpec
    /\ \A r \in Runs : WF_syncVars(Start(r) \/ Proceed(r))
    /\ \A token \in 1..2 : SF_syncVars(\E r \in Runs : FetchEvents(r) /\ run[r].token = token)

------------------------------------------------------------------------------
(* Properties. *)

\* The types, and no block after the head counts as synced.
SyncTypeOK ==
    /\ head \in Numbers /\ block \in [Transfers -> Numbers]
    /\ known \subseteq Transfers
    /\ own \in [Transfers -> Nat] /\ others \in [Transfers -> Nat]
    /\ lastSyncedBlock \in 0..head
    /\ run \in [Runs -> Run]
    /\ restarts \in 0..MaxRestarts
    /\ dropped \subseteq Transfers

Recorded(t) == Rows(t) > 0 \/ t \in dropped

\* The runs together pass over no block: a transfer in a block before the last synced
\* one has its row, or was left out by name (its wallets were unknown, it was beyond
\* the chunk or the window, its own processing failed, or its last row was deleted),
\* however runs overlap, fail and finish in any order, each with a head of its own.
NoBlockIsSkipped ==
    \A t \in Transfers :
       block[t] # 0 /\ block[t] < lastSyncedBlock => Recorded(t)

\* For one transfer the sync has no more rows of its own than there are runs at a time,
\* each of which may look for one before any of them has inserted it: runs that follow
\* one another insert it once, whatever rows other writers post and delete in between.
OneInsertPerRun == \A t \in Transfers : own[t] <= Cardinality(Runs)

\* A transfer on the chain is recorded in the end, or left out by name.
TransfersAreRecorded == \A t \in Transfers : block[t] # 0 ~> Recorded(t)

==============================================================================
