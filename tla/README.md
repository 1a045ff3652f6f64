# Verification of gg_server_prod

TLA+ models of the server under `src/src` (NestJS, TypeORM on PostgreSQL, Socket.IO, Bull on
Redis, starknet.js), TLC runs that check them on small instances, and TLAPS proofs of what holds
for every instance. Paths below are relative to the repository's own `src/`.

- [The system](#the-system): components, state, operations, interactions, what is hard
- [The modules](#the-modules): what each one models and how it corresponds to the code
- [The runs](#the-runs): what each shows, bounds, fairness
- [The proofs](#the-proofs): what is proved, from which assumptions, along which argument
- [Disagreements between code and comments](#disagreements-between-code-and-comments)
- [What is not modelled](#what-is-not-modelled)
- [Plan](#plan)

## The system

One Node process (an *instance*) runs HTTP controllers, two Socket.IO gateways and the workers of
three Bull queues. Several instances may share one PostgreSQL database and one Redis. Inside an
instance JavaScript runs one callback at a time; handlers interleave at their `await`s.

`app.module.ts` imports Users, Message, Auth, Email, Profile, Wallet, ReadReceipt, Conversation,
Notifications, Token, NotificationPreference, Analytics, Moderation, Presence, Webhook and Media.
Some services exist but no module provides them: `TokenSyncService`, `TokenBalanceService`,
`ReputationService`, `BatchProcessor`, `RevalidationWorker`, the cache and content modules, and the
generic gateway of `websocket/`. Services are modelled as they are written, with repositories,
queues and gateways that work once injected.

| Component | State | Operations | Interactions | What makes it correct |
|---|---|---|---|---|
| **Webhooks** `webhook/` | `webhook_configs` rows; Bull queue `webhook` | `createWebhook`, `dispatchEvent`, `processWebhook` | called by token transfers; posts to subscribers | a webhook is disabled after ten failures in a row and never sooner; events reach active webhooks, once; every job ends |
| **Message gateway** `message/message.gateway.ts` | `connectedClients`, `disconnectTimers`, `typingUsers` (memory) | connect, disconnect, 30 s timer, typing, sendMessage, markAsRead | reads conversations; broadcasts | what others are told about a user matches the user's sockets |
| **Presence** `presence/` | `presenceByUser`, heartbeat intervals, `reconnectAttempts` (memory) | connect, disconnect with backoff, typing with timeout, heartbeat | own event emitter, cache | a user with a device is online, one without eventually offline; typing ends |
| **Token transfers** `token/services/token.service.ts`, `transaction.service.ts` | `token_transactions` rows | `transferToken`, create, patch, remove | chain (starknet), webhooks | row, chain, answer and announced events agree |
| **Token sync** `token-sync.service.ts` | `lastSyncedBlock` (memory), `token_transactions` | `syncTransactions` every 5 min | chain, wallets, users, token transfers | no block is passed over; a transfer is stored once for each run at a time, at most |
| **Token balances** `token-balance.service.ts` | `token_balances`, cache | `getBalance`, `updateAllBalances` every 10 min | chain, wallets | one row for each user and token; the cache is not older than the row |
| **Wallets** `wallet/` | `wallets`, `wallet_activities`, `nonces` (memory) | `generateNonce`, `connectWallet`, `disconnectWallet`, `getBalance` | chain (signature check) | an address belongs to one user; a nonce is used once |
| **Accounts** `auth/`, `users/` | `users` rows (password, one-time tokens, refresh token, verified flag) | register, verify, login, refresh, change and reset password | mail | one-time tokens are used once; the stored password is a hash of the chosen one; no update lost |
| **Profiles, reputation** `profile/`, `users/services/` | the same `users` rows, avatar files | update profile, settings, avatar, score | accounts | snapshot saves lose no column another service wrote |
| **Conversations** `conversation/` | conversations, participants with roles | create, add, remove, list | guards read roles | a user takes part once; moderators do not touch admins |
| **Messages** `message/` | `messages`, `message_read_receipts` | create, edit, delete, read | gateway, moderation | rows refer to messages that are there |
| **Read receipts** `read-receipt/` | receipts | `markAsRead` | messages, users | receipts refer to messages that are there; that there is one for each reader and message is what the code says and does not do |
| **Notifications** `notification/` | notifications, device tokens; Bull queue | register token, create, push | Firebase, APNs | a token is active for one user; stored notifications are pushed |
| **Moderation** `moderation/` | review queue, reports; Bull queue | analyse, report, review | messages | what is flagged, or reported often enough, reaches the queue |
| **Content cache** `cache/`, `content/` | `content` rows, Redis keys, circuit breaker, hit counters | get, write, invalidate, warm, reload | database subscriber | a cached copy does not outlive an update; a read changes nothing |
| Notification preferences, analytics, media, email, seeds, shared types | rows or files | single statements, reports, conversions | | |

**What is hard.** Database saves are two statements around a copy read earlier
(`EntitySave`), so two requests or two instances mix columns. Handlers act after an `await` on what
they read before it. Timers fire whatever has happened since they were set. A process may stop
between any two awaits, and Bull then runs a job again. One call of several fails. The hazards, each
with its line and the properties that watch it, are listed in `PROJECT.json`.

## The modules

| Module | Models | Proofs | TLC module |
|---|---|---|---|
| `EntitySave` | the column-wise write of TypeORM's `save` (external) | used by the others | |
| `Webhook` | `WebhookService`, `WebhookProcessor`, Bull's queue | `Webhook_proofs` | `MCWebhook` |
| `Connections` | users, sockets and their owners, for both gateways | | |
| `MessageGateway` | connection side of `MessageGateway` | `MessageGateway_proofs` | in `MCGateways` |
| `Presence` | `PresenceGateway`, `PresenceService` | `Caches_proofs` | in `MCGateways` |
| `Gateways` | the two gateways side by side | | `MCGateways` |
| `TokenTransfer` | `TokenService.transferToken`, `TransactionService`, the save of `TokenSyncService` | `Tokens_proofs` | `MCTokenTransfer` |
| `Accounts` | `AuthService`, `UsersController`, `ProfileService`, links by mail | `Accounts_proofs` | `MCAccounts` |
| `ContentCache` | `ContentCacheService`, `CircuitBreakerService`, `ContentService`, the subscriber, warmer and controllers | `Caches_proofs` | `MCContentCache` |
| `Notifications` | `NotificationsService`, `NotificationProcessor`, Bull's queue | `Notifications_proofs` | `MCNotifications` |
| `WalletRegistry` | abstract: what wallets promise | used by `Wallets` | |
| `Wallets` | `WalletService`; implements `WalletRegistry` | `Wallets_proofs` | `MCWallets` |
| `TokenSync` | `TokenSyncService`, next to the other writers of its table | `Tokens_proofs` | `MCTokenSync` |
| `Conversations` | `ConversationService`, `ConversationPermissionGuard` | in `Messaging_proofs` | in `MCMessaging` |
| `Messages` | `MessageService`, `MessageRepository`, `ModerationService`, `ReportService`, `ReadReceiptService` | in `Messaging_proofs` | in `MCMessaging` |
| `Messaging` | the composition of the last two | `Messaging_proofs` | `MCMessaging` |

Operators whose comment starts with "Variant" are mutated forms of a definition, written next to it:
each property of a passing run is broken by one of them.

### EntitySave
`Repository.save(entity)` of TypeORM 0.3 loads the row, computes the columns in which the entity
differs from it, and updates those, in a READ COMMITTED transaction. Every save in the models is
therefore two steps, a load and a write, and `SavedColumn` gives a column after the write. Other
saves may come between the two, and long before them the entity was read by the service itself.

### Webhook
`rows` is `webhook_configs`, `jobs` the Bull queue, `dispatching[p]` the loop of `dispatchEvent`,
`run[p]` the worker of instance `p` inside `processWebhook` (concurrency 1 per instance).
One action for each segment between awaits: `TakeJob`, `SkipInactive`, `FindFails`, `StartPost`, `PostSucceeds` /
`PostFails`, `LoadRow`, `UpdateRow`, the two ways a save fails, `JobEnds`. `Crash` drops an
instance's calls; `RequeueStalled` is Bull's stalled check (`maxStalledCount` 1, and no `attempts`,
so a failed job is not run again). `lastFailure` is left out because no code reads it; so are url,
secret, signature and payload. History: `failures` counts runs of the catch block, `streak` the
failures recorded since the last success.

### MessageGateway
`clients` and `tracked` are `connectedClients`, `handle` and `pending` the entry of
`disconnectTimers` and the timers that have not fired (all have the same delay, so the last one set
fires last and is the one `handle` refers to), `typing` is `typingUsers`, `told` the last
`userStatus` broadcast. `handleConnection` is two actions, `StoreClient` up to its await and `Joined` after
it, because anything may happen between; the other handlers are one action each, since they run
without an await. The history `raced` records three overlaps that the code does not handle: a timer
fires while `handleConnection` awaits, a client leaves while it awaits, a timer starts while another
is pending. `BookkeepingExact` (of clients, timers and announcement together) holds until then;
what happens after is shown by a run that is violated.
The user id a client announces in its handshake is taken to be that of its token, as the typing
handler reads it from the token. The model is about one life of the process.

### Presence
All state is the process's memory: `Restart` loses it. Handlers await promises that are already
resolved or will be within the same turn of the event loop, so each is one action. `attempts`,
`presence`, `backoff` (pending timers), `beating` (heartbeat intervals) and `typingTimers` (pending
timeouts) correspond to the maps and timers of the code. Timers fire in any order. The first
heartbeat of a connection fails (see below), which ends the process unless something outside the
repository handles it: `HeartbeatFires` is a restart. The model allows it from the first moment, and
it may also never happen within a behaviour. The broadcast `presenceUpdate` carries no user id and is
left out.

### Connections and Gateways
`Connections` has the constants of both gateways. `Gateways` runs them together: they share no state,
their steps commute, and so `GatewaysNext` lets one run while the other is as it starts.

### TokenTransfer
`call[i]` is one `transferToken` request, from the validated parameters to its answer; `row[i]` its
`token_transactions` row, `submitted` what the chain has received, `announced[i]` the events that
reached the webhook queue. Each awaited call is an action and has a failing twin where the code
distinguishes it; `CallLost` stops the process anywhere. `edit[e]` are concurrent PATCH requests
(`findOne`, assign, save in two statements) and `Remove` is DELETE; a PATCH may set the two values of
starknet's own `TransactionStatus` that its DTO validates against. The sync job is the third writer:
`SyncFind` finds a row, of any status, by the hash of a transfer that the chain has received and saves
it as CONFIRMED by the same two statements (`Syncing`), and `SyncInsert` stores a transfer that has no
row. It is modelled as it would run if a module provided the service. `SentElsewhere` is a transfer on
the chain that no call sent, whose hash a client may name in a POST (`CreateRecord`).
So a FAILED row whose transfer the chain did receive, which `ConfirmSaveFails` and
`AnnounceConfirmedFails` leave, becomes CONFIRMED: `OnlySyncConfirmsFailed` says that this is the one
way, and `ColumnsAgree` what else the columns may then say. A save whose row was removed inserts it
again, or fails when the row exists by then. The contract object has a provider and no account; the
model takes a transfer as the code uses it, one that the chain receives or rejects.

### Accounts
`row` is the `users` table, `registered` the accounts that have a row, `req[p]` one HTTP request with
the entity it read and will save. Every handler of `AuthController`, `UsersController` and
`ProfileController` that may write is an action, up to its save (`Save`) or its refusal (`Answer`); what
follows is common to all: `Insert`, or `LoadRow` and `UpdateRow`, and the mail where there is one
(`Mailing`). `SaveFails` and `MailFails` are also the crash before that step. Uuid tokens, uploaded
files and the passwords in bodies are named by the request that made them, so a token tells where it
came from. `Found` leaves the password out, because the column is `select: false`; `HashPassword`
is the entity's hook. E-mail address and username are one name, the account itself; `bio` stands for
the plain profile columns; a POST or PUT that names a verification token is left out. The bodies of
`Create`, `PutProfile` and `PutUser` may name an avatar (`Nameable`): null, a string of the client's own,
for which there is no file, or a file that an upload left. Guarded requests need a token signed with
`JWT_SECRET`; as no request of the program gets one, its holder is taken as given. The history `overlapped`
has the requests during whose read and write another one wrote the row.
`Asked` says what each request is there to do: `SaveIsExact` compares it with what is written, and so
is the one place that says a password reset stores a hash of a hash.

### ContentCache
`row` is one row of the content table (rows do not interact), `cache` its copies in Redis, `req` a
request at the await it has reached. A GET that misses saves the entity it read, to count a view: its
save is a SELECT (`LoadRow`), an UPDATE that locks the row (`UpdateRow`), the subscriber's invalidation
(`ReadKeys`, `DeleteKeys`) inside the transaction, and `Commit`. A PUT is one UPDATE; the subscriber
hears of it with the id only if the body has one (`namesId`). `ReadKeys` finds the keys that
`*:content:ID` matches, which the default key `content:ID` is not. `Expire` ends a time to live at any
moment, `Cool` is the half minute after which the breaker asks again. Views, dates and reports are left
out. The history `raced` says that a write met a fill in progress, or did not invalidate; `late`
which reads saw the row written between their read and their save.

### Notifications
`devices` and `notes` are the two tables, `jobs` Bull's queue, `worker[p]` the loop of
`sendPushNotification`. A registration is `DeactivateToken` and `InsertDevice`, a creation
`CreateNote` and `AddJob`, an update a load and a save that may insert a removed row again.
`RequestFails` stops a request at any of them. A push is accepted, fails, or finds the token invalid;
the last never happens to an iOS token, because `apn` resolves with its failures instead of rejecting.
`JobFails` is the find, which is outside the loop's `try`, or the update in its `catch`. Crashes and
Bull's stalled check are as in `Webhook`. WEB devices are pushed to as ANDROID ones are.

### WalletRegistry and Wallets
`WalletRegistry` has two variables: whom each challenge was issued to and whom each address belongs
to. `Claim` gives a free address to a user with a challenge, once and for good. `Wallets` implements
it with `owner <- wallet` and `Challenges <- Nonces`; everything else it does is a stutter of the
registry. `Connect` is the check of address and nonce, `ChainAnswers` the end of the
chain's `await` with the deletion of *whatever nonce the user then has*, `Store` the INSERT with its
unique column, `LogConnect` the activity. A nonce is the number of its issue, and a signature the
nonce it signs. `Restart` loses nonces and requests. `Remove` is the DELETE that the activities' foreign
key refuses. A request is made once.

Two things to know. The model is wider than the program: `verifySignature` calls `is_valid_signature`
on a contract made with `ERC20_ABI` (`wallet.service.ts:96`), which has only `balanceOf`, so the call
throws and connecting answers 401 whatever is signed. That is `ChainFails`; `ChainAnswers` is what the
code does after a call that works, and the properties hold with either. And an address is the string
in the request, as the code compares and stores it (`wallet.service.ts:121`): leading zeros and letter
case are not normalized, so that "an address belongs to one user" does not mean that an account on the
chain does.

### TokenSync
`run[r]` is a run of the cron job: `Start` (the chain's head, and on the first run the window),
`FetchEvents` for each of the two contracts, one step per event (`Skip`, `FindRow` with `UpdateRow`,
`FindNoRow` with `InsertRow`), `Finish`. Nothing prevents two runs at a time. `own[t]` counts the rows with
the hash of `t` that runs inserted as new, `others[t]` those of the other writers: `ConfirmTransfer` is
`transferToken`, which stores the hash before or after the transfer is mined, and `PostRow` is POST
/token-transactions, with any hash that its client names; neither looks for a row. `DeleteRow` and
`DeleteFoundRow` are DELETE, the second of a row that a run has found and is about to save: the save then
inserts it again (`RestoreRow`). The query's continuation token is not used, so it answers at most
`ChunkSize` events. The history `dropped` names the transfers that a run left out (unknown wallets,
beyond the chunk or the window, an error of their own) or whose last row was deleted.

### Conversations, Messages and Messaging
`Conversations`: `rows` is `conversation_participants` of one conversation, keyed by the request that
inserted each; `request[c]` goes through the guard (`Guard`, `GuardTarget`), the service's own
check (`CheckAdd`, `FindRow`) and its write. `getParticipant` finds any one row of a user. No code
adds the first participant, so `Init` has any.

`Messages`: one call for each request, job or gateway event, from its first statement to its last: sending
(analysis, insert, queueing), the job that analyzes, edits, read marks, receipts, reports with
their count, reviews. `Remove` is one statement, refused by the foreign keys of three tables. A receipt
of a reader or message that is not found has null for it (`Readers`), and the look before it then has no
condition on that one, as TypeORM leaves out undefined and null ones. With both, it compares every
column of the two entities, the dates in milliseconds where the table has microseconds; so `ReceiptCheck`
may miss a receipt that fits, or not.

`Messaging` puts both into one specification. Neither reads a table of the other, so their steps
commute, and `Next` lets one part run while the other rests.

## The runs

| Run | Checks | Bounds |
|---|---|---|
| `Webhook_one` | types; counters, skips and requests exact for one instance; every job ends | 1 instance, 2 webhooks, 2 jobs, limit 2 |
| `Webhook_two` | disabled only after enough failures | 2 instances, 1 webhook, 2 jobs, limit 2 |
| `Gateways` | message gateway: bookkeeping, timers, announcement, typing; a user who left is announced. Presence: device counts, online status, heartbeats, typing timeouts; typing ends | 1 user, 4 sockets, 2 conversations, limit 1, 2 pending timers of a kind |
| `Gateways_offline` | violated: see below | as above |
| `TokenTransfer_safe` | columns, answer, events and row agree; only the sync confirms a FAILED row | 1 transaction, 2 concurrent patches or syncs, 2 statuses |
| `TokenSync` | no block passed over, one insert per run at a time, transfers recorded in the end | 1 transfer of contract 2, 2 runs, 3 blocks, 1 restart, window 1, 1 row of other writers |
| `Accounts` | exact saves without overlap, no old password, links mailed, uploads stored | 1 account, 3 requests |
| `Accounts_login` | violated: see below | as above |
| `Wallets` | a nonce is used once; refinement of `WalletRegistry` | 2 users, 2 addresses, 3 requests, 2 nonces |
| `Messaging` | one row per participant, nothing escapes the moderation queue, roles respected | 2 users, 1 message, 3 requests on participants, 4 calls, threshold 2 |
| `Notifications` | a token is active once, pushes follow tokens, a completed job tried all | 2 users, 1 token, 2 requests, 1 worker, 3 devices, 1 notification |
| `ContentCache` | region copies current, reads keep content, an open circuit has its failures | 2 requests, 1 region and the default key, 2 versions, threshold 2, popular from 1 hit |

**Why the bounds are enough.** The failure limit is 2 instead of 10, the attempts limit 1 instead
of 5, the report threshold 2 instead of 3, the breaker's 2 instead of 5: the code treats all counts
below the limit alike, and both sides of the boundary occur. Two jobs
reach and pass the limit, because a job that a crash repeats may fail twice. Users, transactions,
conversations, messages, contents and device tokens do not interact with others of their kind, so one
of each gives every behaviour of that one; three sockets let one leave, one join and one stay, and a
fourth disconnection passes the limit of presence. Two
requests, runs or workers meet in every pair of steps. With a window of 1 the first run passes over the
first of three blocks. One transfer does not exceed a chunk: what a chunk cuts off is in the theorems of
`TokenSync`, not in its run, because two transfers with rows that others post and delete are too many
states for a liveness property. Two addresses are needed to use a
nonce twice, and the third request of `Wallets` disconnects what another connected. A socket
of `MessageGateway` is used again and again; one of `Presence` once. Transfers, requests and calls are
made once and queues are bounded, so those runs may stop (`CHECK_DEADLOCK FALSE`).
Three requests on an account let one make it and two overlap, or one make it with a link, one use the
link or upload, and one overlap that; they run without a constraint.
`MaxJobs`, `MaxTimers`, `MaxVersion`, `MaxNotes`, `MaxDevices`, `MaxNonces`, `MaxBlock`, `MaxRestarts`, `MaxRows`,
`MaxRequests` and `MaxCalls` only disable the actions that would exceed them.

**Fairness.** `Webhook`: a worker that runs goes on (the request has a timeout of five seconds, the
database answers or fails), and Bull's stalled check recurs. `MessageGateway`: the query of
`handleConnection` answers or fails, and timers fire. `Presence`: typing timeouts fire. `TokenSync`:
the cron job starts runs and a run goes on unless a call of it fails; and the node, which may fail at
any time, answers the query for each contract again and again. Nothing makes
clients connect, events happen or processes crash.

**Exceptions.** Where a property says "unless requests overlapped", the overlap is a history
variable that only the named steps set. It marks behaviours that the code allows: without the
exception TLC finds the duplicate, the stale copy or the lost update. Such a property says that
nothing *but* the named overlap goes wrong; it does not protect against the overlap, which is a fault
of the code that is left as it is. The hazards in `PROJECT.json` say of each which case is exempt:
stale saves of profiles, links and settings (`overlapped`), fills and views of cached content (`raced`,
`late`), two uses of a nonce (`together`), overlapping registrations of a token (`twice`), and of
participants (`stale`, `doubled`), timers of the message gateway (`raced`).

## The proofs

Every invariant and action property that a passing run checks is a theorem, for every value of the
constants. A module of proofs, or `Gateways`, may cover two components; then the definitions that both
name have `Sync` (`TokenSync`), `Cache` (`ContentCache`) or `Gateway` (`MessageGateway`) in one of the two.

- `Webhook`: `TypeCorrect`; `DisabledOnlyAfterFailuresHolds`. The row alone is no induction
  hypothesis, because a save writes an entity read long before. `FailuresInv` says that the row *and*
  every copy a worker still holds is backed by that many failures; failures only grow, so stale
  copies stay backed, and a save mixes columns that are each backed. `RequestsPerJobHolds`, for any
  number of instances, from `JobsInv`: busy workers hold different, active jobs, and a job that waits
  has fewer posts than it may. `OneInstanceIsExactHolds` has a hypothesis, that there is one instance
  (with two its counters differ, which is what `Webhook_two` is about). It follows from `ExactInv`: the
  entity that the worker holds counts what the row will once it is saved, as given by the
  outcome of the post.
- `MessageGateway`: `TypeCorrect`; `BookkeepingExactHolds` (its parts `ClientsExact`, `TimerExact`,
  `OfflineIsGone`), from `GatewayInv`, which adds what is true of a user between connections and in
  the middle of one; `TypingConnected`, by itself inductive given the types.
- `Presence`: `TypeCorrect`; `ConnectedDeviceIsShownHolds` and `TypingTimed` from `Counted`, which
  bounds the device count from below by the connected sockets and ties status, heartbeat and
  timers to it; `OfflineUnreachable`: with at least one attempt allowed no user is ever shown
  offline, for devices are only ever taken away one in `MaxReconnectAttempts + 1`.
- `ContentCache`: `CacheTypeCorrect`, `RegionsAreCurrentHolds` and `ReadsKeepContentHolds`, from
  `CacheInv`. That the copies are current is not inductive: a fill may be about to store an older
  version, and a copy is stale from the write of the row to its invalidation. `FillsAreCurrent` says that
  without a race every fill holds, and has loaded, the row as it is, so that its save and its copy
  change nothing; `StaleIsDeleted` that a write which has not finished is about to delete each stale
  copy; `SavesWhatItRead` that a read which is not `late` loads the version it found, so that its save
  writes no column of the content.
- `TokenTransfer`: `TypeCorrect`; `ColumnsAgreeHolds` and `FailedConfirmedBySync`, from `IInv`:
  what the row, the entity of the call, its loaded copy and the copies of every patch and sync may hold at
  each step of the call. `ToldIsStoredHolds`, from `Told`: what has been announced and answered at each step,
  and, of a row that no patch or removal wrote, what it then is; a save whose loaded copy is still the
  row stores the entity whole.
- `TokenSync`: `SyncTypeCorrect`; `NoBlockIsSkippedHolds`, from `RunsRecord`: of the blocks up to its
  own head, a run has recorded, or left out by name, every transfer that it has passed. Runs
  overlap and the slower one may set `lastSyncedBlock` back; that only lowers the claim.
  `OneInsertPerRunHolds`, by counting: the rows of a transfer that runs inserted and the runs about to
  insert one are together no more than the runs, since a run that looks finds a row if there is one.
- `Accounts`: `TypeCorrect`; `NoOneLogsInHolds` and `OldPasswordNeverReturnsHolds`, from `Inv`: no
  entity about to be saved has a refresh token or a password that its request did not name;
  `SaveIsExactHolds`, from `RequestsExact`: as long as nobody else wrote the row, saving the entity of
  a request over the row of *this moment* would do what the request asks, at every step between its
  read and its write; `LinkIsMailedHolds`, from `LinksKnown`, which says of every entity still held
  what it says of the rows, because a stale one may become the row; `UploadIsStoredHolds`, from
  `AvatarsTaken`: no row and no entity of another request has the name of an upload that is not
  answered, so no other upload removes its file and no save takes the name for unchanged. `NoOneLogsIn`, that no refresh token is ever stored and no
  login, refresh or change of password succeeds, is proved and checked by no run: it is what the code
  does and not what it should do (`Accounts_login`).
- `Wallets`: `TypeCorrect`; `NonceIsUsedOnceHolds`, from `Sound`. That no two wallets share a nonce is
  not inductive: a request with the chain holds a nonce that no wallet has used yet, and its user may
  still have it. `Sound` says of every holder of a nonce (the user, a wallet, a request that is with
  the chain or about to insert) that it was issued to the user concerned, and of a user never
  in `together` that no two of the holders hold the same one. `ImplementsRegistryHolds`: the refinement,
  from the types and `Sound`, with `RemoveIsRefused`, which says that no address is ever released.
- `Notifications`: `TypeCorrect`, where `JobsCounted` bounds the jobs by the stored notifications,
  counting the requests that are about to add one; `CompletedTriedAllHolds`, from `JobsHeld`: busy
  workers hold different jobs, and what a job found is what it has tried and what the worker has
  still to do; `TokenActiveOnceHolds`, from `Registrations`: of a token without overlapping
  registrations one request at most is registering it, and none of its rows is active when that one
  inserts; `PushesFollowTokensHolds`, from `PushesFollow`, which follows a device from the query to its
  push.
- `Messaging`, with one invariant for each part: `ConversationsInv` (`Single`: no row of a user
  whom a request is about to insert; `GuardSound`: what the guard found out still holds of a request
  that nothing has overtaken) and `MessagesInv` (`FlaggedQueued`, `ReportedQueued`:
  a flagged message, or one with enough pending reports, is queued or some call is about to count or
  queue it; of a finite set of reports, since the count is a cardinality). They give `TypeCorrect`,
  `OneRowPerParticipantHolds`, `ChangesAreAllowedHolds` and `NothingEscapesTheQueueHolds`.

TLC checked the inductive invariants of `TokenTransfer`, `ContentCache`, `TokenSync`, `Notifications` and
`Messaging` on the bounds of the runs before they were proved.

Assumptions (each an `ASSUME` that TLC evaluates in the runs): the limits of failures, of reports and
of pending timers and the number of versions are positive, the other bounds are numbers, every
socket has an owner and every transfer one of two contracts, the set of `Presence`'s sockets is finite,
null is no request, user or address, and the statuses a PATCH may set are none of the application's own.

Only model-checked: liveness (`EveryJobEnds`, `GoneIsAnnounced`, `TypingEnds`,
`TransfersAreRecorded`), which the prover does not support, and `TimerSetsOffline` and
`CorrectCredentialsLogIn`, which the code violates. Recursive operators and induction over data
are out of the prover's reach; the modules use neither.

## Disagreements between code and comments

Two are runs that TLC finds violated:

1. `message.gateway.ts:78` "Start a timer to set user as offline". A socket that disconnects while
   `handleConnection` awaits starts the timer; the continuation then broadcasts *online* and clears it.
   The user stays online with no socket (`Gateways_offline`).
2. `test/auth.http:84` "Success: Login with correct credentials". The password is `select: false`
   (`user.entity.ts:45`) and no query selects it: `bcrypt.compare` gets no hash and rejects, so login
   answers 500 for every existing user (`Accounts_login`; `NoOneLogsInHolds` says that it is so always).

Others were seen while modelling. Each is part of the model as the code has it, so the properties hold
with it:

3. `message.gateway.ts:58` "Clear disconnect timer if exists". Two timers of a user may be pending and
   one handle is kept: the other one announces a connected user offline and drops the user's entry.
4. `presence.gateway.ts:86` "Max attempts reached, mark as offline". The call takes one device away,
   and the disconnections before it took none, so the count stays above zero (`OfflineUnreachable`).
5. `presence.types.ts:11` declares `lastActivity: Date`, the heartbeat calls its `getTime()`, and no code
   sets it.
6. `token.controller.ts:55` documents the answer 500 as "Blockchain transaction failed". The save of
   the confirmed row and its announcement are in the same `try`: the chain may have received the
   transfer while the row says FAILED with recovery RETRY. The sync job would later make such a row
   CONFIRMED and leave its error columns (`ColumnsAgree`); and a stale patch together with the sync
   leaves a CONFIRMED row without a hash.
7. `resetPassword` hashes the new password before the entity's hook hashes the hash.
8. `wallet.service.ts:102` "Verify signature using the contract". The contract's ABI has no such method:
   no wallet is ever connected, see [Wallets](#walletregistry-and-wallets).
9. `wallet.controller.ts:48` "Wallet disconnected successfully". Connecting and disconnecting log an
   activity, and its foreign key refuses the DELETE: a wallet is never disconnected (lemma
   `RemoveIsRefused`).
10. `content-cache.service.ts:145` "Invalidate all regions". The pattern does not match the key of requests
   without a region, whose copy ends with its time to live only.
11. `conversation.service.ts:33` makes a conversation without participants, and adding one needs a
   participant's role: the API alone never gives a conversation its first participant.
12. A PATCH that changes a message is not analyzed again.
13. `read-receipt.service.ts:20` "Prevent duplicate read receipts". The lookup by whole entities
   misses the receipt that is there, so that two calls in a row insert two; with a reader or message that
   is not found it takes any receipt for the one asked for; and a receipt may be stored for no message.
14. An avatar is described as a picture's URL (`create-user.dto.ts:72`), uploads store a file's name
   in it, and a body may name another upload's file, or none that exists: the next upload of that
   account then removes what it finds named.

## What is not modelled

- Message bodies, addresses, amounts, signatures, formats, logging, validation of DTOs.
- Rooms and the broadcasts of messages to them: what clients see, not what is stored.
- The PATCH of a conversation's type and title; lists, searches, histories, metrics and reports, which
  only read.
- Token balances and reputation: no module of the application provides their services. A balance is a
  cache over rows that a cron job refreshes, a score one save of the users row (`Accounts` has the races
  of such saves).
- Media conversion, the SMTP, Firebase and APNs calls, analytics, notification preferences, seeds: I/O or
  single statements on rows nobody else writes.

## Plan

1. An abstract delivery service (each event posted at most once, plus once for each crash) and its
   refinement by `Webhook`; an abstract ledger over `TokenTransfer` and `TokenSync`. Their invariants
   are proved; what remains is the refinement mapping of each step.
2. Token balances.
3. The exceptions as theorems: which steps alone may set `raced`, `doubled` or `overlapped`. Runs that show each
   overlap as a violation, where a comment of the code promises otherwise.
