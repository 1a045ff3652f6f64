----------------------------- MODULE ContentCache -----------------------------
(***************************************************************************)
(* ContentCacheService, CircuitBreakerService, ContentSubscriber and the   *)
(* content controllers: one row of the content table, its copies in Redis, *)
(* one for each region and a default one, and the requests that read it    *)
(* through the cache, write it and invalidate the copies.                  *)
(*                                                                         *)
(* A read that misses counts a view with a save of the whole entity, so a  *)
(* GET writes the row; the save's transaction runs the subscriber, which   *)
(* invalidates the copies, before it commits.  Rows do not interact: there *)
(* is one.  Abstracted: the content is a version; views, dates, misses and *)
(* reports are left out; a time to live may end at any time.               *)
(*                                                                         *)
(* What Presence names too has Cache in its name here: the theorems about  *)
(* both, which keep what they know in a cache, are in Caches_proofs.       *)
(***************************************************************************)
EXTENDS Naturals, EntitySave

CONSTANTS
    Requests,           \* requests and background reloads in progress
    Regions,            \* regions named by requests
    MaxVersion,         \* bound: versions written
    Threshold,          \* failures that open the circuit (5 in the code)
    PopularThreshold    \* hits beyond which a key is popular (100 in the code)

ASSUME VersionsAssumption == MaxVersion \in Nat \ {0}

ASSUME ThresholdAssumption == Threshold \in Nat \ {0} /\ PopularThreshold \in Nat

VARIABLES
    row,        \* the version in the content table, 0 when there is no row
    cache,      \* the version in each key of Redis, 0 when there is no copy
    req,        \* requests in progress
    breaker,    \* CircuitBreakerService.breakerState of 'redis'
    hits,       \* analyticsData: hits of each key
    popular,    \* popularContent
    \* History variables, read by properties only.
    latest,     \* the version written last
    raced,      \* a write met a fill in progress, or was not followed by its invalidation
    late        \* reads that saw the row written between their read and their save

aside == <<breaker, hits, popular>>
historyVars == <<latest, raced, late>>
cacheVars == <<row, cache, req, breaker, hits, popular, latest, raced, late>>

Default == "default"
Keys == Regions \cup {Default}
Versions == 0..MaxVersion

\* cooled: the circuit is open, and lastFailure more than 30 seconds ago.
Breaker == [failures : 0..Threshold, isOpen : BOOLEAN, cooled : BOOLEAN]

\* What an await is for: "get" and "set" Redis, "find" the row; "load", "update" and
\* "commit" are the statements of a save, "keys" and "del" those of an invalidation.
\* kind says what the request does: getContent, backgroundReload, or a write.
Request == [pc : {"idle", "get", "find", "load", "update", "keys", "del", "commit", "set"},
            kind : {"read", "reload", "write"}, key : Keys, entity : Versions,
            loaded : Versions, found : SUBSET Regions]

Idle == [pc |-> "idle", kind |-> "read", key |-> Default, entity |-> 0,
         loaded |-> 0, found |-> {}]

CacheInit ==
    /\ row = 0
    /\ cache = [k \in Keys |-> 0]
    /\ req = [r \in Requests |-> Idle]
    /\ breaker = [failures |-> 0, isOpen |-> FALSE, cooled |-> FALSE]
    /\ hits = [k \in Keys |-> 0]
    /\ popular = {}
    /\ latest = 0
    /\ raced = FALSE
    /\ late = {}

------------------------------------------------------------------------------
(* The circuit breaker.  A service without an entry counts as one without    *)
(* failures; failures beyond the threshold count as the threshold.           *)

IsCircuitClosed == ~breaker.isOpen \/ breaker.cooled

\* Asking half-opens a circuit that has cooled, and keeps its failures.
AskCircuit == breaker' = [breaker EXCEPT !.isOpen = @ /\ ~breaker.cooled, !.cooled = FALSE]

RecordSuccess == breaker' = [failures |-> 0, isOpen |-> FALSE, cooled |-> FALSE]

\* Variant: a failure after the circuit was half-opened starts the count again.
RecordFailureAnew ==
    breaker' = [failures |-> 1, isOpen |-> breaker.failures + 1 >= Threshold, cooled |-> FALSE]

RecordFailure ==
    LET n == IF breaker.failures < Threshold THEN breaker.failures + 1 ELSE Threshold
    IN breaker' = [failures |-> n, isOpen |-> n >= Threshold \/ breaker.isOpen, cooled |-> FALSE]

\* Half a minute passes without a failure; of an open circuit only this matters.
Cool ==
    /\ breaker.isOpen /\ ~breaker.cooled
    /\ breaker' = [breaker EXCEPT !.cooled = TRUE]
    /\ UNCHANGED <<row, cache, req, hits, popular, historyVars>>

------------------------------------------------------------------------------
(* getContent *)

Goto(r, pc) == req' = [req EXCEPT ![r].pc = pc]

End(r) == req' = [req EXCEPT ![r] = Idle]

\* A request that forces fresh content skips the cache and does not ask the circuit.
GetContent(r, k, forceFresh) ==
    /\ req[r].pc = "idle"
    /\ req' = [req EXCEPT ![r].kind = "read", ![r].key = k,
                          ![r].pc = IF ~forceFresh /\ IsCircuitClosed THEN "get" ELSE "find"]
    /\ IF forceFresh THEN UNCHANGED breaker ELSE AskCircuit
    /\ UNCHANGED <<row, cache, hits, popular, historyVars>>

\* hits is capped beyond the threshold, where all counts mean the same.
CacheHit(r) ==
    LET k == req[r].key
        n == IF hits[k] > PopularThreshold THEN hits[k] ELSE hits[k] + 1 IN
    /\ req[r].pc = "get"
    /\ cache[k] # 0
    /\ hits' = [hits EXCEPT ![k] = n]
    /\ popular' = IF n > PopularThreshold THEN popular \cup {k} ELSE popular
    /\ End(r)
    /\ UNCHANGED <<row, cache, breaker, historyVars>>

CacheMiss(r) ==
    /\ req[r].pc = "get"
    /\ cache[req[r].key] = 0
    /\ Goto(r, "find")
    /\ UNCHANGED <<row, cache, aside, historyVars>>

CacheGetFails(r) ==
    /\ req[r].pc = "get"
    /\ RecordFailure
    /\ Goto(r, "find")
    /\ UNCHANGED <<row, cache, hits, popular, historyVars>>

\* A request writes the row while reads are between their read and their save.
RowWritten(r) == late' = (late \ {r}) \cup {q \in Requests : req[q].pc = "load"}

\* findOne; a reload stores what it found, a read saves it first, with its view.
Find(r) ==
    /\ req[r].pc = "find"
    /\ IF row = 0 THEN End(r)
       ELSE req' = [req EXCEPT ![r].entity = row,
                               ![r].pc = IF req[r].kind = "reload" THEN "set" ELSE "load"]
    /\ late' = late \ {r}
    /\ UNCHANGED <<row, cache, aside, latest, raced>>

\* The SELECT of the save.
LoadRow(r) ==
    /\ req[r].pc = "load"
    /\ req' = [req EXCEPT ![r].loaded = row, ![r].pc = "update"]
    /\ UNCHANGED <<row, cache, aside, historyVars>>

\* From the UPDATE of a save to its commit the row is locked.
Locked == \E r \in Requests : req[r].kind = "read" /\ req[r].pc \in {"keys", "del", "commit"}

\* A save that found no row inserts it, without the subscriber.
InsertRow(r) ==
    /\ req[r].pc = "update"
    /\ req[r].loaded = 0 /\ row = 0
    /\ row' = req[r].entity
    /\ Goto(r, "set")
    /\ RowWritten(r)
    /\ UNCHANGED <<cache, aside, latest, raced>>

\* Otherwise it updates the row (the date of the access always differs), and the
\* library calls ContentSubscriber.afterUpdate.
UpdateRow(r) ==
    /\ req[r].pc = "update"
    /\ req[r].loaded # 0 /\ ~Locked
    /\ Goto(r, "keys")
    /\ UNCHANGED <<row, cache, aside, historyVars>>

\* Variant: every column is written.
CommitEntity(r) ==
    /\ req[r].pc = "commit"
    /\ row' = IF row = 0 THEN 0 ELSE req[r].entity
    /\ Goto(r, "set")
    /\ RowWritten(r)
    /\ UNCHANGED <<cache, aside, latest, raced>>

\* A row that is gone stays gone.
Commit(r) ==
    /\ req[r].pc = "commit"
    /\ row' = IF row = 0 THEN 0 ELSE SavedColumn(row, req[r].loaded, req[r].entity)
    /\ Goto(r, "set")
    /\ RowWritten(r)
    /\ UNCHANGED <<cache, aside, latest, raced>>

StoreCopy(r) ==
    /\ req[r].pc = "set"
    /\ cache' = [cache EXCEPT ![req[r].key] = req[r].entity]
    /\ IF req[r].kind = "read" THEN RecordSuccess ELSE UNCHANGED breaker
    /\ End(r)
    /\ UNCHANGED <<row, hits, popular, historyVars>>

StoreCopyFails(r) ==
    /\ req[r].pc = "set"
    /\ IF req[r].kind = "read" THEN RecordFailure ELSE UNCHANGED breaker
    /\ End(r)
    /\ UNCHANGED <<row, cache, hits, popular, historyVars>>

\* A statement of the database fails, or the invalidation inside the save does:
\* the transaction is rolled back and the error is the answer.
ReadFails(r) ==
    /\ req[r].kind # "write"
    /\ req[r].pc \in {"find", "load", "update", "keys", "del", "commit"}
    /\ End(r)
    /\ late' = late \ {r}
    /\ UNCHANGED <<row, cache, aside, latest, raced>>

------------------------------------------------------------------------------
(* invalidateContent *)

\* KEYS: the pattern *:content:ID matches the keys that begin with a region; the
\* default key is content:ID.
ReadKeys(r) ==
    /\ req[r].pc = "keys"
    /\ req' = [req EXCEPT ![r].found = {k \in Regions : cache[k] # 0}, ![r].pc = "del"]
    /\ UNCHANGED <<row, cache, aside, historyVars>>

\* DEL of the keys found; a save goes on to commit, a write has been answered.
DeleteKeys(r) ==
    /\ req[r].pc = "del"
    /\ cache' = [k \in Keys |-> IF k \in req[r].found THEN 0 ELSE cache[k]]
    /\ IF req[r].kind = "read" THEN Goto(r, "commit") ELSE End(r)
    /\ UNCHANGED <<row, aside, historyVars>>

InvalidationFails(r) ==
    /\ req[r].kind = "write"
    /\ req[r].pc \in {"keys", "del"}
    /\ End(r)
    /\ raced' = TRUE
    /\ UNCHANGED <<row, cache, aside, latest, late>>

------------------------------------------------------------------------------
(* Writes *)

\* A fill holds a version that it read and has not stored yet.
Filling(r) == req[r].kind # "write" /\ req[r].entity # 0

Invalidate(r) == req' = [req EXCEPT ![r].kind = "write", ![r].pc = "keys"]

\* POST, once: ids are not used again.
Create ==
    /\ latest = 0
    /\ row' = 1 /\ latest' = 1
    /\ UNCHANGED <<cache, req, aside, raced, late>>

\* PUT: repository.update, and the subscriber if the body names the id.  Without it,
\* event.entity has no id and the copies stay.
Update(r, namesId) ==
    /\ req[r].pc = "idle"
    /\ row # 0 /\ latest < MaxVersion /\ ~Locked
    /\ row' = latest + 1 /\ latest' = latest + 1
    /\ raced' = (raced \/ ~namesId \/ \E q \in Requests : Filling(q))
    /\ RowWritten(r)
    /\ IF namesId THEN Invalidate(r) ELSE UNCHANGED req
    /\ UNCHANGED <<cache, aside>>

\* Variant: the copies are left to the subscriber, which hears of updates only.
RemoveOnly(r) ==
    /\ req[r].pc = "idle"
    /\ row # 0 /\ ~Locked
    /\ row' = 0
    /\ raced' = (raced \/ \E q \in Requests : Filling(q))
    /\ RowWritten(r)
    /\ UNCHANGED <<cache, req, aside, latest>>

\* DELETE: the row, then the copies.
Remove(r) ==
    /\ req[r].pc = "idle"
    /\ row # 0 /\ ~Locked
    /\ row' = 0
    /\ raced' = (raced \/ \E q \in Requests : Filling(q))
    /\ RowWritten(r)
    /\ Invalidate(r)
    /\ UNCHANGED <<cache, aside, latest>>

\* The PUT of the cache's own controller invalidates and writes nothing.
InvalidateOnly(r) ==
    /\ req[r].pc = "idle"
    /\ Invalidate(r)
    /\ UNCHANGED <<row, cache, aside, historyVars>>

------------------------------------------------------------------------------
(* Timers *)

\* revalidatePopularContent reloads every popular key.
BackgroundReload(r, k) ==
    /\ req[r].pc = "idle"
    /\ k \in popular
    /\ req' = [req EXCEPT ![r].kind = "reload", ![r].key = k, ![r].pc = "find"]
    /\ UNCHANGED <<row, cache, aside, historyVars>>

\* CacheWarmerService reads the regions' copies afresh, at the start and every three
\* hours.
WarmCache(r) == \E k \in Regions : GetContent(r, k, TRUE)

\* generateAnalyticsReport resets the counters and keeps what is popular.
GenerateAnalyticsReport ==
    /\ \E k \in Keys : hits[k] > 0
    /\ hits' = [k \in Keys |-> 0]
    /\ UNCHANGED <<row, cache, req, breaker, popular, historyVars>>

\* The time to live of a copy ends.
Expire(k) ==
    /\ cache[k] # 0
    /\ cache' = [cache EXCEPT ![k] = 0]
    /\ UNCHANGED <<row, req, aside, historyVars>>

------------------------------------------------------------------------------
Step(r) ==
    \/ \E k \in Keys, forceFresh \in BOOLEAN : GetContent(r, k, forceFresh)
    \/ CacheHit(r)
    \/ CacheMiss(r)
    \/ CacheGetFails(r)
    \/ Find(r)
    \/ LoadRow(r)
    \/ InsertRow(r)
    \/ UpdateRow(r)
    \/ Commit(r)
    \/ StoreCopy(r)
    \/ StoreCopyFails(r)
    \/ ReadFails(r)
    \/ ReadKeys(r)
    \/ DeleteKeys(r)
    \/ InvalidationFails(r)
    \/ \E namesId \in BOOLEAN : Update(r, namesId)
    \/ Remove(r)
    \/ InvalidateOnly(r)
    \/ \E k \in Keys : BackgroundReload(r, k)
    \/ WarmCache(r)

CacheNext ==
    \/ \E r \in Requests : Step(r)
    \/ \E k \in Keys : Expire(k)
    \/ Create
    \/ Cool
    \/ GenerateAnalyticsReport

CacheSpec == CacheInit /\ [][CacheNext]_cacheVars

------------------------------------------------------------------------------
(* Properties. *)

\* The types, and an open circuit has its failures.
CacheTypeOK ==
    /\ row \in Versions /\ latest \in Versions
    /\ cache \in [Keys -> Versions]
    /\ req \in [Requests -> Request]
    /\ breaker \in Breaker /\ (breaker.isOpen => breaker.failures = Threshold)
    /\ hits \in [Keys -> Nat]
    /\ popular \subseteq Keys
    /\ raced \in BOOLEAN
    /\ late \subseteq Requests

Current(k) == cache[k] \in {0, row}

Writing == \E r \in Requests : req[r].kind = "write"

\* Once the writes so far have invalidated, a region's copy is the row as it is,
\* whatever reads, reloads and their saves did meanwhile: a copy outlives an update
\* or the row only if a fill that had read the row before was still in progress, if
\* the invalidation failed, or if the update did not name its id.
RegionsAreCurrent == ~raced /\ ~Writing => \A k \in Regions : Current(k)

\* Reading does not change the content: a read's save puts an older version back, or
\* a removed row, only if the row was written between its own read and the SELECT of
\* its save.
ReadsKeepContent ==
    [][\A r \in Requests :
          req[r].kind = "read" /\ req[r].pc \in {"update", "commit"} /\ req'[r].pc = "set"
          /\ row' # row => r \in late]_cacheVars

==============================================================================
