------------------------------- MODULE Webhook -------------------------------
(***************************************************************************)
(* WebhookService and WebhookProcessor: an event is turned into one Bull   *)
(* job for each subscribed active webhook; a job posts the payload to the  *)
(* webhook's url and records the outcome in the webhook_configs row, which *)
(* is disabled after FailureLimit failures.                                *)
(*                                                                         *)
(* Every instance of the application (Procs) runs both the dispatching     *)
(* side and one queue worker (a Bull processor has concurrency 1), against *)
(* the same Redis queue and the same table.                                *)
(*                                                                         *)
(* Abstracted: url, secret, signature, headers, timestamp and payload are  *)
(* left out, and so is lastFailure, which no code reads.                   *)
(***************************************************************************)
EXTENDS Naturals, FiniteSets, Sequences, EntitySave

CONSTANTS
    Hooks,          \* ids of webhook_configs rows
    Events,         \* WebhookEvent
    Procs,          \* instances of the application
    MaxJobs,        \* bound: jobs ever queued
    FailureLimit    \* failures that disable a webhook (10 in the code)

ASSUME FailureLimitAssumption == FailureLimit \in Nat \ {0}

VARIABLES
    stored,         \* the webhooks created so far
    rows,           \* webhook_configs
    jobs,           \* Bull's jobs, in the order they were added
    dispatching,    \* per instance: webhooks a dispatchEvent has still to queue
    run,            \* per instance: the worker's processWebhook in progress
    \* History variables, read by properties only.
    failures,       \* per webhook: times the catch block ran
    streak          \* per webhook: failures recorded since the last success that
                    \* any record (of it, or of its failed save) accounts for

historyVars == <<failures, streak>>
vars == <<stored, rows, jobs, dispatching, run, failures, streak>>

Row == [events : SUBSET Events, failedAttempts : Nat, isActive : BOOLEAN]

\* stalls counts the times Bull requeued the job; posts is history: requests sent.
Job == [hook : Hooks, stalls : {0, 1}, posts : Nat,
        state : {"waiting", "active", "completed", "failed"}]

\* A worker is idle, about to read the row, waiting for the url to answer, saving
\* the entity (about to load the row, or to update it), or about to tell Bull.
\* The outcome "unrecorded" is a successful request whose save failed.
Worker == [pc : {"idle", "find", "post", "load", "write", "end"}, job : Nat,
           entity : Row, loaded : Row, outcome : {"ok", "failed", "unrecorded"}]

NewRow(events) == [events |-> events, failedAttempts |-> 0, isActive |-> TRUE]

Idle == [pc |-> "idle", job |-> 0, entity |-> NewRow({}),
         loaded |-> NewRow({}), outcome |-> "ok"]

Init ==
    /\ stored = {}
    /\ rows = [h \in Hooks |-> NewRow({})]
    /\ jobs = <<>>
    /\ dispatching = [p \in Procs |-> {}]
    /\ run = [p \in Procs |-> Idle]
    /\ failures = [h \in Hooks |-> 0]
    /\ streak = [h \in Hooks |-> 0]

------------------------------------------------------------------------------
(* The API side of an instance. *)

CreateWebhook(h, events) ==
    /\ h \notin stored
    /\ stored' = stored \cup {h}
    /\ rows' = [rows EXCEPT ![h] = NewRow(events)]
    /\ UNCHANGED <<jobs, dispatching, run, historyVars>>

Subscribers(event) == {h \in stored : rows[h].isActive /\ event \in rows[h].events}

\* dispatchEvent reads the active webhooks once.  Bounds: one dispatch at a time
\* in an instance, and MaxJobs jobs in all.
DispatchEvent(p, event) ==
    /\ dispatching[p] = {}
    /\ Subscribers(event) # {}
    /\ Len(jobs) + Cardinality(Subscribers(event)) <= MaxJobs
    /\ dispatching' = [dispatching EXCEPT ![p] = Subscribers(event)]
    /\ UNCHANGED <<stored, rows, jobs, run, historyVars>>

\* Then it adds their jobs one by one, awaiting the queue each time,
AddJob(p, h) ==
    /\ h \in dispatching[p]
    /\ jobs' = Append(jobs, [hook |-> h, stalls |-> 0, posts |-> 0, state |-> "waiting"])
    /\ dispatching' = [dispatching EXCEPT ![p] = @ \ {h}]
    /\ UNCHANGED <<stored, rows, run, historyVars>>

\* until the queue refuses one: the rejection ends the loop.
AddJobFails(p) ==
    /\ dispatching[p] # {}
    /\ dispatching' = [dispatching EXCEPT ![p] = {}]
    /\ UNCHANGED <<stored, rows, jobs, run, historyVars>>

------------------------------------------------------------------------------
(* The worker side of an instance. *)

HookOf(p) == jobs[run[p].job].hook

SetJobState(j, state) == jobs' = [jobs EXCEPT ![j].state = state]

\* The job ends, and with it the worker's call.
EndJob(p, state) ==
    /\ SetJobState(run[p].job, state)
    /\ run' = [run EXCEPT ![p] = Idle]

\* Bull hands out waiting jobs in the order they were added.
TakeJob(p) ==
    /\ run[p].pc = "idle"
    /\ \E j \in 1..Len(jobs) :
          /\ jobs[j].state = "waiting"
          /\ \A i \in 1..(j - 1) : jobs[i].state # "waiting"
          /\ SetJobState(j, "active")
          /\ run' = [run EXCEPT ![p].pc = "find", ![p].job = j]
    /\ UNCHANGED <<stored, rows, dispatching, historyVars>>

\* A job of a webhook disabled since it was queued ends without a request.
SkipInactive(p) ==
    /\ run[p].pc = "find"
    /\ ~rows[HookOf(p)].isActive
    /\ EndJob(p, "completed")
    /\ UNCHANGED <<stored, rows, dispatching, historyVars>>

\* The lookup comes before the try block: when the database rejects it, the job fails
\* without a request, and nothing counts that.
FindFails(p) ==
    /\ run[p].pc = "find"
    /\ EndJob(p, "failed")
    /\ UNCHANGED <<stored, rows, dispatching, historyVars>>

StartPost(p) ==
    /\ run[p].pc = "find"
    /\ rows[HookOf(p)].isActive
    /\ run' = [run EXCEPT ![p].pc = "post", ![p].entity = rows[HookOf(p)]]
    /\ jobs' = [jobs EXCEPT ![run[p].job].posts = @ + 1]
    /\ UNCHANGED <<stored, rows, dispatching, historyVars>>

\* Variant: a success does not reset the counter.
PostSucceedsKeepsCount(p) ==
    /\ run[p].pc = "post"
    /\ run' = [run EXCEPT ![p].pc = "load", ![p].outcome = "ok"]
    /\ UNCHANGED <<stored, rows, jobs, dispatching, historyVars>>

PostSucceeds(p) ==
    /\ run[p].pc = "post"
    /\ run' = [run EXCEPT ![p].pc = "load", ![p].outcome = "ok",
                          ![p].entity.failedAttempts = 0]
    /\ UNCHANGED <<stored, rows, jobs, dispatching, historyVars>>

\* Variant: the limit is off by one.
FailedTooSoon(entity) ==
    [entity EXCEPT !.failedAttempts = @ + 1,
                   !.isActive = IF entity.failedAttempts + 2 >= FailureLimit THEN FALSE ELSE @]

\* The entity after the catch block's assignments.
Failed(entity) ==
    [entity EXCEPT !.failedAttempts = @ + 1,
                   !.isActive = IF entity.failedAttempts + 1 >= FailureLimit THEN FALSE ELSE @]

EnterCatch(p, outcome) ==
    /\ run' = [run EXCEPT ![p].pc = "load", ![p].outcome = outcome,
                          ![p].entity = Failed(run[p].entity)]
    /\ failures' = [failures EXCEPT ![HookOf(p)] = @ + 1]
    /\ UNCHANGED <<stored, rows, jobs, dispatching, streak>>

\* The url answers with an error, or not within five seconds.
PostFails(p) == run[p].pc = "post" /\ EnterCatch(p, "failed")

\* The save after a successful request is inside the try block: when the
\* database rejects it, the catch block counts a failure.
SaveOfSuccessFails(p) ==
    /\ run[p].pc \in {"load", "write"}
    /\ run[p].outcome = "ok"
    /\ EnterCatch(p, "unrecorded")

LoadRow(p) ==
    /\ run[p].pc = "load"
    /\ run' = [run EXCEPT ![p].pc = "write", ![p].loaded = rows[HookOf(p)]]
    /\ UNCHANGED <<stored, rows, jobs, dispatching, historyVars>>

\* The row after the UPDATE of a save of entity that loaded the row as loaded.
SavedRow(row, loaded, entity) ==
    [row EXCEPT
       !.failedAttempts = SavedColumn(@, loaded.failedAttempts, entity.failedAttempts),
       !.isActive = SavedColumn(@, loaded.isActive, entity.isActive)]

UpdateRow(p) ==
    LET h == HookOf(p) IN
    /\ run[p].pc = "write"
    /\ rows' = [rows EXCEPT ![h] = SavedRow(@, run[p].loaded, run[p].entity)]
    /\ streak' = [streak EXCEPT ![h] = CASE run[p].outcome = "ok" -> 0
                                        [] run[p].outcome = "unrecorded" -> 1
                                        [] run[p].outcome = "failed" -> @ + 1]
    /\ run' = [run EXCEPT ![p].pc = "end"]
    /\ UNCHANGED <<stored, jobs, dispatching, failures>>

\* A recorded failure is rethrown, and Bull marks the job failed: it is added
\* without attempts, so Bull does not run it again.
JobEnds(p) ==
    /\ run[p].pc = "end"
    /\ EndJob(p, IF run[p].outcome = "ok" THEN "completed" ELSE "failed")
    /\ UNCHANGED <<stored, rows, dispatching, historyVars>>

\* The save of a failure is rejected too: nothing is recorded.
SaveOfFailureFails(p) ==
    /\ run[p].pc \in {"load", "write"}
    /\ run[p].outcome # "ok"
    /\ EndJob(p, "failed")
    /\ UNCHANGED <<stored, rows, dispatching, historyVars>>

------------------------------------------------------------------------------
(* Crashes. *)

\* An instance stops and is started again: its dispatch and its worker's call
\* are lost, an active job stays active.
Crash(p) ==
    /\ run[p].pc # "idle" \/ dispatching[p] # {}
    /\ run' = [run EXCEPT ![p] = Idle]
    /\ dispatching' = [dispatching EXCEPT ![p] = {}]
    /\ UNCHANGED <<stored, rows, jobs, historyVars>>

\* Variants: the number of times a job may stall is unlimited; a job that stalls
\* for the second time is left as it is.
RequeueStalledAlways(j) ==
    /\ jobs[j].state = "active"
    /\ \A p \in Procs : run[p].job # j
    /\ jobs' = [jobs EXCEPT ![j].state = "waiting", ![j].stalls = @ + 1]
    /\ UNCHANGED <<stored, rows, dispatching, run, historyVars>>

RequeueStalledOnce(j) ==
    /\ j \in 1..Len(jobs)
    /\ jobs[j].state = "active"
    /\ jobs[j].stalls = 0
    /\ \A p \in Procs : run[p].job # j
    /\ jobs' = [jobs EXCEPT ![j].state = "waiting", ![j].stalls = 1]
    /\ UNCHANGED <<stored, rows, dispatching, run, historyVars>>

\* Bull finds the lock of an active job expired: the job is queued again, once
\* (maxStalledCount is 1), and fails the next time.
RequeueStalled(j) ==
    /\ j \in 1..Len(jobs)
    /\ jobs[j].state = "active"
    /\ \A p \in Procs : run[p].job # j
    /\ jobs' = [jobs EXCEPT ![j].state = IF jobs[j].stalls = 0 THEN "waiting" ELSE "failed",
                            ![j].stalls = 1]
    /\ UNCHANGED <<stored, rows, dispatching, run, historyVars>>

------------------------------------------------------------------------------
WorkerStep(p) ==
    \/ TakeJob(p)
    \/ SkipInactive(p)
    \/ FindFails(p)
    \/ StartPost(p)
    \/ PostSucceeds(p)
    \/ PostFails(p)
    \/ SaveOfSuccessFails(p)
    \/ LoadRow(p)
    \/ UpdateRow(p)
    \/ JobEnds(p)
    \/ SaveOfFailureFails(p)

Next ==
    \/ \E h \in Hooks, events \in SUBSET Events : CreateWebhook(h, events)
    \/ \E p \in Procs :
         \/ \E event \in Events : DispatchEvent(p, event)
         \/ \E h \in Hooks : AddJob(p, h)
         \/ AddJobFails(p)
         \/ WorkerStep(p)
         \/ Crash(p)
    \/ \E j \in 1..Len(jobs) : RequeueStalled(j)

Spec == Init /\ [][Next]_vars

\* A running worker goes on, axios gives up after five seconds, and Bull checks
\* for stalled jobs periodically.  Nothing makes events or crashes happen.
FairSpec ==
    /\ Spec
    /\ \A p \in Procs : WF_vars(WorkerStep(p))
    /\ \A j \in 1..MaxJobs : WF_vars(RequeueStalled(j))

------------------------------------------------------------------------------
(* Properties. *)

TypeOK ==
    /\ stored \subseteq Hooks
    /\ rows \in [Hooks -> Row]
    /\ jobs \in Seq(Job)
    /\ dispatching \in [Procs -> SUBSET Hooks]
    /\ run \in [Procs -> Worker]
    /\ failures \in [Hooks -> Nat]
    /\ streak \in [Hooks -> Nat]

\* However the instances' saves interleave, and whatever is lost in crashes and
\* failed saves, a webhook is disabled only after the catch block of
\* processWebhook ran FailureLimit times for it.
DisabledOnlyAfterFailures ==
    \A h \in Hooks : ~rows[h].isActive => failures[h] >= FailureLimit

\* With one instance the read, the request and the save of processWebhook lose
\* no update: failedAttempts is the number of failures recorded since the last
\* success a save accounts for, and the webhook is active while that is below the limit.
CounterExact ==
    \A h \in Hooks :
       /\ rows[h].failedAttempts = streak[h]
       /\ rows[h].isActive <=> streak[h] < FailureLimit

\* A job sends at most one request, and a second one only after a crash made
\* Bull requeue it: neither a failed request nor a failed save repeats it.
RequestsPerJob ==
    \A j \in 1..Len(jobs) : jobs[j].posts <= 1 + jobs[j].stalls

\* A job that completed without a request is one of a webhook that is disabled:
\* with one instance no event is silently dropped for an active webhook.
SkippedOnlyIfDisabled ==
    \A j \in 1..Len(jobs) :
       jobs[j].state = "completed" /\ jobs[j].posts = 0 => ~rows[jobs[j].hook].isActive

\* The three together.
OneInstanceIsExact == CounterExact /\ RequestsPerJob /\ SkippedOnlyIfDisabled

\* Every queued job ends, crashes and failing saves included.
EveryJobEnds ==
    \A j \in 1..MaxJobs :
       j <= Len(jobs) ~> (j <= Len(jobs) /\ jobs[j].state \in {"completed", "failed"})

==============================================================================
