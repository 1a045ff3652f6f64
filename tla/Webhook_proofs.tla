--------------------------- MODULE Webhook_proofs ---------------------------
(***************************************************************************)
(* Theorems about Webhook, for every set of webhooks, events and           *)
(* instances, every queue length and every FailureLimit; the last one, for *)
(* a deployment of one instance, whose copies of a row nobody outdates.    *)
(***************************************************************************)
EXTENDS Webhook, TLAPS

(***************************************************************************)
(* Type correctness.  What an action needs beyond the types is that a busy *)
(* worker's job is in the queue.                                           *)
(***************************************************************************)
BusyHasJob == \A p \in Procs : run[p].pc # "idle" => run[p].job \in 1..Len(jobs)

TypeInv == TypeOK /\ BusyHasJob

LEMMA IdleType == Idle \in Worker /\ \A events \in SUBSET Events : NewRow(events) \in Row
  BY DEF Idle, Worker, NewRow, Row

\* Saving an entity leaves a row, and the catch block's changes an entity.
LEMMA EntityTypes ==
  ASSUME NEW row \in Row, NEW loaded \in Row, NEW entity \in Row
  PROVE  SavedRow(row, loaded, entity) \in Row /\ Failed(entity) \in Row
  <1>1. \A S : \A a, b, c \in S : SavedColumn(a, b, c) \in S
    BY DEF SavedColumn
  <1>2. SavedRow(row, loaded, entity) \in Row
    BY <1>1 DEF Row, SavedRow
  <1>3. Failed(entity) \in Row
    <2>1. entity.failedAttempts + 1 \in Nat
      BY DEF Row
    <2>2. (IF entity.failedAttempts + 1 >= FailureLimit THEN FALSE ELSE entity.isActive)
            \in BOOLEAN
      BY DEF Row
    <2> QED
      BY <2>1, <2>2 DEF Row, Failed
  <1> QED
    BY <1>2, <1>3

\* Setting a job's state keeps the queue's type, its length and the hooks.
LEMMA SetJobStateKeeps ==
  ASSUME TypeOK, NEW j \in 1..Len(jobs),
         NEW state \in {"waiting", "active", "completed", "failed"},
         SetJobState(j, state)
  PROVE  /\ jobs' \in Seq(Job)
         /\ Len(jobs') = Len(jobs)
         /\ \A i \in 1..Len(jobs) : jobs'[i].hook = jobs[i].hook
  <1>1. /\ jobs \in Seq(Job)
        /\ jobs[j] \in Job
    BY DEF TypeOK
  <1>2. [jobs[j] EXCEPT !.state = state] \in Job
    BY <1>1 DEF Job
  <1>3. jobs' = [jobs EXCEPT ![j] = [jobs[j] EXCEPT !.state = state]]
    BY DEF SetJobState
  <1>4. jobs' \in Seq(Job) /\ Len(jobs') = Len(jobs)
    BY <1>1, <1>2, <1>3
  <1>5. \A i \in 1..Len(jobs) : jobs'[i].hook = jobs[i].hook
    BY <1>1, <1>3 DEF Job
  <1> QED
    BY <1>4, <1>5

LEMMA WorkerStepType ==
  ASSUME TypeInv, NEW p \in Procs, WorkerStep(p)
  PROVE  TypeInv'
  <1> USE DEF TypeInv, BusyHasJob
  <1>h. run[p].pc # "idle" => /\ run[p].job \in 1..Len(jobs)
                              /\ jobs[run[p].job] \in Job
                              /\ HookOf(p) \in Hooks
    <2>1. \A j \in 1..Len(jobs) : jobs[j] \in Job
      BY DEF TypeOK
    <2> QED
      BY <2>1 DEF HookOf, Job
  <1>1. CASE TakeJob(p)
    <2>1. PICK j \in 1..Len(jobs) :
             /\ SetJobState(j, "active")
             /\ run' = [run EXCEPT ![p].pc = "find", ![p].job = j]
      BY <1>1 DEF TakeJob
    <2>2. jobs' \in Seq(Job) /\ Len(jobs') = Len(jobs)
      BY <2>1, SetJobStateKeeps
    <2>3. j \in Nat /\ run \in [Procs -> Worker]
      BY DEF TypeOK
    <2>4. run' \in [Procs -> Worker]
      BY <2>1, <2>3, ZenonT(60) DEF Worker
    <2> QED
      BY <1>1, <2>1, <2>2, <2>4 DEF TypeOK, TakeJob, historyVars, Worker
  <1>2. CASE SkipInactive(p)
    <2>1. jobs' \in Seq(Job) /\ Len(jobs') = Len(jobs)
      BY <1>2, <1>h, SetJobStateKeeps DEF SkipInactive, EndJob
    <2> QED
      BY <1>2, <2>1, IdleType DEF TypeOK, SkipInactive, EndJob, historyVars, Idle
  <1>3. CASE StartPost(p)
    <2>1. jobs' \in Seq(Job) /\ Len(jobs') = Len(jobs)
      <3> DEFINE sent == [jobs[run[p].job] EXCEPT !.posts = @ + 1]
      <3>0. run[p].job \in 1..Len(jobs) /\ jobs[run[p].job] \in Job
        BY <1>3, <1>h DEF StartPost
      <3>1. sent \in Job
        BY <3>0 DEF Job
      <3>2. jobs' = [jobs EXCEPT ![run[p].job] = sent] /\ jobs \in Seq(Job)
        BY <1>3 DEF StartPost, TypeOK
      <3> HIDE DEF sent
      <3> QED
        BY <3>0, <3>1, <3>2
    <2>2. run' \in [Procs -> Worker]
      BY <1>3, <1>h, ZenonT(60) DEF StartPost, TypeOK, Worker
    <2> QED
      BY <1>3, <2>1, <2>2 DEF StartPost, TypeOK, historyVars, Worker
  <1>4. CASE PostSucceeds(p)
    <2> DEFINE reset == [run[p].entity EXCEPT !.failedAttempts = 0]
    <2>1. reset \in Row
      BY ZenonT(60) DEF TypeOK, Worker, Row
    <2> DEFINE saving == [run[p] EXCEPT !.pc = "load", !.outcome = "ok", !.entity = reset]
    <2>2. run' = [run EXCEPT ![p] = saving]
      BY <1>4 DEF PostSucceeds, TypeOK, Worker, Row
    <2> HIDE DEF reset
    <2>3. saving \in Worker
      BY <2>1 DEF TypeOK, Worker
    <2>4. run' \in [Procs -> Worker]
      BY <2>2, <2>3 DEF TypeOK
    <2> QED
      BY <1>4, <2>2, <2>4 DEF PostSucceeds, TypeOK, Worker, historyVars
  <1>5. ASSUME NEW outcome \in {"failed", "unrecorded"},
               run[p].pc # "idle", EnterCatch(p, outcome)
        PROVE  TypeInv'
    <2>1. Failed(run[p].entity) \in Row
      BY EntityTypes DEF TypeOK, Worker
    <2>2. run' \in [Procs -> Worker]
      <3> DEFINE saving == [run[p] EXCEPT !.pc = "load", !.outcome = outcome,
                                          !.entity = Failed(run[p].entity)]
      <3>1. run' = [run EXCEPT ![p] = saving]
        BY <1>5 DEF EnterCatch, TypeOK, Worker
      <3>2. saving \in Worker
        BY <2>1 DEF TypeOK, Worker
      <3> QED
        BY <3>1, <3>2 DEF TypeOK
    <2> QED
      BY <1>5, <2>2, <1>h DEF EnterCatch, TypeOK, Worker
  <1>6. CASE PostFails(p)
    BY <1>5, <1>6 DEF PostFails
  <1>7. CASE SaveOfSuccessFails(p)
    BY <1>5, <1>7 DEF SaveOfSuccessFails
  <1>8. CASE LoadRow(p)
    <2>1. run' \in [Procs -> Worker]
      BY <1>8, <1>h, ZenonT(60) DEF LoadRow, TypeOK, Worker
    <2> QED
      BY <1>8, <2>1 DEF LoadRow, TypeOK, Worker, historyVars
  <1>9. CASE UpdateRow(p)
    <2>1. rows' \in [Hooks -> Row]
      <3>1. SavedRow(rows[HookOf(p)], run[p].loaded, run[p].entity) \in Row
        BY <1>9, <1>h, EntityTypes DEF UpdateRow, TypeOK, Worker
      <3> QED
        BY <1>9, <1>h, <3>1 DEF UpdateRow, TypeOK
    <2>2. streak' \in [Hooks -> Nat]
      BY <1>9, <1>h DEF UpdateRow, TypeOK, Worker
    <2>3. run' \in [Procs -> Worker]
      BY <1>9, ZenonT(60) DEF UpdateRow, TypeOK, Worker
    <2> QED
      BY <1>9, <2>1, <2>2, <2>3 DEF UpdateRow, TypeOK, Worker
  <1>11. CASE JobEnds(p)
    <2>1. jobs' \in Seq(Job) /\ Len(jobs') = Len(jobs)
      BY <1>11, <1>h, SetJobStateKeeps DEF JobEnds, EndJob
    <2> QED
      BY <1>11, <2>1, IdleType DEF TypeOK, JobEnds, EndJob, historyVars, Idle
  <1>10. CASE SaveOfFailureFails(p)
    <2>1. jobs' \in Seq(Job) /\ Len(jobs') = Len(jobs)
      BY <1>10, <1>h, SetJobStateKeeps DEF SaveOfFailureFails, EndJob
    <2> QED
      BY <1>10, <2>1, IdleType DEF TypeOK, SaveOfFailureFails, EndJob, historyVars, Idle
  <1>12. CASE FindFails(p)
    <2>1. jobs' \in Seq(Job) /\ Len(jobs') = Len(jobs)
      BY <1>12, <1>h, SetJobStateKeeps DEF FindFails, EndJob
    <2> QED
      BY <1>12, <2>1, IdleType DEF TypeOK, FindFails, EndJob, historyVars, Idle
  <1> QED
    BY <1>1, <1>2, <1>3, <1>4, <1>6, <1>7, <1>8, <1>9, <1>10, <1>11, <1>12 DEF WorkerStep

LEMMA NextType == TypeInv /\ [Next]_vars => TypeInv'
  <1> SUFFICES ASSUME TypeInv, [Next]_vars
               PROVE  TypeInv'
    OBVIOUS
  <1> USE DEF TypeInv, BusyHasJob
  <1>1. ASSUME NEW h \in Hooks, NEW events \in SUBSET Events, CreateWebhook(h, events)
        PROVE  TypeInv'
    BY <1>1, IdleType DEF CreateWebhook, TypeOK, historyVars
  <1>2. ASSUME NEW p \in Procs, NEW event \in Events, DispatchEvent(p, event)
        PROVE  TypeInv'
    BY <1>2 DEF DispatchEvent, Subscribers, TypeOK, historyVars
  <1>3. ASSUME NEW p \in Procs, NEW h \in Hooks, AddJob(p, h)
        PROVE  TypeInv'
    <2>1. [hook |-> h, stalls |-> 0, posts |-> 0, state |-> "waiting"] \in Job
      BY DEF Job
    <2>2. jobs' \in Seq(Job) /\ Len(jobs') = Len(jobs) + 1
      BY <1>3, <2>1 DEF AddJob, TypeOK
    <2> QED
      BY <1>3, <2>2 DEF AddJob, TypeOK, Worker, historyVars
  <1>4. ASSUME NEW p \in Procs, AddJobFails(p)
        PROVE  TypeInv'
    BY <1>4 DEF AddJobFails, TypeOK, historyVars
  <1>5. ASSUME NEW p \in Procs, WorkerStep(p)
        PROVE  TypeInv'
    BY <1>5, WorkerStepType
  <1>6. ASSUME NEW p \in Procs, Crash(p)
        PROVE  TypeInv'
    BY <1>6, IdleType DEF Crash, TypeOK, historyVars, Idle
  <1>7. ASSUME NEW j \in 1..Len(jobs), RequeueStalled(j)
        PROVE  TypeInv'
    <2>1. jobs' \in Seq(Job) /\ Len(jobs') = Len(jobs)
      <3> DEFINE requeued ==
            [jobs[j] EXCEPT !.state = IF jobs[j].stalls = 0 THEN "waiting" ELSE "failed",
                            !.stalls = 1]
      <3>1. jobs \in Seq(Job) /\ jobs[j] \in Job
        BY DEF TypeOK
      <3>2. requeued \in Job
        BY <3>1 DEF Job
      <3>3. jobs' = [jobs EXCEPT ![j] = requeued]
        BY <1>7, <3>1 DEF RequeueStalled
      <3> HIDE DEF requeued
      <3> QED
        BY <3>1, <3>2, <3>3
    <2> QED
      BY <1>7, <2>1 DEF RequeueStalled, TypeOK, historyVars
  <1>8. CASE UNCHANGED vars
    BY <1>8 DEF vars, TypeOK
  <1> QED
    BY <1>1, <1>2, <1>3, <1>4, <1>5, <1>6, <1>7, <1>8 DEF Next

LEMMA TypeInvariance == Spec => []TypeInv
  <1>1. Init => TypeInv
    BY IdleType DEF Init, TypeInv, TypeOK, BusyHasJob, Idle
  <1> QED
    BY <1>1, NextType, PTL DEF Spec

\* In every reachable state each variable of the webhook service has its type.
THEOREM TypeCorrect == Spec => []TypeOK
  BY TypeInvariance, PTL DEF TypeInv

(***************************************************************************)
(* A webhook is disabled only after FailureLimit failures.  The row alone  *)
(* is no induction hypothesis, because a save writes an entity read long   *)
(* before: every copy that may still be saved has to account for its own   *)
(* failures.  Failures are only ever added, so a stale copy stays backed,  *)
(* and a save mixes columns that are each backed.                          *)
(***************************************************************************)
Backed(copy, n) ==
    /\ copy.failedAttempts <= n
    /\ ~copy.isActive => n >= FailureLimit

FailuresInv ==
    /\ \A h \in Hooks : Backed(rows[h], failures[h])
    /\ \A p \in Procs : run[p].pc \in {"post", "load", "write"}
                           => Backed(run[p].entity, failures[HookOf(p)])

\* A save of a backed entity over a backed row leaves a backed row.
LEMMA SavedRowBacked ==
  ASSUME NEW n \in Nat, NEW row \in Row, NEW loaded \in Row, NEW entity \in Row,
         Backed(row, n), Backed(entity, n)
  PROVE  Backed(SavedRow(row, loaded, entity), n)
  <1>1. /\ SavedRow(row, loaded, entity).failedAttempts \in {row.failedAttempts, entity.failedAttempts}
        /\ SavedRow(row, loaded, entity).isActive \in {row.isActive, entity.isActive}
    BY DEF SavedRow, SavedColumn, Row
  <1> QED
    BY <1>1 DEF Backed

\* The catch block counts one failure and so does failedAttempts.
LEMMA FailedBacked ==
  ASSUME NEW n \in Nat, NEW entity \in Row, Backed(entity, n)
  PROVE  Backed(Failed(entity), n + 1)
  <1>1. /\ Failed(entity).failedAttempts = entity.failedAttempts + 1
        /\ ~Failed(entity).isActive => \/ entity.failedAttempts + 1 >= FailureLimit
                                       \/ ~entity.isActive
    BY DEF Failed, Row
  <1> QED
    BY <1>1, FailureLimitAssumption DEF Backed, Row

\* Adding jobs and changing their states does not change the hook of a job.
HooksKept == \A j \in 1..Len(jobs) : j \in 1..Len(jobs') /\ jobs'[j].hook = jobs[j].hook

LEMMA SetJobStateKeepsHooks ==
  ASSUME TypeInv, NEW j \in 1..Len(jobs),
         NEW state \in {"waiting", "active", "completed", "failed"},
         SetJobState(j, state)
  PROVE  HooksKept
  BY SetJobStateKeeps DEF HooksKept, TypeInv

\* Entities are in the hands of workers from the request to the save.
Holding(p) == run[p].pc \in {"post", "load", "write"}

\* A step that changes neither rows nor failures, and after which a worker that
\* holds an entity held it before, for the same job.
LEMMA CopiesUntouched ==
  ASSUME TypeInv, FailuresInv, HooksKept, UNCHANGED <<rows, failures>>,
         \A p \in Procs : Holding(p)' => /\ Holding(p)
                                        /\ run'[p].entity = run[p].entity
                                        /\ run'[p].job = run[p].job
  PROVE  FailuresInv'
  <1>1. ASSUME NEW p \in Procs, Holding(p)'
        PROVE  Backed(run'[p].entity, failures'[HookOf(p)'])
    <2>1. Holding(p) /\ HookOf(p)' = HookOf(p)
      BY <1>1 DEF HookOf, HooksKept, TypeInv, BusyHasJob, Holding
    <2> QED
      BY <1>1, <2>1 DEF FailuresInv, Holding
  <1> QED
    BY <1>1 DEF FailuresInv, Holding, Backed

LEMMA WorkerStepBacked ==
  ASSUME TypeInv, FailuresInv, NEW p \in Procs, WorkerStep(p)
  PROVE  FailuresInv'
  <1> USE DEF Holding
  <1>t. /\ run \in [Procs -> Worker]
        /\ rows \in [Hooks -> Row]
        /\ failures \in [Hooks -> Nat]
        /\ run[p].pc # "idle" => /\ run[p].job \in 1..Len(jobs)
                                 /\ HookOf(p) \in Hooks
    <2>1. \A j \in 1..Len(jobs) : jobs[j] \in Job
      BY DEF TypeInv, TypeOK
    <2> QED
      BY <2>1 DEF TypeInv, TypeOK, BusyHasJob, HookOf, Job
  <1>k. jobs' = jobs => HooksKept
    BY DEF HooksKept
  <1>1. CASE TakeJob(p)
    <2>1. PICK j \in 1..Len(jobs) :
             /\ SetJobState(j, "active")
             /\ run' = [run EXCEPT ![p].pc = "find", ![p].job = j]
      BY <1>1 DEF TakeJob
    <2>2. HooksKept
      BY <2>1, SetJobStateKeepsHooks
    <2> QED
      BY <1>1, <1>t, <2>1, <2>2, CopiesUntouched DEF TakeJob, historyVars, Worker
  <1>e. ASSUME NEW state \in {"completed", "failed"}, run[p].pc # "idle",
               EndJob(p, state), UNCHANGED <<rows, failures>>
        PROVE  FailuresInv'
    <2>1. HooksKept
      BY <1>e, <1>t, SetJobStateKeepsHooks DEF EndJob
    <2> QED
      BY <1>e, <1>t, <2>1, CopiesUntouched DEF EndJob, Idle
  <1>2. CASE SkipInactive(p)
    BY <1>2, <1>e DEF SkipInactive, historyVars
  <1>3. CASE StartPost(p)
    <2>1. HooksKept
      BY <1>3, <1>t, SMTT(30) DEF StartPost, HooksKept, TypeInv, TypeOK, Job
    <2>2. Backed(run'[p].entity, failures'[HookOf(p)'])
      BY <1>3, <1>t, <2>1 DEF StartPost, HooksKept, HookOf, historyVars, FailuresInv, Worker
    <2>3. ASSUME NEW q \in Procs \ {p}, Holding(q)'
          PROVE  Backed(run'[q].entity, failures'[HookOf(q)'])
      BY <1>3, <1>t, <2>1, <2>3
         DEF StartPost, HooksKept, HookOf, historyVars, FailuresInv, TypeInv, BusyHasJob
    <2> QED
      BY <1>3, <2>2, <2>3 DEF StartPost, historyVars, FailuresInv
  <1>4. CASE PostSucceeds(p)
    <2>1. Backed(run'[p].entity, failures[HookOf(p)])
      BY <1>4, <1>t DEF PostSucceeds, FailuresInv, Backed, Worker, Row
    <2>2. run'[p].job = run[p].job /\ \A q \in Procs \ {p} : run'[q] = run[q]
      BY <1>4, <1>t DEF PostSucceeds, Worker
    <2>3. UNCHANGED <<jobs, rows, failures>>
      BY <1>4 DEF PostSucceeds, historyVars
    <2>4. \A q \in Procs : HookOf(q)' = HookOf(q)
      BY <2>2, <2>3 DEF HookOf
    <2> QED
      BY <2>1, <2>2, <2>3, <2>4 DEF FailuresInv
  <1>5. ASSUME NEW outcome \in {"failed", "unrecorded"},
               Holding(p), EnterCatch(p, outcome)
        PROVE  FailuresInv'
    <2>1. /\ failures[HookOf(p)] \in Nat
          /\ Backed(Failed(run[p].entity), failures[HookOf(p)] + 1)
      BY <1>5, <1>t, FailedBacked DEF FailuresInv, Worker
    <2>2. ASSUME NEW copy \in Row, NEW h \in Hooks, Backed(copy, failures[h])
          PROVE  Backed(copy, failures'[h])
      BY <1>5, <1>t, <2>1, <2>2, FailureLimitAssumption DEF EnterCatch, Backed, Row
    <2>3. ASSUME NEW q \in Procs, Holding(q)'
          PROVE  Backed(run'[q].entity, failures'[HookOf(q)'])
      <3>1. HookOf(q)' = HookOf(q)
        BY <1>5, <1>t DEF EnterCatch, HookOf, Worker
      <3>2. CASE q = p
        BY <1>5, <1>t, <2>1, <3>1, <3>2 DEF EnterCatch, Worker
      <3>3. CASE q # p
        <4>1. Holding(q) /\ run'[q].entity = run[q].entity /\ run[q].entity \in Row
          BY <1>5, <1>t, <2>3, <3>3 DEF EnterCatch, Worker
        <4>2. HookOf(q) \in Hooks
          <5>1. \A j \in 1..Len(jobs) : jobs[j] \in Job
            BY DEF TypeInv, TypeOK
          <5> QED
            BY <4>1, <5>1 DEF TypeInv, BusyHasJob, HookOf, Job
        <4> QED
          BY <2>2, <3>1, <4>1, <4>2 DEF FailuresInv
      <3> QED
        BY <3>2, <3>3
    <2> QED
      BY <1>5, <1>t, <2>2, <2>3 DEF EnterCatch, FailuresInv
  <1>6. CASE PostFails(p)
    BY <1>5, <1>6 DEF PostFails
  <1>7. CASE SaveOfSuccessFails(p)
    BY <1>5, <1>7 DEF SaveOfSuccessFails
  <1>8. CASE LoadRow(p)
    BY <1>8, <1>k, <1>t, CopiesUntouched DEF LoadRow, historyVars, Worker
  <1>9. CASE UpdateRow(p)
    <2>1. /\ rows' = [rows EXCEPT ![HookOf(p)] =
                         SavedRow(rows[HookOf(p)], run[p].loaded, run[p].entity)]
          /\ run' = [run EXCEPT ![p].pc = "end"]
          /\ failures' = failures /\ jobs' = jobs
      BY <1>9 DEF UpdateRow
    <2>2. Backed(rows'[HookOf(p)], failures[HookOf(p)])
      BY <1>9, <1>t, <2>1, SavedRowBacked DEF UpdateRow, FailuresInv, Worker
    <2>3. ASSUME NEW q \in Procs, Holding(q)'
          PROVE  Backed(run'[q].entity, failures'[HookOf(q)'])
      BY <1>t, <2>1, <2>3 DEF HookOf, FailuresInv, Worker
    <2> QED
      BY <1>t, <2>1, <2>2, <2>3 DEF FailuresInv
  <1>11. CASE JobEnds(p)
    BY <1>11, <1>e DEF JobEnds, historyVars
  <1>10. CASE SaveOfFailureFails(p)
    BY <1>10, <1>e DEF SaveOfFailureFails, historyVars
  <1>12. CASE FindFails(p)
    BY <1>12, <1>e DEF FindFails, historyVars
  <1> QED
    BY <1>1, <1>2, <1>3, <1>4, <1>6, <1>7, <1>8, <1>9, <1>10, <1>11, <1>12 DEF WorkerStep

LEMMA NextBacked == TypeInv /\ FailuresInv /\ [Next]_vars => FailuresInv'
  <1> SUFFICES ASSUME TypeInv, FailuresInv, [Next]_vars
               PROVE  FailuresInv'
    OBVIOUS
  <1> USE DEF Holding
  <1>k. jobs' = jobs => HooksKept
    BY DEF HooksKept
  <1>1. ASSUME NEW h \in Hooks, NEW events \in SUBSET Events, CreateWebhook(h, events)
        PROVE  FailuresInv'
    <2>1. Backed(NewRow(events), failures[h])
      BY DEF NewRow, Backed, TypeInv, TypeOK
    <2> QED
      BY <1>1, <2>1 DEF CreateWebhook, historyVars, FailuresInv, TypeInv, TypeOK, HookOf
  <1>2. ASSUME NEW p \in Procs, NEW event \in Events, DispatchEvent(p, event)
        PROVE  FailuresInv'
    BY <1>2, <1>k, CopiesUntouched DEF DispatchEvent, historyVars
  <1>3. ASSUME NEW p \in Procs, NEW h \in Hooks, AddJob(p, h)
        PROVE  FailuresInv'
    <2>1. HooksKept
      BY <1>3 DEF AddJob, HooksKept, TypeInv, TypeOK
    <2> QED
      BY <1>3, <2>1, CopiesUntouched DEF AddJob, historyVars
  <1>4. ASSUME NEW p \in Procs, AddJobFails(p)
        PROVE  FailuresInv'
    BY <1>4, <1>k, CopiesUntouched DEF AddJobFails, historyVars
  <1>5. ASSUME NEW p \in Procs, WorkerStep(p)
        PROVE  FailuresInv'
    BY <1>5, WorkerStepBacked
  <1>6. ASSUME NEW p \in Procs, Crash(p)
        PROVE  FailuresInv'
    BY <1>6, <1>k, CopiesUntouched DEF Crash, historyVars, Idle, TypeInv, TypeOK
  <1>7. ASSUME NEW j \in 1..Len(jobs), RequeueStalled(j)
        PROVE  FailuresInv'
    <2>1. HooksKept
      BY <1>7, SMTT(30) DEF RequeueStalled, HooksKept, TypeInv, TypeOK, Job
    <2> QED
      BY <1>7, <2>1, CopiesUntouched DEF RequeueStalled, historyVars
  <1>8. CASE UNCHANGED vars
    BY <1>8 DEF vars, FailuresInv, HookOf
  <1> QED
    BY <1>1, <1>2, <1>3, <1>4, <1>5, <1>6, <1>7, <1>8 DEF Next

\* Whatever the instances interleave and lose, a webhook that is disabled failed
\* FailureLimit times.
THEOREM DisabledOnlyAfterFailuresHolds == Spec => []DisabledOnlyAfterFailures
  <1>1. Init => FailuresInv
    BY DEF Init, FailuresInv, Backed, NewRow, Idle
  <1>2. FailuresInv => DisabledOnlyAfterFailures
    BY DEF FailuresInv, Backed, DisabledOnlyAfterFailures
  <1> QED
    BY <1>1, <1>2, TypeInvariance, NextBacked, PTL DEF Spec

(***************************************************************************)
(* Requests per job, however many instances there are.  A job that waits,  *)
(* or whose worker has yet to find the row, has sent one request less than *)
(* it may; and because no two workers have the same job, no other worker   *)
(* sends a request while one is about to.                                  *)
(***************************************************************************)
Busy(p) == run[p].pc # "idle"

JobsInv ==
    /\ \A p \in Procs : Busy(p) => jobs[run[p].job].state = "active"
    /\ \A p, q \in Procs : Busy(p) /\ Busy(q) /\ run[p].job = run[q].job => p = q
    /\ \A j \in 1..Len(jobs) : jobs[j].state = "waiting" => jobs[j].posts <= jobs[j].stalls
    /\ \A p \in Procs : run[p].pc = "find" => jobs[run[p].job].posts <= jobs[run[p].job].stalls
    /\ RequestsPerJob


\* What a change of one job's record amounts to.
LEMMA JobUpdated ==
  ASSUME TypeInv, NEW j \in 1..Len(jobs), NEW job \in Job, jobs' = [jobs EXCEPT ![j] = job]
  PROVE  /\ Len(jobs') = Len(jobs)
         /\ jobs'[j] = job
         /\ \A i \in 1..Len(jobs) : i # j => jobs'[i] = jobs[i]
         /\ \A i \in 1..Len(jobs) : jobs[i] \in Job
  BY DEF TypeInv, TypeOK

\* A change of state alone, which is what taking and ending a job do to the queue.
LEMMA StateUpdated ==
  ASSUME TypeInv, NEW j \in 1..Len(jobs),
         NEW state \in {"waiting", "active", "completed", "failed"},
         SetJobState(j, state)
  PROVE  /\ Len(jobs') = Len(jobs)
         /\ jobs'[j].state = state
         /\ jobs'[j].posts = jobs[j].posts
         /\ jobs'[j].stalls = jobs[j].stalls
         /\ jobs'[j].hook = jobs[j].hook
         /\ \A i \in 1..Len(jobs) : i # j => jobs'[i] = jobs[i]
         /\ \A i \in 1..Len(jobs) : jobs[i] \in Job
  <1>1. jobs \in Seq(Job) /\ jobs[j] \in Job
    BY DEF TypeInv, TypeOK
  <1>2. [jobs[j] EXCEPT !.state = state] \in Job
    BY <1>1 DEF Job
  <1>3. jobs' = [jobs EXCEPT ![j] = [jobs[j] EXCEPT !.state = state]]
    BY DEF SetJobState
  <1> HIDE DEF SetJobState
  <1>4. /\ Len(jobs') = Len(jobs)
        /\ jobs'[j] = [jobs[j] EXCEPT !.state = state]
        /\ \A i \in 1..Len(jobs) : i # j => jobs'[i] = jobs[i]
        /\ \A i \in 1..Len(jobs) : jobs[i] \in Job
    BY <1>2, <1>3, JobUpdated
  <1> QED
    BY <1>1, <1>4 DEF Job

\* The same for the request a worker is about to send.
LEMMA PostCounted ==
  ASSUME TypeInv, NEW p \in Procs, StartPost(p)
  PROVE  /\ run[p].job \in 1..Len(jobs)
         /\ Len(jobs') = Len(jobs)
         /\ jobs'[run[p].job].posts = jobs[run[p].job].posts + 1
         /\ jobs'[run[p].job].state = jobs[run[p].job].state
         /\ jobs'[run[p].job].stalls = jobs[run[p].job].stalls
         /\ jobs'[run[p].job].hook = jobs[run[p].job].hook
         /\ \A i \in 1..Len(jobs) : i # run[p].job => jobs'[i] = jobs[i]
         /\ \A i \in 1..Len(jobs) : jobs[i] \in Job
  <1> DEFINE j == run[p].job
  <1>1. jobs \in Seq(Job) /\ j \in 1..Len(jobs) /\ jobs[j] \in Job
    BY DEF TypeInv, TypeOK, BusyHasJob, StartPost
  <1>3. jobs' = [jobs EXCEPT ![j] = [jobs[j] EXCEPT !.posts = @ + 1]]
    BY DEF StartPost
  <1>2. [jobs[j] EXCEPT !.posts = @ + 1] \in Job
    <2>1. \A job \in Job : [job EXCEPT !.posts = @ + 1] \in Job
      BY DEF Job
    <2> QED
      BY <1>1, <2>1
  <1>4. /\ Len(jobs') = Len(jobs)
        /\ jobs'[j] = [jobs[j] EXCEPT !.posts = @ + 1]
        /\ \A i \in 1..Len(jobs) : i # j => jobs'[i] = jobs[i]
        /\ \A i \in 1..Len(jobs) : jobs[i] \in Job
    BY <1>1, <1>2, <1>3, JobUpdated
  <1> QED
    BY <1>1, <1>4 DEF Job

\* And for a stalled job, which nobody works at.
LEMMA StalledUpdated ==
  ASSUME TypeInv, NEW j \in 1..Len(jobs), RequeueStalled(j)
  PROVE  /\ Len(jobs') = Len(jobs)
         /\ jobs'[j].state = IF jobs[j].stalls = 0 THEN "waiting" ELSE "failed"
         /\ jobs'[j].posts = jobs[j].posts
         /\ jobs'[j].stalls = 1
         /\ jobs'[j].hook = jobs[j].hook
         /\ \A i \in 1..Len(jobs) : i # j => jobs'[i] = jobs[i]
         /\ \A i \in 1..Len(jobs) : jobs[i] \in Job
  <1> DEFINE requeued ==
        [jobs[j] EXCEPT !.state = IF jobs[j].stalls = 0 THEN "waiting" ELSE "failed",
                        !.stalls = 1]
  <1>1. jobs \in Seq(Job) /\ jobs[j] \in Job
    BY DEF TypeInv, TypeOK
  <1>2. requeued \in Job
    BY <1>1 DEF Job
  <1>3. jobs' = [jobs EXCEPT ![j] = requeued]
    BY <1>1 DEF RequeueStalled
  <1>4. /\ Len(jobs') = Len(jobs)
        /\ jobs'[j] = requeued
        /\ \A i \in 1..Len(jobs) : i # j => jobs'[i] = jobs[i]
        /\ \A i \in 1..Len(jobs) : jobs[i] \in Job
    <2> HIDE DEF requeued
    <2> QED
      BY <1>2, <1>3, JobUpdated
  <1> QED
    BY <1>1, <1>4 DEF Job

\* A step that leaves the jobs alone and in which workers at most go on or stop.
LEMMA JobsUntouched ==
  ASSUME JobsInv, jobs' = jobs,
         \A p \in Procs : run'[p].pc # "idle" => /\ Busy(p) /\ run'[p].job = run[p].job
                                                 /\ run'[p].pc = "find" => run[p].pc = "find"
  PROVE  JobsInv'
  BY DEF JobsInv, Busy, RequestsPerJob

LEMMA WorkerStepJobs ==
  ASSUME TypeInv, JobsInv, NEW p \in Procs, WorkerStep(p)
  PROVE  JobsInv'
  <1>t. /\ run \in [Procs -> Worker]
        /\ \A q \in Procs : Busy(q) => run[q].job \in 1..Len(jobs)
    BY DEF TypeInv, TypeOK, BusyHasJob, Busy
  <1>1. CASE TakeJob(p)
    <2>1. PICK j \in 1..Len(jobs) :
             /\ jobs[j].state = "waiting"
             /\ SetJobState(j, "active")
             /\ run' = [run EXCEPT ![p].pc = "find", ![p].job = j]
      BY <1>1 DEF TakeJob
    <2>2. /\ run'[p].pc = "find" /\ run'[p].job = j
          /\ \A q \in Procs \ {p} : run'[q] = run[q]
      BY <1>t, <2>1 DEF Worker
    <2>3. \A q \in Procs : Busy(q) => run[q].job # j
      BY <2>1 DEF JobsInv
    <2> QED
      BY <1>t, <2>1, <2>2, <2>3, StateUpdated DEF JobsInv, Busy, RequestsPerJob
  <1>e. ASSUME NEW state \in {"completed", "failed"}, Busy(p), EndJob(p, state)
        PROVE  JobsInv'
    <2>1. /\ run'[p] = Idle
          /\ \A q \in Procs \ {p} : run'[q] = run[q]
      BY <1>e, <1>t DEF EndJob
    <2>2. SetJobState(run[p].job, state)
      BY <1>e DEF EndJob
    <2>3. \A q \in Procs \ {p} : Busy(q) => run[q].job # run[p].job
      BY <1>e DEF JobsInv
    <2>j. PICK j \in 1..Len(jobs) : j = run[p].job
      BY <1>e, <1>t DEF Busy
    <2>4. /\ Len(jobs') = Len(jobs) /\ jobs'[j].state = state
          /\ jobs'[j].posts = jobs[j].posts /\ jobs'[j].stalls = jobs[j].stalls
          /\ \A i \in 1..Len(jobs) : i # j => jobs'[i] = jobs[i]
      BY <1>e, <2>2, <2>j, StateUpdated
    <2>n. \A i \in 1..Len(jobs) : jobs[i].posts \in Nat /\ jobs[i].stalls \in Nat
      <3>1. \A i \in 1..Len(jobs) : jobs[i] \in Job
        BY DEF TypeInv, TypeOK
      <3> QED
        BY <3>1 DEF Job
    <2>5. RequestsPerJob'
      <3>1. \A i \in 1..Len(jobs) : jobs[i].posts <= 1 + jobs[i].stalls
        BY DEF JobsInv, RequestsPerJob
      <3>2. \A i \in 1..Len(jobs) : jobs'[i].posts <= 1 + jobs'[i].stalls
        BY <2>4, <2>n, <3>1
      <3> QED
        BY <2>4, <3>2 DEF RequestsPerJob
    <2>6. \A q \in Procs : run'[q].pc # "idle" => q # p /\ run[q].pc # "idle" /\ run'[q] = run[q]
      BY <2>1 DEF Idle
    <2>7. \A i \in 1..Len(jobs) : jobs'[i].state = "waiting" => jobs'[i].posts <= jobs'[i].stalls
      <3>1. \A i \in 1..Len(jobs) : jobs[i].state = "waiting" => jobs[i].posts <= jobs[i].stalls
        BY DEF JobsInv
      <3>2. state # "waiting"
        BY <1>e
      <3> QED
        BY <2>4, <2>n, <3>1, <3>2
    <2>8. \A q \in Procs : run'[q].pc # "idle" => jobs'[run'[q].job] = jobs[run[q].job]
      <3> SUFFICES ASSUME NEW q \in Procs, run'[q].pc # "idle"
                   PROVE  jobs'[run[q].job] = jobs[run[q].job]
        BY <2>6
      <3>1. run[q].job \in 1..Len(jobs) /\ run[q].job # run[p].job
        BY <1>t, <2>3, <2>6 DEF Busy
      <3> QED
        BY <2>j, <2>4, <3>1
    <2> QED
      BY <2>4, <2>5, <2>6, <2>7, <2>8 DEF JobsInv, Busy
  <1>2. CASE SkipInactive(p)
    BY <1>2, <1>e DEF SkipInactive, Busy
  <1>3. CASE StartPost(p)
    <2>1. /\ run'[p].pc = "post" /\ run'[p].job = run[p].job
          /\ \A q \in Procs \ {p} : run'[q] = run[q]
      BY <1>3, <1>t DEF StartPost, Worker
    <2>2. \A q \in Procs \ {p} : Busy(q) => run[q].job # run[p].job
      BY <1>3 DEF JobsInv, StartPost, Busy
    <2>3. /\ run[p].pc = "find" /\ run[p].job \in 1..Len(jobs)
          /\ jobs[run[p].job].state = "active"
          /\ jobs[run[p].job].posts \in Nat /\ jobs[run[p].job].stalls \in Nat
          /\ jobs[run[p].job].posts <= jobs[run[p].job].stalls
      <3>1. run[p].pc = "find"
        BY <1>3 DEF StartPost
      <3>2. run[p].job \in 1..Len(jobs) /\ jobs[run[p].job] \in Job
        BY <1>3, PostCounted
      <3> QED
        BY <3>1, <3>2 DEF JobsInv, Busy, Job
    <2>4. \A j \in 1..Len(jobs') : jobs'[j].posts <= 1 + jobs'[j].stalls
      <3>1. jobs'[run[p].job].posts <= 1 + jobs'[run[p].job].stalls
        <4>1. \A n, m \in Nat : n <= m => n + 1 <= 1 + m
          OBVIOUS
        <4> QED
          BY <1>3, <2>3, <4>1, PostCounted
      <3>2. Len(jobs') = Len(jobs)
        BY <1>3, PostCounted
      <3>3. \A j \in 1..Len(jobs) : j # run[p].job => jobs'[j] = jobs[j]
        BY <1>3, PostCounted
      <3> QED
        BY <3>1, <3>2, <3>3 DEF JobsInv, RequestsPerJob
    <2>5. \A j \in 1..Len(jobs') : jobs'[j].state = "waiting" => jobs'[j].posts <= jobs'[j].stalls
      BY <1>3, <2>3, PostCounted DEF JobsInv
    <2>6. \A q \in Procs : Busy(q)' => jobs'[run'[q].job].state = "active"
      BY <1>3, <1>t, <2>1, <2>2, <2>3, PostCounted DEF JobsInv, Busy
    <2>7. \A q \in Procs : run'[q].pc = "find" =>
                               jobs'[run'[q].job].posts <= jobs'[run'[q].job].stalls
      BY <1>3, <1>t, <2>1, <2>2, PostCounted DEF JobsInv, Busy
    <2>8. \A q, r \in Procs : Busy(q)' /\ Busy(r)' /\ run'[q].job = run'[r].job => q = r
      BY <2>1, <2>2, <2>3 DEF JobsInv, Busy
    <2> QED
      BY <2>4, <2>5, <2>6, <2>7, <2>8 DEF JobsInv, RequestsPerJob
  <1>4. CASE PostSucceeds(p)
    BY <1>4, <1>t, JobsUntouched DEF PostSucceeds, Busy, Worker
  <1>5. ASSUME NEW outcome \in {"failed", "unrecorded"}, Busy(p), EnterCatch(p, outcome)
        PROVE  JobsInv'
    BY <1>5, <1>t, JobsUntouched DEF EnterCatch, Busy, Worker
  <1>6. CASE PostFails(p)
    BY <1>5, <1>6 DEF PostFails, Busy
  <1>7. CASE SaveOfSuccessFails(p)
    BY <1>5, <1>7 DEF SaveOfSuccessFails, Busy
  <1>8. CASE LoadRow(p)
    BY <1>8, <1>t, JobsUntouched DEF LoadRow, Busy, Worker
  <1>9. CASE UpdateRow(p)
    BY <1>9, <1>t, JobsUntouched DEF UpdateRow, Busy, Worker
  <1>10. CASE JobEnds(p)
    BY <1>10, <1>e DEF JobEnds, Busy
  <1>11. CASE SaveOfFailureFails(p)
    BY <1>11, <1>e DEF SaveOfFailureFails, Busy
  <1>12. CASE FindFails(p)
    BY <1>12, <1>e DEF FindFails, Busy
  <1> QED
    BY <1>1, <1>2, <1>3, <1>4, <1>6, <1>7, <1>8, <1>9, <1>10, <1>11, <1>12 DEF WorkerStep

LEMMA NextJobs == TypeInv /\ JobsInv /\ [Next]_vars => JobsInv'
  <1> SUFFICES ASSUME TypeInv, JobsInv, [Next]_vars
               PROVE  JobsInv'
    OBVIOUS
  <1> USE DEF Busy
  <1>1. ASSUME NEW h \in Hooks, NEW events \in SUBSET Events, CreateWebhook(h, events)
        PROVE  JobsInv'
    BY <1>1, JobsUntouched DEF CreateWebhook
  <1>2. ASSUME NEW p \in Procs, NEW event \in Events, DispatchEvent(p, event)
        PROVE  JobsInv'
    BY <1>2, JobsUntouched DEF DispatchEvent
  <1>3. ASSUME NEW p \in Procs, NEW h \in Hooks, AddJob(p, h)
        PROVE  JobsInv'
    <2> DEFINE job == [hook |-> h, stalls |-> 0, posts |-> 0, state |-> "waiting"]
    <2>1. /\ run' = run
          /\ Len(jobs') = Len(jobs) + 1
          /\ \A j \in 1..Len(jobs) : jobs'[j] = jobs[j]
          /\ jobs'[Len(jobs) + 1] = job
      BY <1>3 DEF AddJob, TypeInv, TypeOK
    <2>2. Len(jobs) \in Nat
      BY DEF TypeInv, TypeOK
    <2> QED
      BY <2>1, <2>2 DEF JobsInv, RequestsPerJob, TypeInv, BusyHasJob
  <1>4. ASSUME NEW p \in Procs, AddJobFails(p)
        PROVE  JobsInv'
    BY <1>4, JobsUntouched DEF AddJobFails
  <1>5. ASSUME NEW p \in Procs, WorkerStep(p)
        PROVE  JobsInv'
    BY <1>5, WorkerStepJobs
  <1>6. ASSUME NEW p \in Procs, Crash(p)
        PROVE  JobsInv'
    BY <1>6, JobsUntouched DEF Crash, Idle, TypeInv, TypeOK
  <1>7. ASSUME NEW j \in 1..Len(jobs), RequeueStalled(j)
        PROVE  JobsInv'
    <2>1. run' = run /\ \A p \in Procs : run[p].job # j
      BY <1>7 DEF RequeueStalled
    <2>2. jobs[j].posts <= 1 + jobs[j].stalls /\ jobs[j] \in Job
      BY DEF JobsInv, RequestsPerJob, TypeInv, TypeOK
    <2> QED
      BY <1>7, <2>1, <2>2, StalledUpdated, SMTT(30)
         DEF JobsInv, RequestsPerJob, TypeInv, BusyHasJob, Job
  <1>8. CASE UNCHANGED vars
    BY <1>8, JobsUntouched DEF vars
  <1> QED
    BY <1>1, <1>2, <1>3, <1>4, <1>5, <1>6, <1>7, <1>8 DEF Next

LEMMA JobsInvariance == Spec => []JobsInv
  <1>1. Init => JobsInv
    BY DEF Init, JobsInv, Busy, RequestsPerJob, Idle
  <1> QED
    BY <1>1, TypeInvariance, NextJobs, PTL DEF Spec

\* Whatever crashes, fails and is requeued, and with any number of instances, a job
\* sends one request, and a second one only after it stalled.
THEOREM RequestsPerJobHolds == Spec => []RequestsPerJob
  BY JobsInvariance, PTL DEF JobsInv

(***************************************************************************)
(* One instance.  The row, the worker's entity and the row its save loaded *)
(* are related at every step of processWebhook: nothing else writes the    *)
(* row meanwhile, because a webhook is created before its jobs are queued  *)
(* and the only worker is this one.                                        *)
(***************************************************************************)
OneInstance == \A p, q \in Procs : p = q

QueuedAreStored ==
    /\ \A p \in Procs : dispatching[p] \subseteq stored
    /\ \A j \in 1..Len(jobs) : jobs[j].hook \in stored
    /\ \A h \in Hooks \ stored : streak[h] = 0

\* What the row of the worker's webhook will count once the entity is saved.
Counted(p) == CASE run[p].pc = "post" -> streak[HookOf(p)]
                [] run[p].pc # "post" /\ run[p].outcome = "ok" -> 0
                [] run[p].pc # "post" /\ run[p].outcome = "unrecorded" -> 1
                [] run[p].pc # "post" /\ run[p].outcome = "failed" -> streak[HookOf(p)] + 1

\* The columns of a copy of the row when n failures count.
Counts(copy, n) == copy.failedAttempts = n /\ (copy.isActive <=> n < FailureLimit)

EntityExact ==
    \A p \in Procs :
       /\ Holding(p) => rows[HookOf(p)].isActive /\ Counts(run[p].entity, Counted(p))
       /\ run[p].pc = "write" => /\ run[p].loaded.failedAttempts = rows[HookOf(p)].failedAttempts
                                 /\ run[p].loaded.isActive = rows[HookOf(p)].isActive
       /\ run[p].pc \in {"post", "load", "write", "end"} => jobs[run[p].job].posts >= 1

ExactInv == QueuedAreStored /\ CounterExact /\ EntityExact /\ SkippedOnlyIfDisabled

\* The catch block counts one failure, and disables the webhook at the limit.
LEMMA FailedCounts ==
  ASSUME NEW n \in Nat, NEW entity \in Row, Counts(entity, n), n < FailureLimit
  PROVE  Counts(Failed(entity), n + 1)
  <1>1. /\ Failed(entity).failedAttempts = entity.failedAttempts + 1
        /\ Failed(entity).isActive = IF entity.failedAttempts + 1 >= FailureLimit
                                     THEN FALSE ELSE entity.isActive
    BY DEF Failed, Row
  <1> QED
    BY <1>1, FailureLimitAssumption DEF Counts

\* A save that loaded the row as it still is leaves the columns of the entity.
LEMMA SavedCounts ==
  ASSUME NEW n \in Nat, NEW row \in Row, NEW loaded \in Row, NEW entity \in Row,
         Counts(entity, n),
         loaded.failedAttempts = row.failedAttempts, loaded.isActive = row.isActive
  PROVE  Counts(SavedRow(row, loaded, entity), n)
  <1>1. /\ SavedRow(row, loaded, entity).failedAttempts = entity.failedAttempts
        /\ SavedRow(row, loaded, entity).isActive = entity.isActive
    BY DEF SavedRow, SavedColumn, Row
  <1> QED
    BY <1>1 DEF Counts

LEMMA WorkerStepExact ==
  ASSUME OneInstance, TypeInv, JobsInv, ExactInv, NEW p \in Procs, WorkerStep(p)
  PROVE  ExactInv'
  <1> USE DEF Holding
  <1>o. \A q \in Procs : q = p
    BY DEF OneInstance
  <1>t. /\ run \in [Procs -> Worker] /\ run[p] \in Worker
        /\ rows \in [Hooks -> Row] /\ streak \in [Hooks -> Nat]
        /\ Busy(p) => /\ run[p].job \in 1..Len(jobs)
                      /\ jobs[run[p].job] \in Job
                      /\ jobs[run[p].job].state = "active"
                      /\ HookOf(p) \in Hooks /\ HookOf(p) \in stored
                      /\ rows[HookOf(p)] \in Row /\ streak[HookOf(p)] \in Nat
    <2>1. \A j \in 1..Len(jobs) : jobs[j] \in Job /\ jobs[j].hook \in stored
      BY DEF TypeInv, TypeOK, ExactInv, QueuedAreStored
    <2>2. run \in [Procs -> Worker] /\ rows \in [Hooks -> Row] /\ streak \in [Hooks -> Nat]
      BY DEF TypeInv, TypeOK
    <2>3. Busy(p) => run[p].job \in 1..Len(jobs) /\ jobs[run[p].job].state = "active"
      BY DEF TypeInv, BusyHasJob, Busy, JobsInv
    <2>4. \A job \in Job : job.hook \in Hooks
      BY DEF Job
    <2> QED
      BY <2>1, <2>2, <2>3, <2>4 DEF HookOf
  <1>l. FailureLimit \in Nat /\ 0 < FailureLimit
    BY FailureLimitAssumption
  \* A worker with an entity that counts for an active row is below the limit.
  <1>a. Holding(p) => streak[HookOf(p)] < FailureLimit
    BY <1>t DEF ExactInv, EntityExact, CounterExact, Busy
  <1>1. CASE TakeJob(p)
    <2>1. PICK j \in 1..Len(jobs) :
             /\ jobs[j].state = "waiting"
             /\ SetJobState(j, "active")
             /\ run' = [run EXCEPT ![p].pc = "find", ![p].job = j]
             /\ UNCHANGED <<stored, rows, dispatching, streak>>
      BY <1>1 DEF TakeJob, historyVars
    <2>2. run'[p].pc = "find"
      BY <1>t, <2>1 DEF Worker
    <2>3. QueuedAreStored' /\ CounterExact' /\ SkippedOnlyIfDisabled'
      BY <2>1, StateUpdated DEF ExactInv, QueuedAreStored, CounterExact, SkippedOnlyIfDisabled
    <2>4. EntityExact'
      BY <1>o, <2>2 DEF EntityExact
    <2> QED
      BY <2>3, <2>4 DEF ExactInv
  <1>e. ASSUME NEW state \in {"completed", "failed"}, Busy(p), EndJob(p, state),
               UNCHANGED <<stored, rows, dispatching, streak>>,
               state = "completed" => \/ jobs[run[p].job].posts >= 1
                                      \/ ~rows[HookOf(p)].isActive
        PROVE  ExactInv'
    <2>1. run'[p].pc = "idle"
      BY <1>e, <1>t DEF EndJob, Idle
    <2>2. SetJobState(run[p].job, state)
      BY <1>e DEF EndJob
    <2>3. QueuedAreStored' /\ CounterExact'
      BY <1>e, <1>t, <2>2, StateUpdated, ZenonT(60) DEF ExactInv, QueuedAreStored, CounterExact
    <2>4. SkippedOnlyIfDisabled'
      BY <1>e, <1>t, <2>2, StateUpdated DEF ExactInv, SkippedOnlyIfDisabled, HookOf
    <2>5. EntityExact'
      BY <1>o, <2>1 DEF EntityExact
    <2> QED
      BY <2>3, <2>4, <2>5 DEF ExactInv
  <1>2. CASE SkipInactive(p)
    BY <1>2, <1>e DEF SkipInactive, Busy, historyVars
  <1>3. CASE StartPost(p)
    <2>1. /\ run'[p].pc = "post" /\ run'[p].job = run[p].job
          /\ run'[p].entity = rows[HookOf(p)]
          /\ rows[HookOf(p)].isActive
          /\ Busy(p) /\ UNCHANGED <<stored, rows, dispatching, streak>>
      BY <1>3, <1>t DEF StartPost, Worker, Busy, historyVars
    <2>2. HookOf(p)' = HookOf(p)
      BY <1>3, <2>1, PostCounted DEF HookOf
    <2>3. jobs'[run[p].job].posts >= 1
      BY <1>3, <1>t, <2>1, PostCounted DEF Job
    <2>4. QueuedAreStored' /\ CounterExact'
      BY <1>3, <1>t, <2>1, PostCounted DEF ExactInv, QueuedAreStored, CounterExact
    <2>5. SkippedOnlyIfDisabled'
      BY <1>3, <2>1, <2>3, PostCounted DEF ExactInv, SkippedOnlyIfDisabled
    <2>6. Counts(run'[p].entity, Counted(p)')
      <3>1. Counted(p)' = streak[HookOf(p)]
        BY <2>1, <2>2 DEF Counted
      <3> QED
        BY <1>t, <2>1, <3>1 DEF Counts, ExactInv, CounterExact
    <2>7. EntityExact'
      BY <1>o, <2>1, <2>2, <2>3, <2>6 DEF EntityExact
    <2> QED
      BY <2>4, <2>5, <2>7 DEF ExactInv
  \* Steps between the request and the save, which change only the worker's copies.
  <1>c. ASSUME Holding(p), Holding(p)', UNCHANGED <<stored, rows, jobs, dispatching, streak>>,
               run'[p].job = run[p].job,
               Counts(run'[p].entity, Counted(p)'),
               run'[p].pc = "write" =>
                  /\ run'[p].loaded.failedAttempts = rows[HookOf(p)].failedAttempts
                  /\ run'[p].loaded.isActive = rows[HookOf(p)].isActive
        PROVE  ExactInv'
    <2>1. HookOf(p)' = HookOf(p) /\ jobs'[run'[p].job].posts >= 1
      BY <1>c DEF HookOf, ExactInv, EntityExact
    <2>2. EntityExact'
      BY <1>o, <1>c, <2>1 DEF ExactInv, EntityExact
    <2>3. QueuedAreStored' /\ CounterExact' /\ SkippedOnlyIfDisabled'
      BY <1>c DEF ExactInv, QueuedAreStored, CounterExact, SkippedOnlyIfDisabled
    <2> QED
      BY <2>2, <2>3 DEF ExactInv
  <1>4. CASE PostSucceeds(p)
    <2>1. /\ run'[p].pc = "load" /\ run'[p].job = run[p].job /\ run'[p].outcome = "ok"
          /\ run'[p].entity.failedAttempts = 0
          /\ run'[p].entity.isActive = run[p].entity.isActive
      BY <1>4, <1>t DEF PostSucceeds, Worker, Row
    <2>2. Counted(p)' = 0 /\ run[p].pc = "post"
      BY <1>4, <2>1 DEF Counted, PostSucceeds
    <2>3. run[p].entity.isActive <=> 0 < FailureLimit
      BY <1>t, <1>a, <1>l, <2>2 DEF ExactInv, EntityExact, Counts, Counted
    <2>4. Counts(run'[p].entity, Counted(p)')
      BY <2>1, <2>2, <2>3 DEF Counts
    <2> QED
      BY <1>4, <1>c, <2>1, <2>4 DEF PostSucceeds, historyVars
  <1>5. ASSUME NEW outcome \in {"failed", "unrecorded"}, Holding(p), EnterCatch(p, outcome),
               outcome = "failed" => run[p].pc = "post",
               outcome = "unrecorded" => run[p].pc # "post" /\ run[p].outcome = "ok"
        PROVE  ExactInv'
    <2>1. /\ run'[p].pc = "load" /\ run'[p].job = run[p].job /\ run'[p].outcome = outcome
          /\ run'[p].entity = Failed(run[p].entity)
          /\ UNCHANGED <<stored, rows, jobs, dispatching, streak>>
      BY <1>5, <1>t DEF EnterCatch, Worker
    <2>2. HookOf(p)' = HookOf(p)
      BY <2>1 DEF HookOf
    <2>3. Counted(p)' = Counted(p) + 1 /\ Counted(p) \in Nat /\ Counted(p) < FailureLimit
      BY <1>5, <1>t, <1>a, <1>l, <2>1, <2>2 DEF Counted, Busy
    <2>4. Counts(run'[p].entity, Counted(p)')
      BY <1>5, <1>t, <2>1, <2>3, FailedCounts DEF ExactInv, EntityExact, Worker
    <2> QED
      BY <1>5, <1>c, <2>1, <2>4
  <1>6. CASE PostFails(p)
    BY <1>5, <1>6 DEF PostFails
  <1>7. CASE SaveOfSuccessFails(p)
    BY <1>5, <1>7 DEF SaveOfSuccessFails
  <1>8. CASE LoadRow(p)
    <2>1. /\ run[p].pc = "load" /\ run'[p].pc = "write" /\ run'[p].job = run[p].job
          /\ run'[p].outcome = run[p].outcome
          /\ run'[p].entity = run[p].entity /\ run'[p].loaded = rows[HookOf(p)]
          /\ UNCHANGED <<stored, rows, jobs, dispatching, streak>>
      BY <1>8, <1>t DEF LoadRow, Worker, historyVars
    <2>2. Counted(p)' = Counted(p)
      BY <2>1 DEF Counted, HookOf
    <2>3. Counts(run'[p].entity, Counted(p)')
      BY <2>1, <2>2 DEF ExactInv, EntityExact
    <2> QED
      BY <1>c, <2>1, <2>3
  <1>9. CASE UpdateRow(p)
    <2> DEFINE h == HookOf(p)
    <2>1. /\ run[p].pc = "write" /\ Busy(p) /\ run'[p].pc = "end" /\ run'[p].job = run[p].job
          /\ rows' = [rows EXCEPT ![h] = SavedRow(rows[h], run[p].loaded, run[p].entity)]
          /\ UNCHANGED <<stored, jobs, dispatching>>
      BY <1>9, <1>t DEF UpdateRow, Worker, Busy
    <2>2. streak' = [streak EXCEPT ![h] = Counted(p)] /\ Counted(p) \in Nat
      <3>1. run[p].outcome \in {"ok", "failed", "unrecorded"}
        BY <1>t DEF Worker
      <3>2. Counted(p) = CASE run[p].outcome = "ok" -> 0
                           [] run[p].outcome = "unrecorded" -> 1
                           [] run[p].outcome = "failed" -> streak[h] + 1
        BY <2>1, <3>1 DEF Counted
      <3>3. streak' = [streak EXCEPT ![h] = Counted(p)]
        BY <1>9, <3>2 DEF UpdateRow
      <3>4. Counted(p) \in Nat
        BY <1>t, <2>1, <3>1, <3>2
      <3> QED
        BY <3>3, <3>4
    <2>3. Counts(rows'[h], Counted(p))
      <3>1. run[p].loaded \in Row /\ run[p].entity \in Row
        BY <1>t DEF Worker
      <3>2. /\ Counts(run[p].entity, Counted(p))
            /\ run[p].loaded.failedAttempts = rows[h].failedAttempts
            /\ run[p].loaded.isActive = rows[h].isActive
        BY <2>1 DEF ExactInv, EntityExact
      <3> QED
        BY <1>t, <2>1, <2>2, <3>1, <3>2, SavedCounts
    <2>4. CounterExact'
      BY <1>t, <2>1, <2>2, <2>3 DEF ExactInv, CounterExact, Counts
    <2>5. QueuedAreStored'
      BY <1>t, <2>1, <2>2 DEF ExactInv, QueuedAreStored
    <2>6. SkippedOnlyIfDisabled'
      BY <1>t, <2>1 DEF ExactInv, SkippedOnlyIfDisabled, EntityExact
    <2>7. EntityExact'
      BY <1>o, <2>1 DEF ExactInv, EntityExact
    <2> QED
      BY <2>4, <2>5, <2>6, <2>7 DEF ExactInv
  <1>10. CASE JobEnds(p)
    <2>1. Busy(p) /\ jobs[run[p].job].posts >= 1
      BY <1>10 DEF JobEnds, ExactInv, EntityExact, Busy
    <2> QED
      BY <1>10, <1>e, <2>1 DEF JobEnds, historyVars
  <1>11. CASE SaveOfFailureFails(p)
    BY <1>11, <1>e DEF SaveOfFailureFails, Busy, historyVars
  <1>12. CASE FindFails(p)
    BY <1>12, <1>e DEF FindFails, Busy, historyVars
  <1> QED
    BY <1>1, <1>2, <1>3, <1>4, <1>6, <1>7, <1>8, <1>9, <1>10, <1>11, <1>12 DEF WorkerStep

LEMMA NextExact ==
  ASSUME OneInstance
  PROVE  TypeInv /\ JobsInv /\ ExactInv /\ [Next]_vars => ExactInv'
  <1> SUFFICES ASSUME TypeInv, JobsInv, ExactInv, [Next]_vars
               PROVE  ExactInv'
    OBVIOUS
  <1>1. ASSUME NEW h \in Hooks, NEW events \in SUBSET Events, CreateWebhook(h, events)
        PROVE  ExactInv'
    <2>1. /\ h \notin stored /\ stored' = stored \cup {h}
          /\ rows' = [rows EXCEPT ![h] = NewRow(events)]
          /\ UNCHANGED <<jobs, dispatching, run, streak>>
      BY <1>1 DEF CreateWebhook, historyVars
    <2>2. /\ \A j \in 1..Len(jobs) : jobs[j].hook # h
          /\ \A p \in Procs : Holding(p) => HookOf(p) # h
      BY <2>1 DEF ExactInv, QueuedAreStored, Holding, HookOf, TypeInv, BusyHasJob
    <2>3. QueuedAreStored'
      BY <2>1 DEF ExactInv, QueuedAreStored
    <2>4. CounterExact'
      BY <1>1, <2>1, FailureLimitAssumption
         DEF ExactInv, QueuedAreStored, CounterExact, NewRow, TypeInv, TypeOK
    <2>5. EntityExact'
      <3>1. \A p \in Procs : Counted(p)' = Counted(p) /\ HookOf(p)' = HookOf(p)
        BY <2>1 DEF Counted, HookOf
      <3> QED
        BY <2>1, <2>2, <3>1 DEF ExactInv, EntityExact, Holding, TypeInv, TypeOK
    <2>6. SkippedOnlyIfDisabled'
      BY <2>1, <2>2 DEF ExactInv, SkippedOnlyIfDisabled, TypeInv, TypeOK
    <2> QED
      BY <2>3, <2>4, <2>5, <2>6 DEF ExactInv
  \* The steps that leave rows, streak and the workers alone.
  <1>u. ASSUME UNCHANGED <<rows, streak, run>>, QueuedAreStored', SkippedOnlyIfDisabled',
               \A j \in 1..Len(jobs) : /\ jobs'[j].hook = jobs[j].hook
                                       /\ jobs'[j].posts = jobs[j].posts
        PROVE  ExactInv'
    <2>1. CounterExact'
      BY <1>u DEF ExactInv, CounterExact
    <2>2. EntityExact'
      <3>1. \A p \in Procs : Busy(p) => /\ Counted(p)' = Counted(p) /\ HookOf(p)' = HookOf(p)
                                        /\ run[p].job \in 1..Len(jobs)
        BY <1>u DEF Counted, HookOf, Busy, TypeInv, BusyHasJob
      <3> QED
        BY <1>u, <3>1 DEF ExactInv, EntityExact, Holding, Busy
    <2> QED
      BY <1>u, <2>1, <2>2 DEF ExactInv
  <1>2. ASSUME NEW p \in Procs, NEW event \in Events, DispatchEvent(p, event)
        PROVE  ExactInv'
    <2>1. /\ dispatching' = [dispatching EXCEPT ![p] = Subscribers(event)]
          /\ Subscribers(event) \subseteq stored
          /\ UNCHANGED <<stored, rows, jobs, run, streak>>
      BY <1>2 DEF DispatchEvent, Subscribers, historyVars
    <2>2. QueuedAreStored' /\ SkippedOnlyIfDisabled'
      BY <2>1 DEF ExactInv, QueuedAreStored, SkippedOnlyIfDisabled, TypeInv, TypeOK
    <2> QED
      BY <1>u, <2>1, <2>2
  <1>3. ASSUME NEW p \in Procs, NEW h \in Hooks, AddJob(p, h)
        PROVE  ExactInv'
    <2> DEFINE job == [hook |-> h, stalls |-> 0, posts |-> 0, state |-> "waiting"]
    <2>1. /\ Len(jobs') = Len(jobs) + 1
          /\ \A j \in 1..Len(jobs) : jobs'[j] = jobs[j]
          /\ jobs'[Len(jobs) + 1] = job
          /\ Len(jobs) \in Nat
      BY <1>3 DEF AddJob, TypeInv, TypeOK
    <2>2. /\ dispatching' = [dispatching EXCEPT ![p] = @ \ {h}] /\ h \in dispatching[p]
          /\ UNCHANGED <<stored, rows, run, streak>>
      BY <1>3 DEF AddJob, historyVars
    <2>3. \A j \in 1..Len(jobs') : j \in 1..Len(jobs) \/ jobs'[j] = job
      <3>1. \A n \in Nat : \A j \in 1..(n + 1) : j \in 1..n \/ j = n + 1
        OBVIOUS
      <3> HIDE DEF job
      <3> QED
        BY <2>1, <3>1
    <2>4. QueuedAreStored'
      <3>1. job.hook \in stored
        BY <2>2 DEF ExactInv, QueuedAreStored
      <3>2. \A j \in 1..Len(jobs') : jobs'[j].hook \in stored
        <4> HIDE DEF job
        <4> QED
          BY <2>1, <2>3, <3>1 DEF ExactInv, QueuedAreStored
      <3> QED
        BY <2>2, <3>2 DEF ExactInv, QueuedAreStored, TypeInv, TypeOK
    <2>5. SkippedOnlyIfDisabled'
      <3>1. job.state # "completed"
        OBVIOUS
      <3> HIDE DEF job
      <3> QED
        BY <2>1, <2>2, <2>3, <3>1 DEF ExactInv, SkippedOnlyIfDisabled
    <2> QED
      BY <1>u, <2>1, <2>2, <2>4, <2>5
  <1>4. ASSUME NEW p \in Procs, AddJobFails(p)
        PROVE  ExactInv'
    <2>1. /\ dispatching' = [dispatching EXCEPT ![p] = {}]
          /\ UNCHANGED <<stored, rows, jobs, run, streak>>
      BY <1>4 DEF AddJobFails, historyVars
    <2>2. QueuedAreStored' /\ SkippedOnlyIfDisabled'
      BY <2>1 DEF ExactInv, QueuedAreStored, SkippedOnlyIfDisabled, TypeInv, TypeOK
    <2> QED
      BY <1>u, <2>1, <2>2
  <1>5. ASSUME NEW p \in Procs, WorkerStep(p)
        PROVE  ExactInv'
    BY <1>5, WorkerStepExact
  <1>6. ASSUME NEW p \in Procs, Crash(p)
        PROVE  ExactInv'
    <2>1. /\ dispatching' = [dispatching EXCEPT ![p] = {}]
          /\ run' = [run EXCEPT ![p] = Idle]
          /\ UNCHANGED <<stored, rows, jobs, streak>>
      BY <1>6 DEF Crash, historyVars
    <2>2. QueuedAreStored' /\ CounterExact' /\ SkippedOnlyIfDisabled'
      BY <2>1 DEF ExactInv, QueuedAreStored, CounterExact, SkippedOnlyIfDisabled, TypeInv, TypeOK
    <2>3. EntityExact'
      BY <2>1 DEF OneInstance, EntityExact, Holding, Idle, TypeInv, TypeOK
    <2> QED
      BY <2>2, <2>3 DEF ExactInv
  <1>7. ASSUME NEW j \in 1..Len(jobs), RequeueStalled(j)
        PROVE  ExactInv'
    <2>1. UNCHANGED <<stored, rows, dispatching, run, streak>>
      BY <1>7 DEF RequeueStalled, historyVars
    <2>2. QueuedAreStored' /\ SkippedOnlyIfDisabled'
      BY <1>7, <2>1, StalledUpdated DEF ExactInv, QueuedAreStored, SkippedOnlyIfDisabled
    <2> QED
      BY <1>7, <1>u, <2>1, <2>2, StalledUpdated
  <1>8. CASE UNCHANGED vars
    <2>1. QueuedAreStored' /\ SkippedOnlyIfDisabled'
      BY <1>8 DEF vars, ExactInv, QueuedAreStored, SkippedOnlyIfDisabled
    <2> QED
      BY <1>8, <1>u, <2>1 DEF vars
  <1> QED
    BY <1>1, <1>2, <1>3, <1>4, <1>5, <1>6, <1>7, <1>8 DEF Next

\* A deployment of one instance loses no update of a webhook's row: its counter is the
\* number of failures recorded since the last success, it is active just as long as
\* that is below the limit, and no event is dropped while it is; however the one
\* worker's requests, saves and crashes fall among dispatches and new webhooks.
THEOREM OneInstanceIsExactHolds ==
  ASSUME OneInstance
  PROVE  Spec => []OneInstanceIsExact
  <1>1. Init => ExactInv
    <2> SUFFICES ASSUME Init PROVE ExactInv
      OBVIOUS
    <2>1. CounterExact
      BY FailureLimitAssumption DEF Init, CounterExact, NewRow
    <2> QED
      BY <2>1 DEF Init, ExactInv, QueuedAreStored, EntityExact, Holding, SkippedOnlyIfDisabled, Idle
  <1>2. TypeInv /\ JobsInv /\ ExactInv /\ [Next]_vars => ExactInv'
    BY NextExact
  <1>3. JobsInv /\ ExactInv => OneInstanceIsExact
    BY DEF JobsInv, ExactInv, OneInstanceIsExact
  <1> QED
    BY <1>1, <1>2, <1>3, TypeInvariance, JobsInvariance, PTL DEF Spec

=============================================================================
