----------------------------- MODULE Notifications -----------------------------
(***************************************************************************)
(* NotificationsService and NotificationProcessor: users register the      *)
(* tokens of their devices, a notification is stored and queued as a Bull  *)
(* job, and the job pushes it to each active device of its user.           *)
(*                                                                         *)
(* A registration is two statements, and so are a creation and the save of *)
(* an update; each may fail, and so may every step of a job, whose worker  *)
(* may also crash and leave the job to Bull.  Abstracted: texts, types and *)
(* metadata; WEB devices are pushed to as ANDROID ones are.                *)
(***************************************************************************)
EXTENDS Naturals, Sequences, EntitySave

CONSTANTS
    Users,
    Tokens,         \* device tokens
    Clients,        \* requests in progress
    Procs,          \* instances of the application, each with one worker
    MaxDevices,     \* bound: device_tokens rows ever inserted
    MaxNotes,       \* bound: notifications ever stored
    None            \* no user, no token

ASSUME BoundsAssumption == MaxDevices \in Nat /\ MaxNotes \in Nat

VARIABLES
    devices,        \* device_tokens, in the order of their insertion
    notes,          \* notifications, likewise
    req,            \* requests in progress
    jobs,           \* Bull's jobs, in the order they were added
    worker,         \* per instance: sendPushNotification in progress
    \* History variables, read by properties only.
    owner,          \* per token: the user whose registration of it was inserted last
    overlapped,     \* tokens of which two registrations were in progress at a time
    since           \* per instance: rows deactivated since its worker read them

requestVars == <<devices, notes, req, owner, overlapped>>
workerVars == <<jobs, worker, since>>
vars == <<devices, notes, req, jobs, worker, owner, overlapped, since>>

Platforms == {"IOS", "ANDROID"}
Device == [user : Users, token : Tokens, platform : Platforms, isActive : BOOLEAN]
NoteStates == {"unread", "read", "removed"}

Request == [pc : {"idle", "deactivate", "insert", "save", "add", "load", "write"},
            user : Users \cup {None}, token : Tokens \cup {None}, platform : Platforms,
            note : 0..MaxNotes, loaded : NoteStates]
NoRequest == [pc |-> "idle", user |-> None, token |-> None, platform |-> "IOS",
              note |-> 0, loaded |-> "unread"]

\* found and tried are history: the devices of the last attempt, and those tried.
Job == [user : Users, stalls : {0, 1}, found : SUBSET (1..MaxDevices),
        tried : SUBSET (1..MaxDevices), state : {"waiting", "active", "completed", "failed"}]

\* todo has the devices still to push to; device the one whose token was refused.
Worker == [pc : {"idle", "find", "send", "deactivate"}, job : 0..MaxNotes,
           todo : SUBSET (1..MaxDevices), device : 0..MaxDevices]

Idle == [pc |-> "idle", job |-> 0, todo |-> {}, device |-> 0]

Init ==
    /\ devices = <<>> /\ notes = <<>> /\ jobs = <<>>
    /\ req = [c \in Clients |-> NoRequest]
    /\ worker = [p \in Procs |-> Idle]
    /\ owner = [t \in Tokens |-> None]
    /\ overlapped = {}
    /\ since = [p \in Procs |-> {}]

------------------------------------------------------------------------------
(* registerDeviceToken *)

Goto(c, pc) == req' = [req EXCEPT ![c].pc = pc]

End(c) == req' = [req EXCEPT ![c] = NoRequest]

Registering(t) == {c \in Clients : req[c].pc \in {"deactivate", "insert"} /\ req[c].token = t}

Register(c, u, t, platform) ==
    /\ req[c].pc = "idle"
    /\ Len(devices) < MaxDevices
    /\ req' = [req EXCEPT ![c].pc = "deactivate", ![c].user = u, ![c].token = t,
                          ![c].platform = platform]
    /\ overlapped' = IF Registering(t) = {} THEN overlapped ELSE overlapped \cup {t}
    /\ UNCHANGED <<devices, notes, owner, workerVars>>

\* The rows after an update of those with the token; running jobs have read them.
Deactivate(ids) ==
    /\ devices' = [d \in DOMAIN devices |->
                     [devices[d] EXCEPT !.isActive = @ /\ d \notin ids]]
    /\ since' = [p \in Procs |-> since[p] \cup ids]

RowsOf(t) == {d \in DOMAIN devices : devices[d].token = t}

\* Variant: only the user's own rows are deactivated.
DeactivateOwn(c) ==
    /\ req[c].pc = "deactivate"
    /\ Deactivate({d \in RowsOf(req[c].token) : devices[d].user = req[c].user})
    /\ Goto(c, "insert")
    /\ UNCHANGED <<notes, owner, overlapped, jobs, worker>>

\* Whoever they belong to.
DeactivateToken(c) ==
    /\ req[c].pc = "deactivate"
    /\ Deactivate(RowsOf(req[c].token))
    /\ Goto(c, "insert")
    /\ UNCHANGED <<notes, owner, overlapped, jobs, worker>>

InsertDevice(c) ==
    /\ req[c].pc = "insert"
    /\ Len(devices) < MaxDevices
    /\ devices' = Append(devices, [user |-> req[c].user, token |-> req[c].token,
                                   platform |-> req[c].platform, isActive |-> TRUE])
    /\ owner' = [owner EXCEPT ![req[c].token] = req[c].user]
    /\ End(c)
    /\ UNCHANGED <<notes, overlapped, workerVars>>

------------------------------------------------------------------------------
(* Notifications *)

\* The user is found; the row is saved,
CreateNote(c, u) ==
    /\ req[c].pc = "idle"
    /\ Len(notes) < MaxNotes
    /\ notes' = Append(notes, "unread")
    /\ req' = [req EXCEPT ![c].pc = "add", ![c].user = u]
    /\ UNCHANGED <<devices, owner, overlapped, workerVars>>

\* and the push is queued.
AddJob(c) ==
    /\ req[c].pc = "add"
    /\ jobs' = Append(jobs, [user |-> req[c].user, stalls |-> 0, found |-> {}, tried |-> {},
                             state |-> "waiting"])
    /\ End(c)
    /\ UNCHANGED <<devices, notes, owner, overlapped, worker, since>>

\* update: findOne (404 when there is no row), then the save of the copy with isRead set,
UpdateNote(c, n) ==
    /\ req[c].pc = "idle"
    /\ notes[n] # "removed"
    /\ req' = [req EXCEPT ![c].pc = "load", ![c].note = n]
    /\ UNCHANGED <<devices, notes, owner, overlapped, workerVars>>

LoadNote(c) ==
    /\ req[c].pc = "load"
    /\ req' = [req EXCEPT ![c].pc = "write", ![c].loaded = notes[req[c].note]]
    /\ UNCHANGED <<devices, notes, owner, overlapped, workerVars>>

\* which inserts the row again when it was removed before the SELECT.
WriteNote(c) ==
    LET n == req[c].note IN
    /\ req[c].pc = "write"
    /\ notes' = [notes EXCEPT ![n] =
                   IF @ = "removed" /\ req[c].loaded # "removed" THEN @
                   ELSE SavedColumn(@, req[c].loaded, "read")]
    /\ End(c)
    /\ UNCHANGED <<devices, owner, overlapped, workerVars>>

RemoveNote(n) ==
    /\ notes[n] # "removed"
    /\ notes' = [notes EXCEPT ![n] = "removed"]
    /\ UNCHANGED <<devices, req, owner, overlapped, workerVars>>

\* A statement fails or the queue refuses the job; what was done before stays done.
RequestFails(c) ==
    /\ req[c].pc # "idle"
    /\ End(c)
    /\ UNCHANGED <<devices, notes, owner, overlapped, workerVars>>

------------------------------------------------------------------------------
(* The worker *)

JobOf(p) == jobs[worker[p].job]

\* Bull hands out waiting jobs in the order they were added.
TakeJob(p) ==
    /\ worker[p].pc = "idle"
    /\ \E j \in DOMAIN jobs :
          /\ jobs[j].state = "waiting"
          /\ \A i \in 1..(j - 1) : jobs[i].state # "waiting"
          /\ jobs' = [jobs EXCEPT ![j].state = "active"]
          /\ worker' = [worker EXCEPT ![p].pc = "find", ![p].job = j]
    /\ UNCHANGED <<requestVars, since>>

\* Variant: whether they are active or not.
AllDevices(u) == {d \in DOMAIN devices : devices[d].user = u}

ActiveDevices(u) == {d \in DOMAIN devices : devices[d].user = u /\ devices[d].isActive}

FindDevices(p) ==
    LET found == ActiveDevices(JobOf(p).user) IN
    /\ worker[p].pc = "find"
    /\ worker' = [worker EXCEPT ![p].pc = "send", ![p].todo = found]
    /\ jobs' = [jobs EXCEPT ![worker[p].job].found = found, ![worker[p].job].tried = {}]
    /\ since' = [since EXCEPT ![p] = {}]
    /\ UNCHANGED requestVars

Tried(p, d) == jobs' = [jobs EXCEPT ![worker[p].job].tried = @ \cup {d}]

\* The push is accepted, or fails in any way but an invalid token: the loop goes on.
\* The APNs client answers with its failures instead of rejecting, so an iOS token is
\* never found invalid.
Push(p, d) ==
    /\ worker[p].pc = "send"
    /\ d \in worker[p].todo
    /\ Tried(p, d)
    /\ worker' = [worker EXCEPT ![p].todo = @ \ {d}]
    /\ UNCHANGED <<requestVars, since>>

PushFindsInvalidToken(p, d) ==
    /\ worker[p].pc = "send"
    /\ d \in worker[p].todo /\ devices[d].platform # "IOS"
    /\ Tried(p, d)
    /\ worker' = [worker EXCEPT ![p].pc = "deactivate", ![p].device = d, ![p].todo = @ \ {d}]
    /\ UNCHANGED <<requestVars, since>>

\* Variant: a refused token ends the loop.
DeactivateAndStop(p) ==
    /\ worker[p].pc = "deactivate"
    /\ Deactivate({worker[p].device})
    /\ worker' = [worker EXCEPT ![p].pc = "send", ![p].todo = {}]
    /\ UNCHANGED <<notes, req, owner, overlapped, jobs>>

DeactivateDevice(p) ==
    /\ worker[p].pc = "deactivate"
    /\ Deactivate({worker[p].device})
    /\ worker' = [worker EXCEPT ![p].pc = "send"]
    /\ UNCHANGED <<notes, req, owner, overlapped, jobs>>

EndJob(p, state) ==
    /\ jobs' = [jobs EXCEPT ![worker[p].job].state = state]
    /\ worker' = [worker EXCEPT ![p] = Idle]
    /\ UNCHANGED <<requestVars, since>>

JobCompletes(p) ==
    /\ worker[p].pc = "send" /\ worker[p].todo = {}
    /\ EndJob(p, "completed")

\* The find is outside the loop's try block, the update inside its catch block: when
\* either fails so does the job, which Bull does not run again.
JobFails(p) ==
    /\ worker[p].pc \in {"find", "deactivate"}
    /\ EndJob(p, "failed")

Crash(p) ==
    /\ worker[p].pc # "idle"
    /\ worker' = [worker EXCEPT ![p] = Idle]
    /\ UNCHANGED <<requestVars, jobs, since>>

\* Variant: a job is requeued whenever it is found active.
RequeueStalledAlways(j) ==
    /\ jobs[j].state = "active"
    /\ \A p \in Procs : worker[p].job # j
    /\ jobs' = [jobs EXCEPT ![j].state = "waiting", ![j].stalls = @ + 1]
    /\ UNCHANGED <<requestVars, worker, since>>

\* Bull requeues a job whose worker is gone once, and fails it the next time.
RequeueStalled(j) ==
    /\ jobs[j].state = "active"
    /\ \A p \in Procs : worker[p].job # j
    /\ jobs' = [jobs EXCEPT ![j].state = IF jobs[j].stalls = 0 THEN "waiting" ELSE "failed",
                            ![j].stalls = 1]
    /\ UNCHANGED <<requestVars, worker, since>>

------------------------------------------------------------------------------
ClientStep(c) ==
    \/ \E u \in Users, t \in Tokens, platform \in Platforms : Register(c, u, t, platform)
    \/ DeactivateToken(c)
    \/ InsertDevice(c)
    \/ \E u \in Users : CreateNote(c, u)
    \/ AddJob(c)
    \/ \E n \in DOMAIN notes : UpdateNote(c, n)
    \/ LoadNote(c)
    \/ WriteNote(c)
    \/ RequestFails(c)

WorkerStep(p) ==
    \/ TakeJob(p)
    \/ FindDevices(p)
    \/ \E d \in worker[p].todo : Push(p, d) \/ PushFindsInvalidToken(p, d)
    \/ DeactivateDevice(p)
    \/ JobCompletes(p)
    \/ JobFails(p)

Next ==
    \/ \E c \in Clients : ClientStep(c)
    \/ \E n \in DOMAIN notes : RemoveNote(n)
    \/ \E p \in Procs : WorkerStep(p) \/ Crash(p)
    \/ \E j \in DOMAIN jobs : RequeueStalled(j)

Spec == Init /\ [][Next]_vars

------------------------------------------------------------------------------
(* Properties. *)

TypeOK ==
    /\ devices \in Seq(Device) /\ Len(devices) <= MaxDevices
    /\ notes \in Seq(NoteStates)
    /\ req \in [Clients -> Request]
    /\ jobs \in Seq(Job)
    /\ worker \in [Procs -> Worker]
    /\ owner \in [Tokens -> Users \cup {None}]
    /\ overlapped \subseteq Tokens
    /\ since \in [Procs -> SUBSET (1..MaxDevices)]

\* A device token is active for at most one row, and that one is the last user who
\* registered it, as long as no two registrations of it were in progress at a time;
\* failed registrations and refused tokens leave it inactive.
TokenActiveOnce ==
    \A t \in Tokens \ overlapped :
       \A d, e \in RowsOf(t) :
          devices[d].isActive =>
             /\ devices[d].user = owner[t]
             /\ devices[e].isActive => d = e

\* A job pushes only to devices whose token its user registered last: a device that
\* went over to another user gets the former user's notifications only from a job
\* that had read the rows before, or after registrations that overlapped.
PushesFollowTokens ==
    \A p \in Procs : \A d \in worker[p].todo :
       LET t == devices[d].token IN
       \/ owner[t] = JobOf(p).user
       \/ d \in since[p]
       \/ t \in overlapped

\* A completed job tried every device that was active when its last run began, however
\* many pushes failed or found their token invalid; a repeated one was repeated once.
CompletedTriedAll ==
    \A j \in DOMAIN jobs : jobs[j].state = "completed" => jobs[j].found = jobs[j].tried

==============================================================================
