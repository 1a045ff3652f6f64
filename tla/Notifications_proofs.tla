------------------------- MODULE Notifications_proofs -------------------------
(***************************************************************************)
(* What holds of the notifications for any number of users, tokens,        *)
(* clients and workers: a token is active for its last owner only, pushes  *)
(* follow it, and a completed job has tried every device.                  *)
(***************************************************************************)
EXTENDS Notifications, FiniteSetTheorems, TLAPS

(* Sequences whose elements are replaced keep their type and length.             *)
LEMMA ReplacedType ==
    ASSUME NEW S, NEW s \in Seq(S), NEW i \in DOMAIN s, NEW e \in S
    PROVE  /\ [s EXCEPT ![i] = e] \in Seq(S)
           /\ Len([s EXCEPT ![i] = e]) = Len(s)
           /\ DOMAIN [s EXCEPT ![i] = e] = DOMAIN s
OBVIOUS

LEMMA AppendedType ==
    ASSUME NEW S, NEW s \in Seq(S), NEW e \in S
    PROVE  /\ Append(s, e) \in Seq(S)
           /\ Len(Append(s, e)) = Len(s) + 1
           /\ DOMAIN s \subseteq DOMAIN Append(s, e)
           /\ DOMAIN Append(s, e) = DOMAIN s \cup {Len(s) + 1}
           /\ Append(s, e)[Len(s) + 1] = e
           /\ \A i \in DOMAIN s : Append(s, e)[i] = s[i]
OBVIOUS

LEMMA DomainType ==
    ASSUME NEW S, NEW s \in Seq(S)
    PROVE  DOMAIN s = 1..Len(s) /\ Len(s) \in Nat /\ \A i \in DOMAIN s : s[i] \in S
OBVIOUS

(* Requests whose notification is stored and not yet queued.                      *)
Adding == {c \in Clients : req[c].pc = "add"}

RequestTyped(request, known) ==
    /\ request.pc \in {"deactivate", "insert"} => request.user \in Users /\ request.token \in Tokens
    /\ request.pc = "add" => request.user \in Users
    /\ request.pc \in {"load", "write"} => request.note \in known

WorkerTyped(w) ==
    /\ w.pc = "idle" => w = Idle
    /\ w.pc # "idle" => w.job \in DOMAIN jobs
    /\ w.pc = "find" => w.todo = {}
    /\ w.pc = "deactivate" => w.device \in DOMAIN devices
    /\ w.todo \subseteq DOMAIN devices

RequestsTyped == \A c \in Clients : RequestTyped(req[c], DOMAIN notes)
WorkersTyped == \A p \in Procs : WorkerTyped(worker[p])

(* A job was a request that stored a notification: so there are never more.       *)
JobsCounted ==
    /\ Len(notes) <= MaxNotes
    /\ IsFiniteSet(Adding) /\ Len(jobs) + Cardinality(Adding) <= Len(notes)

Typed == TypeOK /\ RequestsTyped /\ WorkersTyped /\ JobsCounted

(* A request that begins, goes on or ends is one, and the others stay.            *)
LEMMA RequestStep ==
    ASSUME Typed, NEW c \in Clients, NEW r \in Request, req' = [req EXCEPT ![c] = r],
           notes' \in Seq(NoteStates), Len(notes) <= Len(notes'),
           RequestTyped(r, DOMAIN notes')
    PROVE  req' \in [Clients -> Request] /\ RequestsTyped'
<1>1. req' \in [Clients -> Request] /\ \A e \in Clients : e # c => req'[e] = req[e]
      /\ req'[c] = r
  BY DEF Typed, TypeOK
<1>2. DOMAIN notes \subseteq DOMAIN notes'
  BY DomainType DEF Typed, TypeOK
<1>3. \A e \in Clients : RequestTyped(req'[e], DOMAIN notes')
  BY <1>1, <1>2 DEF Typed, RequestsTyped, RequestTyped
<1>4. QED
  BY <1>1, <1>3 DEF RequestsTyped, RequestTyped

LEMMA AddingStep ==
    ASSUME Typed, NEW c \in Clients, NEW r \in Request, req' = [req EXCEPT ![c] = r]
    PROVE  /\ IsFiniteSet(Adding) /\ IsFiniteSet(Adding')
           /\ Cardinality(Adding) \in Nat /\ Cardinality(Adding') \in Nat
           /\ r.pc # "add" /\ req[c].pc # "add" => Cardinality(Adding') = Cardinality(Adding)
           /\ r.pc = "add" => Cardinality(Adding') <= Cardinality(Adding) + 1
           /\ req[c].pc = "add" /\ r.pc # "add" =>
                 Cardinality(Adding') = Cardinality(Adding) - 1
<1>1. req'[c] = r /\ \A e \in Clients : e # c => req'[e] = req[e]
  BY DEF Typed, TypeOK
<1>2. IsFiniteSet(Adding) /\ Cardinality(Adding) \in Nat
  BY FS_CardinalityType DEF Typed, JobsCounted
<1>3. CASE r.pc = "add"
  <2>1. Adding' = Adding \cup {c}
    BY <1>1, <1>3 DEF Adding
  <2>2. /\ IsFiniteSet(Adding \cup {c}) /\ Cardinality(Adding \cup {c}) \in Nat
        /\ Cardinality(Adding \cup {c}) =
              IF c \in Adding THEN Cardinality(Adding) ELSE Cardinality(Adding) + 1
    BY <1>2, FS_AddElement, FS_CardinalityType
  <2>3. Cardinality(Adding \cup {c}) <= Cardinality(Adding) + 1
    BY <1>2, <2>2
  <2>4. QED
    BY <1>2, <1>3, <2>1, <2>2, <2>3
<1>4. CASE r.pc # "add" /\ req[c].pc = "add"
  <2>1. Adding' = Adding \ {c} /\ c \in Adding
    BY <1>1, <1>4 DEF Adding
  <2>2. QED
    BY <1>2, <1>4, <2>1, FS_RemoveElement, FS_CardinalityType
<1>5. CASE r.pc # "add" /\ req[c].pc # "add"
  <2>1. Adding' = Adding
    BY <1>1, <1>5 DEF Adding
  <2>2. QED
    BY <1>2, <1>5, <2>1
<1>6. QED
  BY <1>3, <1>4, <1>5

(* Rows that are deactivated, whose ids the running jobs have for history.        *)
LEMMA DeactivateSets ==
    ASSUME TypeOK, NEW ids \in SUBSET DOMAIN devices, Deactivate(ids)
    PROVE  /\ devices' \in Seq(Device) /\ Len(devices') = Len(devices)
           /\ DOMAIN devices' = DOMAIN devices
           /\ \A d \in DOMAIN devices :
                 /\ devices'[d].user = devices[d].user /\ devices'[d].token = devices[d].token
                 /\ devices'[d].isActive <=> devices[d].isActive /\ d \notin ids
           /\ since' \in [Procs -> SUBSET (1..MaxDevices)]
           /\ \A p \in Procs : since'[p] = since[p] \cup ids
<1>1. /\ devices \in Seq(Device) /\ Len(devices) \in Nat /\ DOMAIN devices = 1..Len(devices)
      /\ \A d \in DOMAIN devices : devices[d] \in Device
      /\ Len(devices) <= MaxDevices
  BY DomainType DEF TypeOK
<1>2. \A d \in DOMAIN devices :
        LET after == [devices[d] EXCEPT !.isActive = devices[d].isActive /\ d \notin ids] IN
        /\ after \in Device
        /\ after.user = devices[d].user /\ after.token = devices[d].token
        /\ after.isActive <=> devices[d].isActive /\ d \notin ids
  BY <1>1 DEF Device
<1>3. devices' = [d \in 1..Len(devices) |->
                    [devices[d] EXCEPT !.isActive = devices[d].isActive /\ d \notin ids]]
  BY <1>1 DEF Deactivate
<1>4. devices' \in Seq(Device) /\ Len(devices') = Len(devices)
  BY <1>1, <1>2, <1>3
<1>5. DOMAIN devices' = DOMAIN devices
  BY <1>1, <1>3
<1>6. \A d \in DOMAIN devices :
         /\ devices'[d].user = devices[d].user /\ devices'[d].token = devices[d].token
         /\ devices'[d].isActive <=> devices[d].isActive /\ d \notin ids
  BY <1>1, <1>2, <1>3
<1>7. ids \subseteq 1..MaxDevices
  BY <1>1, BoundsAssumption
<1>8. /\ since' \in [Procs -> SUBSET (1..MaxDevices)]
      /\ \A p \in Procs : since'[p] = since[p] \cup ids
  BY <1>7 DEF Deactivate, TypeOK
<1>9. QED
  BY <1>4, <1>5, <1>6, <1>8

(* A device that is inserted comes after those that are there.                    *)
LEMMA InsertSets ==
    ASSUME Typed, NEW c \in Clients, InsertDevice(c)
    PROVE  /\ req[c].user \in Users /\ req[c].token \in Tokens
           /\ devices' \in Seq(Device) /\ Len(devices') <= MaxDevices
           /\ DOMAIN devices' = DOMAIN devices \cup {Len(devices) + 1}
           /\ \A d \in DOMAIN devices : d # Len(devices) + 1 /\ devices'[d] = devices[d]
           /\ devices'[Len(devices) + 1] =
                 [user |-> req[c].user, token |-> req[c].token,
                  platform |-> req[c].platform, isActive |-> TRUE]
           /\ owner' = [owner EXCEPT ![req[c].token] = req[c].user]
<1>1. req[c].user \in Users /\ req[c].token \in Tokens /\ req[c].platform \in Platforms
  BY DEF Typed, RequestsTyped, RequestTyped, InsertDevice, TypeOK, Request, Platforms
<1> DEFINE row == [user |-> req[c].user, token |-> req[c].token,
                   platform |-> req[c].platform, isActive |-> TRUE]
<1>2. row \in Device
  BY <1>1 DEF Device
<1>3. devices' = Append(devices, row) /\ Len(devices) < MaxDevices /\ devices \in Seq(Device)
      /\ owner' = [owner EXCEPT ![req[c].token] = req[c].user]
  BY DEF InsertDevice, Typed, TypeOK
<1>4. Len(devices) \in Nat /\ DOMAIN devices = 1..Len(devices)
  BY <1>3, DomainType
<1> HIDE DEF row
<1>5. /\ devices' \in Seq(Device) /\ Len(devices') = Len(devices) + 1
      /\ DOMAIN devices' = DOMAIN devices \cup {Len(devices) + 1}
      /\ devices'[Len(devices) + 1] = row
      /\ \A d \in DOMAIN devices : devices'[d] = devices[d]
  BY <1>2, <1>3, AppendedType
<1>6. \A d \in DOMAIN devices : d # Len(devices) + 1
  BY <1>4
<1>7. Len(devices') <= MaxDevices
  BY <1>3, <1>4, <1>5, BoundsAssumption
<1>8. QED
  BY <1>1, <1>3, <1>5, <1>6, <1>7 DEF row

LEMMA TypedClient ==
    ASSUME Typed, NEW c \in Clients, ClientStep(c)
    PROVE  Typed'
<1>a. /\ req[c] \in Request /\ req \in [Clients -> Request] /\ NoRequest \in Request
      /\ RequestTyped(req[c], DOMAIN notes)
  <2>1. NoRequest \in Request
    BY BoundsAssumption DEF NoRequest, Request, NoteStates, Platforms
  <2>2. QED
    BY <2>1 DEF Typed, TypeOK, RequestsTyped
<1>s. /\ notes \in Seq(NoteStates) /\ Len(notes) \in Nat /\ Len(notes) <= MaxNotes
      /\ DOMAIN notes = 1..Len(notes) /\ \A n \in DOMAIN notes : notes[n] \in NoteStates
      /\ jobs \in Seq(Job) /\ Len(jobs) \in Nat /\ DOMAIN jobs = 1..Len(jobs)
  BY DomainType DEF Typed, TypeOK, JobsCounted
<1>b. IsFiniteSet(Adding) /\ Cardinality(Adding) \in Nat /\ Len(jobs) + Cardinality(Adding) <= Len(notes)
  BY FS_CardinalityType DEF Typed, JobsCounted
(* The requests and the notes, *)
<1>c. ASSUME NEW r \in Request, req' = [req EXCEPT ![c] = r], RequestTyped(r, DOMAIN notes'),
             notes' \in Seq(NoteStates), Len(notes') \in Nat, Len(notes') <= MaxNotes, jobs' = jobs,
             (Len(notes') = Len(notes) /\ r.pc # "add") \/ Len(notes') = Len(notes) + 1
      PROVE  req' \in [Clients -> Request] /\ RequestsTyped' /\ JobsCounted'
  <2>1. req' \in [Clients -> Request] /\ RequestsTyped'
    <3>1. Len(notes) <= Len(notes')
      BY <1>s, <1>c
    <3>2. QED
      BY <1>c, <3>1, RequestStep
  <2>2. /\ IsFiniteSet(Adding') /\ Cardinality(Adding') \in Nat
        /\ Cardinality(Adding') <= Cardinality(Adding) + 1
        /\ r.pc # "add" => Cardinality(Adding') <= Cardinality(Adding)
    <3>1. /\ IsFiniteSet(Adding') /\ Cardinality(Adding') \in Nat
          /\ r.pc # "add" /\ req[c].pc # "add" => Cardinality(Adding') = Cardinality(Adding)
          /\ r.pc = "add" => Cardinality(Adding') <= Cardinality(Adding) + 1
          /\ req[c].pc = "add" /\ r.pc # "add" =>
                 Cardinality(Adding') = Cardinality(Adding) - 1
      BY <1>c, AddingStep
    <3> HIDE DEF Typed
    <3>2. QED
      BY <1>b, <3>1
  <2>3. Len(jobs') + Cardinality(Adding') <= Len(notes')
    BY <1>a, <1>s, <1>b, <1>c, <2>2
  <2>4. QED
    BY <1>c, <2>1, <2>2, <2>3 DEF JobsCounted
(* and the devices, jobs and workers, when nothing is done to them.               *)
<1>d. ASSUME req' \in [Clients -> Request], RequestsTyped', JobsCounted', notes' \in Seq(NoteStates),
             overlapped' \subseteq Tokens, UNCHANGED <<devices, owner, workerVars>>
      PROVE  Typed'
  <2>1. TypeOK'
    BY <1>d DEF Typed, TypeOK, workerVars
  <2>2. WorkersTyped'
    BY <1>d DEF Typed, WorkersTyped, WorkerTyped, workerVars
  <2>3. QED
    BY <1>d, <2>1, <2>2 DEF Typed
<1>e. ASSUME NEW r \in Request, req' = [req EXCEPT ![c] = r], RequestTyped(r, DOMAIN notes'),
             notes' \in Seq(NoteStates), Len(notes') \in Nat, Len(notes') <= MaxNotes,
             (Len(notes') = Len(notes) /\ r.pc # "add") \/ Len(notes') = Len(notes) + 1,
             overlapped' \subseteq Tokens, UNCHANGED <<devices, owner, workerVars>>
      PROVE  Typed'
  <2>1. jobs' = jobs
    BY <1>e DEF workerVars
  <2>2. req' \in [Clients -> Request] /\ RequestsTyped' /\ JobsCounted'
    BY <1>c, <1>e, <2>1
  <2>3. QED
    BY <1>d, <1>e, <2>2
<1>f. overlapped \subseteq Tokens
  BY DEF Typed, TypeOK
<1>g. RequestTyped(NoRequest, DOMAIN notes')
  BY DEF RequestTyped, NoRequest
<1>1. ASSUME NEW u \in Users, NEW t \in Tokens, NEW platform \in Platforms,
             Register(c, u, t, platform)
      PROVE  Typed'
  <2> DEFINE r == [req[c] EXCEPT !.pc = "deactivate", !.user = u, !.token = t, !.platform = platform]
  <2>1. r \in Request /\ r.pc = "deactivate" /\ r.user = u /\ r.token = t
    BY <1>a, <1>s DEF Request, Platforms
  <2>2. req' = [req EXCEPT ![c] = r]
    BY <1>1, <1>a, <1>s DEF Register, Request
  <2>3. notes' = notes /\ overlapped' \subseteq Tokens /\ UNCHANGED <<devices, owner, workerVars>>
    BY <1>1, <1>f DEF Register
  <2>4. RequestTyped(r, DOMAIN notes')
    BY <2>1 DEF RequestTyped
  <2> HIDE DEF r
  <2>5. QED
    BY <1>a, <1>s, <1>e, <2>1, <2>2, <2>3, <2>4
<1>2. CASE DeactivateToken(c)
  <2> DEFINE r == [req[c] EXCEPT !.pc = "insert"]
  <2>1. r \in Request /\ r.pc = "insert" /\ r.user = req[c].user /\ r.token = req[c].token
    BY <1>a, <1>s DEF Request
  <2>2. req' = [req EXCEPT ![c] = r]
    BY <1>2, <1>a, <1>s DEF DeactivateToken, Goto, Request
  <2>3. UNCHANGED <<notes, owner, overlapped, jobs, worker>> /\ Deactivate(RowsOf(req[c].token))
    BY <1>2 DEF DeactivateToken
  <2>4. RequestTyped(r, DOMAIN notes')
    BY <1>2, <1>a, <1>s, <2>1 DEF RequestTyped, DeactivateToken
  <2>5. RowsOf(req[c].token) \in SUBSET DOMAIN devices
    BY DEF RowsOf
  <2> HIDE DEF r
  <2>6. req' \in [Clients -> Request] /\ RequestsTyped' /\ JobsCounted'
    BY <1>a, <1>s, <1>c, <2>1, <2>2, <2>3, <2>4
  <2>7. /\ devices' \in Seq(Device) /\ Len(devices') = Len(devices)
        /\ DOMAIN devices' = DOMAIN devices
        /\ since' \in [Procs -> SUBSET (1..MaxDevices)]
    BY <2>3, <2>5, DeactivateSets DEF Typed
  <2>8. TypeOK'
    BY <2>3, <2>6, <2>7 DEF Typed, TypeOK
  <2>9. WorkersTyped'
    BY <2>3, <2>7 DEF Typed, WorkersTyped, WorkerTyped
  <2>10. QED
    BY <2>6, <2>8, <2>9 DEF Typed
<1>3. CASE InsertDevice(c)
  <2>1. /\ UNCHANGED <<notes, overlapped, workerVars>> /\ req' = [req EXCEPT ![c] = NoRequest]
    BY <1>3 DEF InsertDevice, End
  <2>2. req' \in [Clients -> Request] /\ RequestsTyped' /\ JobsCounted'
    BY <1>a, <1>s, <1>c, <1>g, <2>1 DEF workerVars, NoRequest
  <2>3. /\ req[c].user \in Users /\ req[c].token \in Tokens
        /\ devices' \in Seq(Device) /\ Len(devices') <= MaxDevices
        /\ DOMAIN devices \subseteq DOMAIN devices'
        /\ owner' = [owner EXCEPT ![req[c].token] = req[c].user]
    BY <1>3, InsertSets
  <2>4. TypeOK'
    BY <2>1, <2>2, <2>3 DEF Typed, TypeOK, workerVars
  <2>5. WorkersTyped'
    BY <2>1, <2>3 DEF Typed, WorkersTyped, WorkerTyped, workerVars
  <2>6. QED
    BY <2>2, <2>4, <2>5 DEF Typed
<1>4. ASSUME NEW u \in Users, CreateNote(c, u) PROVE Typed'
  <2> DEFINE r == [req[c] EXCEPT !.pc = "add", !.user = u]
  <2>1. r \in Request /\ r.pc = "add" /\ r.user = u
    BY <1>a, <1>s DEF Request
  <2>2. req' = [req EXCEPT ![c] = r]
    BY <1>4, <1>a, <1>s DEF CreateNote, Request
  <2>3. notes' = Append(notes, "unread") /\ Len(notes) < MaxNotes
        /\ UNCHANGED <<devices, owner, overlapped, workerVars>>
    BY <1>4 DEF CreateNote
  <2>4. notes' \in Seq(NoteStates) /\ Len(notes') = Len(notes) + 1
    BY <1>a, <1>s, <2>3, AppendedType DEF NoteStates
  <2>5. Len(notes') <= MaxNotes /\ Len(notes') \in Nat
    BY <1>a, <1>s, <2>3, <2>4, BoundsAssumption
  <2>6. RequestTyped(r, DOMAIN notes')
    BY <2>1 DEF RequestTyped
  <2> HIDE DEF r
  <2>7. QED
    BY <1>e, <1>f, <2>1, <2>2, <2>3, <2>4, <2>5, <2>6
<1>5. CASE AddJob(c)
  <2> DEFINE job == [user |-> req[c].user, stalls |-> 0, found |-> {}, tried |-> {},
                     state |-> "waiting"]
  <2>1. job \in Job /\ req[c].pc = "add"
    BY <1>5, <1>a, <1>s DEF AddJob, RequestTyped, Job
  <2>2. /\ jobs' = Append(jobs, job) /\ req' = [req EXCEPT ![c] = NoRequest]
        /\ UNCHANGED <<devices, notes, owner, overlapped, worker, since>>
    BY <1>5 DEF AddJob, End
  <2> HIDE DEF job
  <2>3. jobs' \in Seq(Job) /\ Len(jobs') = Len(jobs) + 1 /\ DOMAIN jobs \subseteq DOMAIN jobs'
    BY <1>a, <1>s, <2>1, <2>2, AppendedType
  <2>4. req' \in [Clients -> Request] /\ RequestsTyped'
    <3>1. notes' \in Seq(NoteStates) /\ Len(notes) <= Len(notes')
      BY <1>s, <2>2
    <3>2. QED
      BY <1>a, <1>g, <2>2, <3>1, RequestStep
  <2>5. /\ IsFiniteSet(Adding') /\ Cardinality(Adding') \in Nat
        /\ Cardinality(Adding') = Cardinality(Adding) - 1
    BY <1>a, <1>s, <2>1, <2>2, AddingStep DEF NoRequest
  <2>6. Len(jobs') + Cardinality(Adding') <= Len(notes')
    BY <1>a, <1>s, <1>b, <2>2, <2>3, <2>5
  <2>7. JobsCounted'
    BY <1>a, <1>s, <2>2, <2>5, <2>6 DEF JobsCounted
  <2>8. TypeOK'
    BY <2>2, <2>3, <2>4 DEF Typed, TypeOK
  <2>9. WorkersTyped'
    BY <2>2, <2>3 DEF Typed, WorkersTyped, WorkerTyped
  <2>10. QED
    BY <2>4, <2>7, <2>8, <2>9 DEF Typed
<1>6. ASSUME NEW n \in DOMAIN notes, UpdateNote(c, n) PROVE Typed'
  <2> DEFINE r == [req[c] EXCEPT !.pc = "load", !.note = n]
  <2>1. r \in Request /\ r.pc = "load" /\ r.note = n
    <3>1. n \in 0..MaxNotes
      BY <1>s, BoundsAssumption
    <3>2. QED
      BY <1>a, <3>1 DEF Request
  <2>2. req' = [req EXCEPT ![c] = r]
    BY <1>6, <1>a, <1>s DEF UpdateNote, Request
  <2>3. UNCHANGED <<devices, notes, owner, overlapped, workerVars>>
    BY <1>6 DEF UpdateNote
  <2>4. RequestTyped(r, DOMAIN notes')
    BY <2>1, <2>3 DEF RequestTyped
  <2> HIDE DEF r
  <2>5. QED
    BY <1>a, <1>s, <1>e, <1>f, <2>1, <2>2, <2>3, <2>4
<1>7. CASE LoadNote(c)
  <2> DEFINE r == [req[c] EXCEPT !.pc = "write", !.loaded = notes[req[c].note]]
  <2>1. r \in Request /\ r.pc = "write" /\ r.note = req[c].note /\ req[c].note \in DOMAIN notes
    BY <1>7, <1>a, <1>s DEF LoadNote, RequestTyped, Request
  <2>2. req' = [req EXCEPT ![c] = r]
    BY <1>7, <1>a, <1>s DEF LoadNote, Request
  <2>3. UNCHANGED <<devices, notes, owner, overlapped, workerVars>>
    BY <1>7 DEF LoadNote
  <2>4. RequestTyped(r, DOMAIN notes')
    BY <2>1, <2>3 DEF RequestTyped
  <2> HIDE DEF r
  <2>5. QED
    BY <1>a, <1>s, <1>e, <1>f, <2>1, <2>2, <2>3, <2>4
<1>8. CASE WriteNote(c)
  <2> DEFINE n == req[c].note
             saved == IF notes[n] = "removed" /\ req[c].loaded # "removed" THEN notes[n]
                      ELSE SavedColumn(notes[n], req[c].loaded, "read")
  <2>1. n \in DOMAIN notes
    BY <1>8, <1>a, <1>s DEF WriteNote, RequestTyped
  <2>2. saved \in NoteStates
    BY <1>a, <1>s, <2>1 DEF SavedColumn, NoteStates
  <2>3. notes' = [notes EXCEPT ![n] = saved] /\ req' = [req EXCEPT ![c] = NoRequest]
        /\ UNCHANGED <<devices, owner, overlapped, workerVars>>
    BY <1>8 DEF WriteNote, End
  <2> HIDE DEF n, saved
  <2>4. notes' \in Seq(NoteStates) /\ Len(notes') = Len(notes)
    BY <1>a, <1>s, <2>1, <2>2, <2>3, ReplacedType
  <2>5. QED
    BY <1>a, <1>s, <1>e, <1>f, <1>g, <2>3, <2>4 DEF NoRequest
<1>9. CASE RequestFails(c)
  <2>1. req' = [req EXCEPT ![c] = NoRequest]
        /\ UNCHANGED <<devices, notes, owner, overlapped, workerVars>>
    BY <1>9 DEF RequestFails, End
  <2>2. QED
    BY <1>a, <1>s, <1>e, <1>f, <1>g, <2>1 DEF NoRequest
<1>10. QED
  BY <1>1, <1>2, <1>3, <1>4, <1>5, <1>6, <1>7, <1>8, <1>9 DEF ClientStep

(* What the steps of a worker read. *)
LEMMA WorkerFacts ==
    ASSUME Typed, NEW p \in Procs
    PROVE  /\ worker \in [Procs -> Worker] /\ worker[p] \in Worker /\ WorkerTyped(worker[p])
           /\ Idle \in Worker /\ WorkerTyped(Idle)
           /\ jobs \in Seq(Job) /\ Len(jobs) \in Nat /\ DOMAIN jobs = 1..Len(jobs)
           /\ DOMAIN jobs \subseteq 1..MaxNotes
           /\ \A j \in DOMAIN jobs : jobs[j] \in Job
           /\ devices \in Seq(Device) /\ DOMAIN devices = 1..Len(devices)
           /\ DOMAIN devices \subseteq 1..MaxDevices
           /\ \A d \in DOMAIN devices : devices[d] \in Device
<1>1. worker \in [Procs -> Worker] /\ worker[p] \in Worker /\ WorkerTyped(worker[p])
  BY DEF Typed, TypeOK, WorkersTyped
<1>2. Idle \in Worker
  BY BoundsAssumption DEF Idle, Worker
<1>3. WorkerTyped(Idle)
  BY DEF Idle, WorkerTyped
<1>4. /\ jobs \in Seq(Job) /\ Len(jobs) \in Nat /\ DOMAIN jobs = 1..Len(jobs)
      /\ \A j \in DOMAIN jobs : jobs[j] \in Job
  BY DomainType DEF Typed, TypeOK
<1>5. Len(jobs) <= MaxNotes
  <2>1. Cardinality(Adding) \in Nat /\ Len(notes) \in Nat
        /\ Len(jobs) + Cardinality(Adding) <= Len(notes) /\ Len(notes) <= MaxNotes
    BY DomainType, FS_CardinalityType DEF Typed, TypeOK, JobsCounted
  <2>2. QED
    BY <1>4, <2>1, BoundsAssumption
<1>6. /\ devices \in Seq(Device) /\ Len(devices) \in Nat /\ DOMAIN devices = 1..Len(devices)
      /\ \A d \in DOMAIN devices : devices[d] \in Device
      /\ Len(devices) <= MaxDevices
  BY DomainType DEF Typed, TypeOK
<1>7. QED
  BY <1>1, <1>2, <1>3, <1>4, <1>5, <1>6, BoundsAssumption

(* A worker's step sets the worker, and perhaps its job and the history.          *)
LEMMA WorkerStepTyped ==
    ASSUME Typed, NEW p \in Procs, NEW w \in Worker, worker' = [worker EXCEPT ![p] = w],
           WorkerTyped(w), jobs' \in Seq(Job), Len(jobs') = Len(jobs),
           devices' \in Seq(Device), Len(devices') = Len(devices),
           since' \in [Procs -> SUBSET (1..MaxDevices)],
           UNCHANGED <<notes, req, owner, overlapped>>
    PROVE  Typed'
<1>1. DOMAIN jobs' = DOMAIN jobs /\ DOMAIN devices' = DOMAIN devices
  BY DomainType DEF Typed, TypeOK
<1>2. /\ worker' \in [Procs -> Worker] /\ worker'[p] = w
      /\ \A q \in Procs : q # p => worker'[q] = worker[q]
  BY DEF Typed, TypeOK
<1>3. TypeOK'
  BY <1>2 DEF Typed, TypeOK
<1>4. WorkersTyped'
  BY <1>1, <1>2 DEF Typed, WorkersTyped, WorkerTyped
<1>5. RequestsTyped' /\ JobsCounted'
  BY DEF Typed, RequestsTyped, RequestTyped, JobsCounted, Adding
<1>6. QED
  BY <1>3, <1>4, <1>5 DEF Typed

(* What each step of a worker sets: the worker to w, its job to j.                *)
LEMMA TypedWorker ==
    ASSUME Typed, NEW p \in Procs, WorkerStep(p) \/ Crash(p)
    PROVE  Typed'
<1>a. /\ worker \in [Procs -> Worker] /\ worker[p] \in Worker /\ WorkerTyped(worker[p])
      /\ Idle \in Worker /\ WorkerTyped(Idle)
      /\ jobs \in Seq(Job) /\ DOMAIN jobs = 1..Len(jobs) /\ DOMAIN jobs \subseteq 1..MaxNotes
      /\ \A j \in DOMAIN jobs : jobs[j] \in Job
      /\ devices \in Seq(Device) /\ DOMAIN devices \subseteq 1..MaxDevices
  BY WorkerFacts
<1>b. since \in [Procs -> SUBSET (1..MaxDevices)]
  BY DEF Typed, TypeOK
<1>c. ASSUME NEW j \in DOMAIN jobs, NEW job \in Job, jobs' = [jobs EXCEPT ![j] = job]
      PROVE  jobs' \in Seq(Job) /\ Len(jobs') = Len(jobs)
  BY <1>a, <1>c, ReplacedType
(* A step that reads devices only and leaves the history alone, *)
<1>d. ASSUME NEW w \in Worker, worker' = [worker EXCEPT ![p] = w], WorkerTyped(w),
             NEW j \in DOMAIN jobs, NEW job \in Job, jobs' = [jobs EXCEPT ![j] = job] \/ jobs' = jobs,
             UNCHANGED <<requestVars, since>>
      PROVE  Typed'
  <2>1. jobs' \in Seq(Job) /\ Len(jobs') = Len(jobs)
    BY <1>a, <1>c, <1>d
  <2>2. UNCHANGED <<devices, notes, req, owner, overlapped, since>>
    BY <1>d DEF requestVars
  <2>3. QED
    BY <1>a, <1>b, <1>d, <2>1, <2>2, WorkerStepTyped
<1>1. CASE TakeJob(p)
  <2>1. PICK j \in DOMAIN jobs :
           /\ worker[p].pc = "idle"
           /\ jobs' = [jobs EXCEPT ![j].state = "active"]
           /\ worker' = [worker EXCEPT ![p].pc = "find", ![p].job = j]
           /\ UNCHANGED <<requestVars, since>>
    BY <1>1 DEF TakeJob
  <2> DEFINE w == [worker[p] EXCEPT !.pc = "find", !.job = j]
             job == [jobs[j] EXCEPT !.state = "active"]
  <2>2. worker[p] = Idle
    BY <1>a, <2>1 DEF WorkerTyped
  <2>3. w.pc = "find" /\ w.job = j /\ w.todo = {} /\ w \in Worker
    <3>1. j \in 0..MaxNotes
      BY <1>a, BoundsAssumption
    <3>2. worker[p].todo = {} /\ worker[p].device = 0
      BY <2>2 DEF Idle
    <3>3. QED
      BY <1>a, <3>1, <3>2 DEF Worker
  <2>4. worker' = [worker EXCEPT ![p] = w] /\ jobs' = [jobs EXCEPT ![j] = job]
    BY <1>a, <2>1 DEF Worker
  <2>5. job \in Job
    BY <1>a DEF Job
  <2>6. WorkerTyped(w)
    BY <2>3 DEF WorkerTyped
  <2> HIDE DEF w, job
  <2>7. QED
    BY <1>d, <2>1, <2>3, <2>4, <2>5, <2>6
<1>2. CASE FindDevices(p)
  <2> DEFINE found == ActiveDevices(JobOf(p).user)
             j == worker[p].job
             w == [worker[p] EXCEPT !.pc = "send", !.todo = found]
             job == [jobs[j] EXCEPT !.found = found, !.tried = {}]
  <2>1. found \subseteq DOMAIN devices
    BY DEF ActiveDevices
  <2>2. j \in DOMAIN jobs
    BY <1>2, <1>a DEF FindDevices, WorkerTyped
  <2> HIDE DEF found
  <2>3. w.pc = "send" /\ w.job = j /\ w.todo = found /\ w \in Worker
    BY <1>a, <2>1 DEF Worker
  <2>4. job \in Job
    BY <1>a, <2>1, <2>2, ZenonT(60) DEF Job
  <2>5. worker' = [worker EXCEPT ![p] = w] /\ jobs' = [jobs EXCEPT ![j] = job]
        /\ since' = [since EXCEPT ![p] = {}] /\ UNCHANGED <<devices, notes, req, owner, overlapped>>
    BY <1>2 DEF FindDevices, requestVars, found
  <2>6. WorkerTyped(w)
    BY <2>1, <2>2, <2>3 DEF WorkerTyped
  <2> HIDE DEF w, job, j
  <2>7. jobs' \in Seq(Job) /\ Len(jobs') = Len(jobs) /\ since' \in [Procs -> SUBSET (1..MaxDevices)]
    BY <1>b, <1>c, <2>2, <2>4, <2>5
  <2>8. QED
    BY <1>a, <2>3, <2>5, <2>6, <2>7, WorkerStepTyped
<1>3. ASSUME NEW d \in worker[p].todo, Push(p, d) \/ PushFindsInvalidToken(p, d) PROVE Typed'
  <2> DEFINE j == worker[p].job
             job == [jobs[j] EXCEPT !.tried = jobs[j].tried \cup {d}]
             sent == [worker[p] EXCEPT !.todo = worker[p].todo \ {d}]
             refused == [worker[p] EXCEPT !.pc = "deactivate", !.device = d,
                                          !.todo = worker[p].todo \ {d}]
  <2>1. /\ worker[p].pc = "send" /\ j \in DOMAIN jobs /\ d \in DOMAIN devices
        /\ worker[p].todo \subseteq DOMAIN devices
    BY <1>3, <1>a DEF Push, PushFindsInvalidToken, WorkerTyped
  <2>2. d \in 1..MaxDevices
    BY <1>a, <2>1
  <2>3. job \in Job
    BY <1>a, <2>1, <2>2, ZenonT(60) DEF Job
  <2>4. /\ worker' \in {[worker EXCEPT ![p] = sent], [worker EXCEPT ![p] = refused]}
        /\ jobs' = [jobs EXCEPT ![j] = job] /\ UNCHANGED <<requestVars, since>>
    BY <1>3, <1>a DEF Push, PushFindsInvalidToken, Tried, Worker
  <2>5. /\ sent \in Worker /\ sent.pc = "send" /\ sent.job = j /\ sent.todo \subseteq DOMAIN devices
        /\ refused \in Worker /\ refused.pc = "deactivate" /\ refused.job = j
        /\ refused.todo \subseteq DOMAIN devices /\ refused.device = d
    <3>1. d \in 0..MaxDevices
      BY <2>2, BoundsAssumption
    <3>2. QED
      BY <1>a, <2>1, <3>1 DEF Worker
  <2>6. WorkerTyped(sent) /\ WorkerTyped(refused)
    BY <2>1, <2>5 DEF WorkerTyped
  <2> HIDE DEF sent, refused, job, j
  <2>7. QED
    BY <1>d, <2>1, <2>3, <2>4, <2>5, <2>6
<1>4. CASE DeactivateDevice(p)
  <2> DEFINE w == [worker[p] EXCEPT !.pc = "send"]
  <2>1. /\ worker[p].job \in DOMAIN jobs /\ worker[p].device \in DOMAIN devices
        /\ worker[p].todo \subseteq DOMAIN devices
    BY <1>4, <1>a DEF DeactivateDevice, WorkerTyped
  <2>2. w \in Worker /\ WorkerTyped(w)
    BY <1>a, <2>1 DEF Worker, WorkerTyped
  <2>3. worker' = [worker EXCEPT ![p] = w] /\ Deactivate({worker[p].device})
        /\ UNCHANGED <<notes, req, owner, overlapped, jobs>>
    BY <1>4, <1>a DEF DeactivateDevice, Worker
  <2>4. /\ devices' \in Seq(Device) /\ Len(devices') = Len(devices)
        /\ since' \in [Procs -> SUBSET (1..MaxDevices)]
    BY <2>1, <2>3, DeactivateSets DEF Typed
  <2> HIDE DEF w
  <2>5. QED
    BY <1>a, <2>2, <2>3, <2>4, WorkerStepTyped
<1>5. ASSUME NEW state \in {"completed", "failed"}, EndJob(p, state), worker[p].pc # "idle"
      PROVE  Typed'
  <2> DEFINE j == worker[p].job
             job == [jobs[j] EXCEPT !.state = state]
  <2>1. j \in DOMAIN jobs
    BY <1>5, <1>a DEF WorkerTyped
  <2>2. job \in Job
    BY <1>a, <2>1 DEF Job
  <2>3. worker' = [worker EXCEPT ![p] = Idle] /\ jobs' = [jobs EXCEPT ![j] = job]
        /\ UNCHANGED <<requestVars, since>>
    BY <1>5 DEF EndJob
  <2> HIDE DEF job, j
  <2>4. QED
    BY <1>a, <1>d, <2>1, <2>2, <2>3
<1>6. CASE JobCompletes(p) \/ JobFails(p)
  BY <1>5, <1>6 DEF JobCompletes, JobFails
<1>7. CASE Crash(p)
  <2>1. worker' = [worker EXCEPT ![p] = Idle]
        /\ UNCHANGED <<jobs, devices, notes, req, owner, overlapped, since>>
    BY <1>7 DEF Crash, requestVars
  <2>2. QED
    BY <1>a, <1>b, <2>1, WorkerStepTyped
<1>8. QED
  BY <1>1, <1>2, <1>3, <1>4, <1>6, <1>7 DEF WorkerStep

LEMMA TypedNext == Typed /\ [Next]_vars => Typed'
<1> SUFFICES ASSUME Typed, [Next]_vars PROVE Typed'
  OBVIOUS
<1>1. ASSUME NEW n \in DOMAIN notes, RemoveNote(n) PROVE Typed'
  <2>1. notes' = [notes EXCEPT ![n] = "removed"] /\ UNCHANGED <<devices, req, owner, overlapped, workerVars>>
    BY <1>1 DEF RemoveNote
  <2>2. notes' \in Seq(NoteStates) /\ Len(notes') = Len(notes) /\ DOMAIN notes' = DOMAIN notes
    BY <2>1, ReplacedType DEF Typed, TypeOK, NoteStates
  <2>3. TypeOK'
    BY <2>1, <2>2 DEF Typed, TypeOK, workerVars
  <2>4. WorkersTyped'
    BY <2>1 DEF Typed, WorkersTyped, WorkerTyped, workerVars
  <2>5. RequestsTyped' /\ JobsCounted'
    BY <2>1, <2>2 DEF Typed, RequestsTyped, RequestTyped, JobsCounted, Adding, workerVars
  <2>6. QED
    BY <2>3, <2>4, <2>5 DEF Typed
<1>2. ASSUME NEW j \in DOMAIN jobs, RequeueStalled(j) PROVE Typed'
  <2> DEFINE job == [jobs[j] EXCEPT !.state = IF jobs[j].stalls = 0 THEN "waiting" ELSE "failed",
                                    !.stalls = 1]
  <2>1. jobs \in Seq(Job) /\ jobs[j] \in Job
    BY DomainType DEF Typed, TypeOK
  <2>2. job \in Job
    BY <2>1 DEF Job
  <2>3. jobs' = [jobs EXCEPT ![j] = job]
        /\ UNCHANGED <<devices, notes, req, owner, overlapped, worker, since>>
    BY <1>2, <2>1 DEF RequeueStalled, requestVars, Job
  <2> HIDE DEF job
  <2>4. jobs' \in Seq(Job) /\ Len(jobs') = Len(jobs) /\ DOMAIN jobs' = DOMAIN jobs
    BY <2>1, <2>2, <2>3, ReplacedType
  <2>5. TypeOK'
    BY <2>3, <2>4 DEF Typed, TypeOK
  <2>6. WorkersTyped'
    BY <2>3, <2>4 DEF Typed, WorkersTyped, WorkerTyped
  <2>7. RequestsTyped' /\ JobsCounted'
    BY <2>3, <2>4 DEF Typed, RequestsTyped, RequestTyped, JobsCounted, Adding
  <2>8. QED
    BY <2>5, <2>6, <2>7 DEF Typed
<1>3. CASE UNCHANGED vars
  <2>1. UNCHANGED <<devices, notes, req, jobs, worker, owner, overlapped, since>>
    BY <1>3 DEF vars
  <2>2. QED
    BY <2>1 DEF Typed, TypeOK, RequestsTyped, RequestTyped, WorkersTyped, WorkerTyped,
                JobsCounted, Adding
<1>4. QED
  BY <1>1, <1>2, <1>3, TypedClient, TypedWorker DEF Next

LEMMA TypedInit == Init => Typed
<1> SUFFICES ASSUME Init PROVE Typed
  OBVIOUS
<1>1. NoRequest \in Request /\ Idle \in Worker
  BY BoundsAssumption DEF NoRequest, Request, NoteStates, Platforms, Idle, Worker
<1>2. TypeOK
  BY <1>1, BoundsAssumption DEF Init, TypeOK
<1>3. RequestsTyped
  BY DEF Init, RequestsTyped, RequestTyped, NoRequest
<1>4. WorkersTyped
  BY DEF Init, WorkersTyped, WorkerTyped, Idle
<1>5. Adding = {}
  BY DEF Init, Adding, NoRequest
<1>6. JobsCounted
  BY <1>5, FS_EmptySet, BoundsAssumption DEF Init, JobsCounted
<1>7. QED
  BY <1>2, <1>3, <1>4, <1>6 DEF Typed

(* Every step keeps the tables, the requests, the jobs and the workers what they  *)
(* are, and adds a job for a stored notification only.                            *)
THEOREM TypeCorrect == Spec => []TypeOK
<1>1. Typed => TypeOK
  BY DEF Typed
<1>2. QED
  BY <1>1, TypedInit, TypedNext, PTL DEF Spec

------------------------------------------------------------------------------
(* What the steps of a worker do to its job and to the rows. *)

OtherJobs(j) == \A i \in DOMAIN jobs : i # j => jobs'[i] = jobs[i]

Takes(p) ==
    /\ worker[p] = Idle /\ worker'[p].pc = "find" /\ worker'[p].todo = {}
    /\ \E j \in DOMAIN jobs :
          /\ jobs[j].state = "waiting" /\ worker'[p].job = j
          /\ jobs'[j].state = "active" /\ jobs'[j].user = jobs[j].user /\ OtherJobs(j)
    /\ UNCHANGED <<devices, since>>

Finds(p) ==
    LET j == worker[p].job
        found == ActiveDevices(jobs[j].user) IN
    /\ worker[p].pc = "find" /\ worker'[p].pc = "send"
    /\ worker'[p].job = j /\ worker'[p].todo = found
    /\ jobs'[j].found = found /\ jobs'[j].tried = {}
    /\ jobs'[j].state = jobs[j].state /\ jobs'[j].user = jobs[j].user /\ OtherJobs(j)
    /\ devices' = devices /\ since' = [since EXCEPT ![p] = {}]

Tries(p) ==
    LET j == worker[p].job IN
    /\ worker[p].pc = "send" /\ worker'[p].pc \in {"send", "deactivate"} /\ worker'[p].job = j
    /\ \E d \in worker[p].todo :
          worker'[p].todo = worker[p].todo \ {d} /\ jobs'[j].tried = jobs[j].tried \cup {d}
    /\ jobs'[j].found = jobs[j].found
    /\ jobs'[j].state = jobs[j].state /\ jobs'[j].user = jobs[j].user /\ OtherJobs(j)
    /\ UNCHANGED <<devices, since>>

Deactivates(p) ==
    /\ worker[p].pc = "deactivate" /\ worker'[p].pc = "send"
    /\ worker'[p].job = worker[p].job /\ worker'[p].todo = worker[p].todo
    /\ worker[p].device \in DOMAIN devices /\ Deactivate({worker[p].device})
    /\ jobs' = jobs

Ends(p) ==
    LET j == worker[p].job IN
    /\ worker[p].pc # "idle" /\ worker'[p] = Idle
    /\ jobs'[j].state = "failed"
         \/ (jobs'[j].state = "completed" /\ worker[p].pc = "send" /\ worker[p].todo = {})
    /\ jobs'[j].found = jobs[j].found /\ jobs'[j].tried = jobs[j].tried
    /\ jobs'[j].user = jobs[j].user /\ OtherJobs(j)
    /\ UNCHANGED <<devices, since>>

Crashes(p) ==
    /\ worker[p].pc # "idle" /\ worker'[p] = Idle
    /\ UNCHANGED <<jobs, devices, since>>

LEMMA WorkerDoes ==
    ASSUME Typed, NEW p \in Procs, WorkerStep(p) \/ Crash(p)
    PROVE  /\ Takes(p) \/ Finds(p) \/ Tries(p) \/ Deactivates(p) \/ Ends(p) \/ Crashes(p)
           /\ DOMAIN jobs' = DOMAIN jobs
           /\ \A q \in Procs : q # p => worker'[q] = worker[q]
           /\ UNCHANGED <<notes, req, owner, overlapped>>
<1>a. /\ worker \in [Procs -> Worker] /\ worker[p] \in Worker /\ WorkerTyped(worker[p])
      /\ jobs \in Seq(Job) /\ \A j \in DOMAIN jobs : jobs[j] \in Job
  BY WorkerFacts
<1>b. ASSUME NEW j \in DOMAIN jobs, NEW job, jobs' = [jobs EXCEPT ![j] = job]
      PROVE  jobs'[j] = job /\ OtherJobs(j)
  BY <1>a, <1>b DEF OtherJobs
<1>c. ASSUME NEW w, worker' = [worker EXCEPT ![p] = w]
      PROVE  worker'[p] = w /\ \A q \in Procs : q # p => worker'[q] = worker[q]
  BY <1>a, <1>c
<1>d. UNCHANGED <<notes, req, owner, overlapped>> /\ DOMAIN jobs' = DOMAIN jobs
      /\ \A q \in Procs : q # p => worker'[q] = worker[q]
  <2>1. UNCHANGED <<notes, req, owner, overlapped>>
    BY DEF WorkerStep, TakeJob, FindDevices, Push, PushFindsInvalidToken, DeactivateDevice,
           JobCompletes, JobFails, EndJob, Crash, requestVars
  <2>2. DOMAIN jobs' = DOMAIN jobs
    BY DEF WorkerStep, TakeJob, FindDevices, Push, PushFindsInvalidToken, DeactivateDevice,
           JobCompletes, JobFails, EndJob, Crash, requestVars, Tried
  <2>3. \A q \in Procs : q # p => worker'[q] = worker[q]
    BY <1>a DEF WorkerStep, TakeJob, FindDevices, Push, PushFindsInvalidToken, DeactivateDevice,
           JobCompletes, JobFails, EndJob, Crash
  <2>4. QED
    BY <2>1, <2>2, <2>3
<1>1. CASE TakeJob(p)
  <2>1. PICK j \in DOMAIN jobs :
           /\ worker[p].pc = "idle" /\ jobs[j].state = "waiting"
           /\ jobs' = [jobs EXCEPT ![j].state = "active"]
           /\ worker' = [worker EXCEPT ![p].pc = "find", ![p].job = j]
           /\ UNCHANGED <<devices, since>>
    BY <1>1 DEF TakeJob, requestVars
  <2>2. worker[p] = Idle
    BY <1>a, <2>1 DEF WorkerTyped
  <2>3. worker'[p].pc = "find" /\ worker'[p].job = j /\ worker'[p].todo = {}
    BY <1>a, <2>1, <2>2 DEF Worker, Idle
  <2>4. jobs' = [jobs EXCEPT ![j] = [jobs[j] EXCEPT !.state = "active"]]
    BY <2>1
  <2>5. jobs'[j].state = "active" /\ jobs'[j].user = jobs[j].user /\ OtherJobs(j)
    BY <1>a, <1>b, <2>4, ZenonT(60) DEF Job
  <2>6. QED
    BY <1>d, <2>1, <2>2, <2>3, <2>5 DEF Takes
<1>2. CASE FindDevices(p)
  <2> DEFINE j == worker[p].job
             found == ActiveDevices(jobs[j].user)
  <2>1. j \in DOMAIN jobs /\ worker[p].pc = "find"
    BY <1>2, <1>a DEF FindDevices, WorkerTyped
  <2>2. /\ worker' = [worker EXCEPT ![p] = [worker[p] EXCEPT !.pc = "send", !.todo = found]]
        /\ jobs' = [jobs EXCEPT ![j] = [jobs[j] EXCEPT !.found = found, !.tried = {}]]
        /\ devices' = devices /\ since' = [since EXCEPT ![p] = {}]
    BY <1>2, <1>a DEF FindDevices, requestVars, JobOf
  <2> HIDE DEF found
  <2>3. worker'[p].pc = "send" /\ worker'[p].job = j /\ worker'[p].todo = found
    BY <1>a, <1>c, <2>2 DEF Worker
  <2>4. /\ jobs'[j].found = found /\ jobs'[j].tried = {}
        /\ jobs'[j].state = jobs[j].state /\ jobs'[j].user = jobs[j].user /\ OtherJobs(j)
    <3>1. jobs'[j] = [jobs[j] EXCEPT !.found = found, !.tried = {}] /\ OtherJobs(j)
      <4> DEFINE job == [jobs[j] EXCEPT !.found = found, !.tried = {}]
      <4>1. jobs' = [jobs EXCEPT ![j] = job]
        BY <2>2
      <4> HIDE DEF job
      <4>2. jobs'[j] = job /\ OtherJobs(j)
        BY <1>b, <2>1, <4>1
      <4>3. QED
        BY <4>2 DEF job
    <3>2. jobs[j] \in Job
      BY <1>a, <2>1
    <3>3. QED
      BY <3>1, <3>2 DEF Job
  <2>5. Finds(p)
    BY <2>1, <2>2, <2>3, <2>4 DEF Finds, found
  <2>6. QED
    BY <1>d, <2>5
<1>3. ASSUME NEW d \in worker[p].todo, Push(p, d) \/ PushFindsInvalidToken(p, d)
      PROVE  Tries(p)
  <2> DEFINE j == worker[p].job
  <2>1. j \in DOMAIN jobs /\ worker[p].pc = "send"
    BY <1>3, <1>a DEF Push, PushFindsInvalidToken, WorkerTyped
  <2>2. /\ jobs' = [jobs EXCEPT ![j] = [jobs[j] EXCEPT !.tried = jobs[j].tried \cup {d}]]
        /\ UNCHANGED <<devices, since>>
    BY <1>3, <1>a DEF Push, PushFindsInvalidToken, Tried, requestVars
  <2>3. worker'[p].pc \in {"send", "deactivate"} /\ worker'[p].job = j
        /\ worker'[p].todo = worker[p].todo \ {d}
    <3>1. CASE Push(p, d)
      BY <1>a, <2>1, <3>1 DEF Push, Worker
    <3>2. CASE PushFindsInvalidToken(p, d)
      BY <1>a, <3>2 DEF PushFindsInvalidToken, Worker
    <3>3. QED
      BY <1>3, <3>1, <3>2
  <2>4. /\ jobs'[j].tried = jobs[j].tried \cup {d} /\ jobs'[j].found = jobs[j].found
        /\ jobs'[j].state = jobs[j].state /\ jobs'[j].user = jobs[j].user /\ OtherJobs(j)
    <3>1. jobs'[j] = [jobs[j] EXCEPT !.tried = jobs[j].tried \cup {d}] /\ OtherJobs(j)
      <4> DEFINE job == [jobs[j] EXCEPT !.tried = jobs[j].tried \cup {d}]
      <4>1. jobs' = [jobs EXCEPT ![j] = job]
        BY <2>2
      <4> HIDE DEF job
      <4>2. jobs'[j] = job /\ OtherJobs(j)
        BY <1>b, <2>1, <4>1
      <4>3. QED
        BY <4>2 DEF job
    <3>2. jobs[j] \in Job
      BY <1>a, <2>1
    <3>3. QED
      BY <3>1, <3>2 DEF Job
  <2>5. QED
    BY <1>3, <2>1, <2>2, <2>3, <2>4 DEF Tries
<1>4. CASE DeactivateDevice(p)
  <2>1. worker'[p].pc = "send" /\ worker'[p].job = worker[p].job /\ worker'[p].todo = worker[p].todo
    BY <1>4, <1>a DEF DeactivateDevice, Worker
  <2>2. worker[p].device \in DOMAIN devices
    BY <1>4, <1>a DEF DeactivateDevice, WorkerTyped
  <2>3. QED
    BY <1>4, <1>d, <2>1, <2>2 DEF DeactivateDevice, Deactivates
<1>5. CASE JobCompletes(p) \/ JobFails(p)
  <2> DEFINE j == worker[p].job
  <2>1. PICK state \in {"completed", "failed"} :
           EndJob(p, state) /\ worker[p].pc # "idle"
           /\ (state = "completed" => worker[p].pc = "send" /\ worker[p].todo = {})
    BY <1>5 DEF JobCompletes, JobFails
  <2>2. j \in DOMAIN jobs
    BY <1>a, <2>1 DEF WorkerTyped
  <2>3. /\ jobs' = [jobs EXCEPT ![j] = [jobs[j] EXCEPT !.state = state]]
        /\ worker' = [worker EXCEPT ![p] = Idle] /\ UNCHANGED <<devices, since>>
    BY <2>1 DEF EndJob, requestVars
  <2>4. /\ jobs'[j].tried = jobs[j].tried /\ jobs'[j].found = jobs[j].found
        /\ jobs'[j].state = state /\ jobs'[j].user = jobs[j].user /\ OtherJobs(j)
    <3>1. jobs'[j] = [jobs[j] EXCEPT !.state = state] /\ OtherJobs(j)
      BY <1>b, <2>2, <2>3
    <3>2. jobs[j] \in Job
      BY <1>a, <2>2
    <3>3. QED
      BY <3>1, <3>2 DEF Job
  <2>5. worker'[p] = Idle
    BY <1>c, <2>3
  <2>6. QED
    BY <1>d, <2>1, <2>3, <2>4, <2>5 DEF Ends
<1>6. CASE Crash(p)
  BY <1>6, <1>c, <1>d DEF Crash, Crashes, requestVars
<1>7. QED
  BY <1>1, <1>2, <1>3, <1>4, <1>5, <1>6, <1>d DEF WorkerStep

------------------------------------------------------------------------------
(* A job and the devices it has tried. *)

JobsHeld ==
    \A p \in Procs : worker[p].pc # "idle" =>
       /\ jobs[worker[p].job].state = "active"
       /\ \A q \in Procs : worker[q].job = worker[p].job => p = q
       /\ worker[p].pc \in {"send", "deactivate"} =>
            jobs[worker[p].job].found = jobs[worker[p].job].tried \cup worker[p].todo

JobsInv == JobsHeld /\ CompletedTriedAll

(* Workers that are busy hold different jobs, which no step but theirs touches.   *)
LEMMA JobsWorker ==
    ASSUME Typed, JobsInv, NEW p \in Procs, WorkerStep(p) \/ Crash(p)
    PROVE  JobsInv'
<1>a. /\ DOMAIN jobs' = DOMAIN jobs /\ \A q \in Procs : q # p => worker'[q] = worker[q]
      /\ Takes(p) \/ Finds(p) \/ Tries(p) \/ Deactivates(p) \/ Ends(p) \/ Crashes(p)
  BY WorkerDoes
<1>b. \A q \in Procs : /\ worker[q].pc # "idle" => worker[q].job \in DOMAIN jobs
                       /\ worker[q].pc = "idle" => worker[q].job = 0
  BY DEF Typed, WorkersTyped, WorkerTyped, Idle
<1>c. 0 \notin DOMAIN jobs
  BY DomainType DEF Typed, TypeOK
<1>d. Idle.pc = "idle" /\ Idle.job = 0
  BY DEF Idle
<1>1. CASE Takes(p)
  <2>1. PICK j \in DOMAIN jobs :
           /\ jobs[j].state = "waiting" /\ worker'[p].job = j
           /\ jobs'[j].state = "active" /\ OtherJobs(j)
    BY <1>1 DEF Takes
  <2>2. worker'[p].pc = "find"
    BY <1>1 DEF Takes
  <2>3. \A q \in Procs : worker[q].job # j
    BY <1>b, <1>c, <2>1 DEF JobsInv, JobsHeld
  <2>4. JobsHeld'
    BY <1>a, <1>b, <2>1, <2>2, <2>3 DEF JobsInv, JobsHeld, OtherJobs
  <2>5. CompletedTriedAll'
    BY <1>a, <2>1 DEF JobsInv, CompletedTriedAll, OtherJobs
  <2>6. QED
    BY <2>4, <2>5 DEF JobsInv
<1>2. CASE Finds(p) \/ Tries(p) \/ Deactivates(p)
  <2> DEFINE j == worker[p].job
  <2>1. /\ worker[p].pc # "idle" /\ worker'[p].job = j /\ j \in DOMAIN jobs
        /\ jobs[j].state = "active" /\ \A q \in Procs : worker[q].job = j => p = q
    BY <1>2, <1>b DEF Finds, Tries, Deactivates, JobsInv, JobsHeld
  <2>2. worker'[p].pc \in {"send", "deactivate"} /\ jobs'[j].state = "active" /\ OtherJobs(j)
    BY <1>2, <2>1 DEF Finds, Tries, Deactivates, OtherJobs
  <2>3. jobs'[j].found = jobs'[j].tried \cup worker'[p].todo
    <3>1. CASE Finds(p)
      BY <3>1 DEF Finds
    <3>2. CASE Tries(p)
      <4>1. jobs[j].found = jobs[j].tried \cup worker[p].todo
        BY <3>2 DEF Tries, JobsInv, JobsHeld
      <4>2. QED
        BY <3>2, <4>1 DEF Tries
    <3>3. CASE Deactivates(p)
      BY <3>3 DEF Deactivates, JobsInv, JobsHeld
    <3>4. QED
      BY <1>2, <3>1, <3>2, <3>3
  <2> HIDE DEF j
  <2>4. JobsHeld'
    <3>1. \A q \in Procs : q # p => worker[q].job # j
      BY <2>1
    <3>2. QED
      BY <1>a, <1>b, <2>1, <2>2, <2>3, <3>1 DEF JobsInv, JobsHeld, OtherJobs
  <2>5. CompletedTriedAll'
    BY <1>a, <2>2 DEF JobsInv, CompletedTriedAll, OtherJobs
  <2>6. QED
    BY <2>4, <2>5 DEF JobsInv
<1>3. CASE Ends(p)
  <2> DEFINE j == worker[p].job
  <2>1. /\ worker[p].pc # "idle" /\ worker'[p] = Idle /\ j \in DOMAIN jobs
        /\ \A q \in Procs : worker[q].job = j => p = q
    BY <1>3, <1>b DEF Ends, JobsInv, JobsHeld
  <2>2. OtherJobs(j)
    BY <1>3 DEF Ends
  <2>3. jobs'[j].state = "completed" => jobs'[j].found = jobs'[j].tried
    BY <1>3 DEF Ends, JobsInv, JobsHeld
  <2> HIDE DEF j
  <2>4. JobsHeld'
    BY <1>a, <1>b, <1>c, <1>d, <2>1, <2>2 DEF JobsInv, JobsHeld, OtherJobs
  <2>5. CompletedTriedAll'
    BY <1>a, <2>2, <2>3 DEF JobsInv, CompletedTriedAll, OtherJobs
  <2>6. QED
    BY <2>4, <2>5 DEF JobsInv
<1>4. CASE Crashes(p)
  <2>1. worker'[p] = Idle /\ jobs' = jobs
    BY <1>4 DEF Crashes
  <2>2. JobsHeld'
    BY <1>a, <1>b, <1>c, <1>d, <2>1 DEF JobsInv, JobsHeld
  <2>3. QED
    BY <2>1, <2>2 DEF JobsInv, CompletedTriedAll
<1>5. QED
  BY <1>1, <1>2, <1>3, <1>4, <1>a

LEMMA JobsNext == Typed /\ JobsInv /\ [Next]_vars => JobsInv'
<1> SUFFICES ASSUME Typed, JobsInv, [Next]_vars PROVE JobsInv'
  OBVIOUS
<1>a. jobs \in Seq(Job) /\ DOMAIN jobs = 1..Len(jobs) /\ Len(jobs) \in Nat
  BY DomainType DEF Typed, TypeOK
<1>b. \A q \in Procs : worker[q].pc # "idle" => worker[q].job \in DOMAIN jobs
  BY DEF Typed, WorkersTyped, WorkerTyped
<1>1. CASE UNCHANGED <<jobs, worker>>
  BY <1>1 DEF JobsInv, JobsHeld, CompletedTriedAll
<1>2. ASSUME NEW c \in Clients, AddJob(c) PROVE JobsInv'
  <2> DEFINE job == [user |-> req[c].user, stalls |-> 0, found |-> {}, tried |-> {},
                     state |-> "waiting"]
  <2>1. job \in Job
    BY <1>2 DEF AddJob, Typed, RequestsTyped, RequestTyped, Job
  <2>2. job.state = "waiting"
    OBVIOUS
  <2>3. jobs' = Append(jobs, job) /\ worker' = worker
    BY <1>2 DEF AddJob
  <2> HIDE DEF job
  <2>4. /\ DOMAIN jobs' = DOMAIN jobs \cup {Len(jobs) + 1} /\ jobs'[Len(jobs) + 1] = job
        /\ \A i \in DOMAIN jobs : jobs'[i] = jobs[i]
    BY <1>a, <2>1, <2>3, AppendedType
  <2>5. JobsHeld'
    BY <1>b, <2>3, <2>4 DEF JobsInv, JobsHeld
  <2>6. CompletedTriedAll'
    BY <2>2, <2>4 DEF JobsInv, CompletedTriedAll
  <2>7. QED
    BY <2>5, <2>6 DEF JobsInv
<1>3. ASSUME NEW j \in DOMAIN jobs, RequeueStalled(j) PROVE JobsInv'
  <2>1. /\ worker' = worker /\ DOMAIN jobs' = DOMAIN jobs
        /\ \A p \in Procs : worker[p].job # j
        /\ \A i \in DOMAIN jobs : i # j => jobs'[i] = jobs[i]
    BY <1>3 DEF RequeueStalled
  <2>2. jobs'[j].state \in {"waiting", "failed"}
    <3>1. jobs[j] \in Job
      BY <1>a
    <3>2. jobs' = [jobs EXCEPT ![j] = [jobs[j] EXCEPT
                      !.state = IF jobs[j].stalls = 0 THEN "waiting" ELSE "failed", !.stalls = 1]]
      BY <1>3, <3>1 DEF RequeueStalled, Job
    <3>3. QED
      BY <3>1, <3>2 DEF Job
  <2>3. JobsHeld'
    BY <1>b, <2>1 DEF JobsInv, JobsHeld
  <2>4. CompletedTriedAll'
    BY <2>1, <2>2 DEF JobsInv, CompletedTriedAll
  <2>5. QED
    BY <2>3, <2>4 DEF JobsInv
<1>4. ASSUME NEW c \in Clients, ClientStep(c), ~AddJob(c) PROVE JobsInv'
  <2>1. UNCHANGED <<jobs, worker>>
    BY <1>4 DEF ClientStep, Register, DeactivateToken, InsertDevice, CreateNote, UpdateNote, LoadNote,
                WriteNote, RequestFails, workerVars
  <2>2. QED
    BY <1>1, <2>1
<1>5. ASSUME NEW n \in DOMAIN notes, RemoveNote(n) PROVE JobsInv'
  BY <1>1, <1>5 DEF RemoveNote, workerVars
<1>6. CASE UNCHANGED vars
  BY <1>1, <1>6 DEF vars
<1>7. QED
  BY <1>2, <1>3, <1>4, <1>5, <1>6, JobsWorker DEF Next

(* A completed job has tried every device that it found when it last began.        *)
THEOREM CompletedTriedAllHolds == Spec => []CompletedTriedAll
<1>1. Init => JobsInv
  BY DEF Init, Idle, JobsInv, JobsHeld, CompletedTriedAll
<1>2. JobsInv => CompletedTriedAll
  BY DEF JobsInv
<1>3. QED
  BY <1>1, <1>2, TypedInit, TypedNext, JobsNext, PTL DEF Spec

------------------------------------------------------------------------------
(* A token and the rows that have it. *)

(* Registrations of a token that do not overlap follow one another: the one that  *)
(* is in progress finds no active row when it inserts its own, and the row of the *)
(* last one is the only one that may be active.                                   *)
TokenSound(t) ==
    /\ \A c, e \in Registering(t) : c = e
    /\ \A c \in Registering(t) : req[c].pc = "insert" =>
          \A d \in RowsOf(t) : ~devices[d].isActive
    /\ \A d, e \in RowsOf(t) :
          devices[d].isActive =>
             /\ devices[d].user = owner[t]
             /\ devices[e].isActive => d = e

Registrations == \A t \in Tokens \ overlapped : TokenSound(t)

(* Whatever deactivates rows and begins no registration keeps a token sound.      *)
LEMMA SoundStays ==
    ASSUME NEW t \in Tokens, TokenSound(t), owner'[t] = owner[t], DOMAIN devices' = DOMAIN devices,
           \A d \in DOMAIN devices :
              /\ devices'[d].token = devices[d].token /\ devices'[d].user = devices[d].user
              /\ devices'[d].isActive => devices[d].isActive,
           \A c \in Clients : req'[c].pc \in {"deactivate", "insert"} => req'[c] = req[c]
    PROVE  TokenSound(t)'
<1>1. RowsOf(t)' = RowsOf(t) /\ RowsOf(t) \subseteq DOMAIN devices
  BY DEF RowsOf
<1>2. \A c \in Registering(t)' : c \in Registering(t) /\ req'[c] = req[c]
  BY DEF Registering
<1>3. QED
  BY <1>1, <1>2 DEF TokenSound

LEMMA RegistrationsClient ==
    ASSUME Typed, Registrations, NEW c \in Clients, ClientStep(c)
    PROVE  Registrations'
<1>a. req \in [Clients -> Request] /\ req[c] \in Request
  BY DEF Typed, TypeOK
<1>1. ASSUME NEW u \in Users, NEW s \in Tokens, NEW platform \in Platforms,
             Register(c, u, s, platform)
      PROVE  Registrations'
  <2>1. /\ req[c].pc = "idle" /\ req'[c].pc = "deactivate" /\ req'[c].token = s
        /\ \A e \in Clients : e # c => req'[e] = req[e]
        /\ UNCHANGED <<devices, owner>>
    BY <1>1, <1>a DEF Register, Request
  <2>2. /\ overlapped \subseteq overlapped'
        /\ s \notin overlapped' => Registering(s) = {}
    BY <1>1 DEF Register
  <2>3. ASSUME NEW t \in Tokens \ overlapped' PROVE TokenSound(t)'
    <3>1. TokenSound(t)
      BY <2>2, <2>3 DEF Registrations
    <3>2. CASE t # s
      <4>1. \A e \in Registering(t)' : e \in Registering(t) /\ req'[e] = req[e]
        BY <2>1, <3>2 DEF Registering
      <4>2. QED
        BY <2>1, <3>1, <4>1 DEF TokenSound, RowsOf
    <3>3. CASE t = s
      <4>1. \A e \in Registering(t)' : e = c
        BY <2>1, <2>2, <2>3, <3>3 DEF Registering
      <4>2. QED
        BY <2>1, <3>1, <4>1 DEF TokenSound, RowsOf
    <3>4. QED
      BY <3>2, <3>3
  <2>4. QED
    BY <2>3 DEF Registrations
<1>2. CASE DeactivateToken(c)
  <2> DEFINE s == req[c].token
  <2>1. /\ req[c].pc = "deactivate" /\ req'[c].pc = "insert" /\ req'[c].token = s
        /\ \A e \in Clients : e # c => req'[e] = req[e]
        /\ UNCHANGED <<owner, overlapped>> /\ Deactivate(RowsOf(s))
    BY <1>2, <1>a DEF DeactivateToken, Goto, Request
  <2>2. RowsOf(s) \in SUBSET DOMAIN devices
    BY DEF RowsOf
  <2>3. /\ DOMAIN devices' = DOMAIN devices
        /\ \A d \in DOMAIN devices :
              /\ devices'[d].token = devices[d].token /\ devices'[d].user = devices[d].user
              /\ devices'[d].isActive => devices[d].isActive /\ d \notin RowsOf(s)
    BY <2>1, <2>2, DeactivateSets DEF Typed
  <2>4. ASSUME NEW t \in Tokens \ overlapped' PROVE TokenSound(t)'
    <3>1. TokenSound(t)
      BY <2>1, <2>4 DEF Registrations
    <3>2. RowsOf(t)' = RowsOf(t) /\ RowsOf(t) \subseteq DOMAIN devices
      BY <2>3 DEF RowsOf
    <3>3. Registering(t)' = Registering(t)
      BY <2>1 DEF Registering
    <3>4. CASE t # s
      <4>1. \A e \in Registering(t)' : req'[e] = req[e]
        BY <2>1, <3>4 DEF Registering
      <4>2. QED
        BY <2>1, <2>3, <3>1, <3>2, <3>3, <4>1 DEF TokenSound
    <3>5. CASE t = s
      BY <2>1, <2>3, <3>1, <3>2, <3>3, <3>5 DEF TokenSound
    <3>6. QED
      BY <3>4, <3>5
  <2>5. QED
    BY <2>4 DEF Registrations
<1>3. CASE InsertDevice(c)
  <2> DEFINE s == req[c].token
             new == Len(devices) + 1
  <2>1. /\ s \in Tokens /\ req[c].pc = "insert"
        /\ DOMAIN devices' = DOMAIN devices \cup {new}
        /\ \A d \in DOMAIN devices : d # new /\ devices'[d] = devices[d]
        /\ devices'[new].token = s /\ devices'[new].user = req[c].user /\ owner'[s] = req[c].user
        /\ \A t \in Tokens : t # s => owner'[t] = owner[t]
    <3>1. /\ s \in Tokens
          /\ DOMAIN devices' = DOMAIN devices \cup {new}
          /\ \A d \in DOMAIN devices : d # new /\ devices'[d] = devices[d]
          /\ devices'[new] = [user |-> req[c].user, token |-> s,
                             platform |-> req[c].platform, isActive |-> TRUE]
          /\ owner' = [owner EXCEPT ![s] = req[c].user]
      BY <1>3, InsertSets
    <3>2. owner \in [Tokens -> Users \cup {None}] /\ req[c].pc = "insert"
      BY <1>3 DEF InsertDevice, Typed, TypeOK
    <3> HIDE DEF new, s
    <3>3. QED
      BY <3>1, <3>2
  <2>2. /\ overlapped' = overlapped /\ req'[c].pc = "idle"
        /\ \A e \in Clients : e # c => req'[e] = req[e]
    BY <1>3, <1>a DEF InsertDevice, End, NoRequest
  <2> HIDE DEF new
  <2>3. ASSUME NEW t \in Tokens \ overlapped' PROVE TokenSound(t)'
    <3>1. TokenSound(t)
      BY <2>2, <2>3 DEF Registrations
    <3>2. \A e \in Registering(t)' : e # c /\ e \in Registering(t) /\ req'[e] = req[e]
      BY <2>2 DEF Registering
    <3>3. CASE t # s
      <4>1. RowsOf(t)' = RowsOf(t) /\ \A d \in RowsOf(t) : devices'[d] = devices[d]
        BY <2>1, <3>3 DEF RowsOf
      <4>2. QED
        BY <2>1, <3>1, <3>2, <3>3, <4>1 DEF TokenSound
    <3>4. CASE t = s
      <4>1. c \in Registering(t)
        BY <2>1, <3>4 DEF Registering
      <4>2. Registering(t)' = {} /\ \A d \in RowsOf(t) : ~devices[d].isActive
        BY <2>1, <3>1, <3>2, <4>1 DEF TokenSound
      <4>3. \A d \in RowsOf(t)' : d = new \/ (d \in RowsOf(t) /\ devices'[d] = devices[d])
        BY <2>1 DEF RowsOf
      <4>4. QED
        BY <2>1, <3>4, <4>2, <4>3 DEF TokenSound
    <3>5. QED
      BY <3>3, <3>4
  <2>4. QED
    BY <2>3 DEF Registrations
<1>4. CASE \/ \E u \in Users : CreateNote(c, u)
           \/ AddJob(c)
           \/ \E n \in DOMAIN notes : UpdateNote(c, n)
           \/ LoadNote(c)
           \/ WriteNote(c)
           \/ RequestFails(c)
  <2>1. UNCHANGED <<devices, owner, overlapped>>
    BY <1>4 DEF CreateNote, AddJob, UpdateNote, LoadNote, WriteNote, RequestFails
  <2>2. /\ req'[c].pc \notin {"deactivate", "insert"}
        /\ \A e \in Clients : e # c => req'[e] = req[e]
    BY <1>4, <1>a DEF CreateNote, AddJob, UpdateNote, LoadNote, WriteNote, RequestFails, End,
                      NoRequest, Request
  <2>3. QED
    BY <2>1, <2>2, SoundStays DEF Registrations
<1>5. QED
  BY <1>1, <1>2, <1>3, <1>4 DEF ClientStep

LEMMA RegistrationsNext == Typed /\ Registrations /\ [Next]_vars => Registrations'
<1> SUFFICES ASSUME Typed, Registrations, [Next]_vars PROVE Registrations'
  OBVIOUS
<1>1. CASE UNCHANGED <<devices, req, owner, overlapped>>
  BY <1>1, SoundStays DEF Registrations
<1>2. ASSUME NEW p \in Procs, WorkerStep(p) \/ Crash(p) PROVE Registrations'
  <2>1. /\ Takes(p) \/ Finds(p) \/ Tries(p) \/ Deactivates(p) \/ Ends(p) \/ Crashes(p)
        /\ UNCHANGED <<notes, req, owner, overlapped>>
    BY <1>2, WorkerDoes
  <2>2. CASE devices' = devices
    BY <1>1, <2>1, <2>2
  <2>3. CASE Deactivates(p)
    <3>1. {worker[p].device} \in SUBSET DOMAIN devices /\ Deactivate({worker[p].device})
      BY <2>3 DEF Deactivates
    <3>2. /\ DOMAIN devices' = DOMAIN devices
          /\ \A d \in DOMAIN devices :
                /\ devices'[d].token = devices[d].token /\ devices'[d].user = devices[d].user
                /\ devices'[d].isActive => devices[d].isActive
      BY <3>1, DeactivateSets DEF Typed
    <3>3. QED
      BY <2>1, <3>2, SoundStays DEF Registrations
  <2>4. QED
    BY <2>1, <2>2, <2>3 DEF Takes, Finds, Tries, Ends, Crashes
<1>3. ASSUME NEW n \in DOMAIN notes, RemoveNote(n) PROVE Registrations'
  BY <1>1, <1>3 DEF RemoveNote
<1>4. ASSUME NEW j \in DOMAIN jobs, RequeueStalled(j) PROVE Registrations'
  BY <1>1, <1>4 DEF RequeueStalled, requestVars
<1>5. CASE UNCHANGED vars
  BY <1>1, <1>5 DEF vars
<1>6. QED
  BY <1>2, <1>3, <1>4, <1>5, RegistrationsClient DEF Next

(* Unless registrations of it overlap, a token is active for its last owner only.  *)
THEOREM TokenActiveOnceHolds == Spec => []TokenActiveOnce
<1>1. Init => Registrations
  BY DEF Init, Registrations, TokenSound, Registering, RowsOf, NoRequest
<1>2. Registrations => TokenActiveOnce
  BY DEF Registrations, TokenSound, TokenActiveOnce
<1>3. QED
  BY <1>1, <1>2, TypedInit, TypedNext, RegistrationsNext, PTL DEF Spec

------------------------------------------------------------------------------
(* A worker and the owners of the devices that it has still to push to. *)

(* The device was active when the worker read it, and still is or was deactivated *)
(* since; so another user cannot have become the owner of its token in between.   *)
Follows(p, d) ==
    /\ devices[d].isActive \/ d \in since[p]
    /\ \/ owner[devices[d].token] = jobs[worker[p].job].user
       \/ d \in since[p]
       \/ devices[d].token \in overlapped

PushesFollow == \A p \in Procs : \A d \in worker[p].todo : Follows(p, d)

LEMMA FollowsNext == Typed /\ Registrations /\ PushesFollow /\ [Next]_vars => PushesFollow'
<1> SUFFICES ASSUME Typed, Registrations, PushesFollow, [Next]_vars PROVE PushesFollow'
  OBVIOUS
<1>a. \A q \in Procs :
        /\ worker[q].todo # {} => worker[q].job \in DOMAIN jobs
        /\ worker[q].todo \subseteq DOMAIN devices
  BY DEF Typed, WorkersTyped, WorkerTyped, Idle
<1>b. devices \in Seq(Device) /\ \A d \in DOMAIN devices : devices[d] \in Device
  BY DomainType DEF Typed, TypeOK
<1>s. since \in [Procs -> SUBSET (1..MaxDevices)] /\ owner \in [Tokens -> Users \cup {None}]
  BY DEF Typed, TypeOK
(* A device that some worker keeps among those to push to. *)
<1>c. ASSUME NEW q \in Procs, NEW d \in worker[q].todo, worker'[q].job = worker[q].job,
             jobs'[worker[q].job].user = jobs[worker[q].job].user,
             overlapped \subseteq overlapped', since[q] \subseteq since'[q],
             devices'[d].token = devices[d].token,
             devices[d].isActive => devices'[d].isActive \/ d \in since'[q],
             owner'[devices[d].token] = owner[devices[d].token] \/ d \in since'[q]
      PROVE  Follows(q, d)'
  <2>1. Follows(q, d)
    BY DEF PushesFollow
  <2>2. QED
    BY <1>c, <2>1 DEF Follows
(* Steps that leave the devices, the owners and the workers.                      *)
<1>d. ASSUME UNCHANGED <<devices, worker, since, owner>>, overlapped \subseteq overlapped',
             \A j \in DOMAIN jobs : jobs'[j].user = jobs[j].user
      PROVE  PushesFollow'
  <2>1. ASSUME NEW q \in Procs, NEW d \in worker[q].todo PROVE Follows(q, d)'
    BY <1>a, <1>c, <1>d
  <2>2. QED
    BY <1>d, <2>1 DEF PushesFollow
(* Steps that deactivate rows.                                                    *)
<1>e. ASSUME NEW ids \in SUBSET DOMAIN devices, Deactivate(ids), UNCHANGED <<jobs, owner, overlapped>>,
             \A q \in Procs : worker'[q].job = worker[q].job /\ worker'[q].todo = worker[q].todo
      PROVE  PushesFollow'
  <2>1. /\ \A d \in DOMAIN devices :
              /\ devices'[d].token = devices[d].token
              /\ devices'[d].isActive <=> devices[d].isActive /\ d \notin ids
        /\ \A p \in Procs : since'[p] = since[p] \cup ids
    BY <1>e, DeactivateSets DEF Typed
  <2>2. ASSUME NEW q \in Procs, NEW d \in worker[q].todo PROVE Follows(q, d)'
    BY <1>a, <1>c, <1>e, <2>1
  <2>3. QED
    BY <1>e, <2>2 DEF PushesFollow
<1>1. ASSUME NEW c \in Clients, DeactivateToken(c) PROVE PushesFollow'
  <2>1. RowsOf(req[c].token) \in SUBSET DOMAIN devices
    BY DEF RowsOf
  <2>2. QED
    BY <1>1, <1>e, <2>1 DEF DeactivateToken
<1>2. ASSUME NEW c \in Clients, InsertDevice(c) PROVE PushesFollow'
  <2> DEFINE s == req[c].token
  <2>1. /\ s \in Tokens /\ req[c].pc = "insert"
        /\ \A d \in DOMAIN devices : devices'[d] = devices[d]
        /\ \A t \in Tokens : t # s => owner'[t] = owner[t]
        /\ UNCHANGED <<worker, since, jobs, overlapped>>
    BY <1>2, <1>s, InsertSets DEF InsertDevice, workerVars
  <2>2. ASSUME NEW q \in Procs, NEW d \in worker[q].todo PROVE Follows(q, d)'
    <3>1. Follows(q, d) /\ d \in DOMAIN devices /\ devices'[d] = devices[d]
          /\ devices[d].token \in Tokens
      BY <1>a, <1>b, <2>1 DEF PushesFollow, Device
    <3>2. CASE devices[d].token # s
      BY <1>c, <2>1, <3>1, <3>2
    <3>3. CASE devices[d].token = s /\ s \in overlapped
      BY <2>1, <3>1, <3>3 DEF Follows
    <3>4. CASE devices[d].token = s /\ s \notin overlapped
      <4>1. c \in Registering(s) /\ d \in RowsOf(s)
        BY <2>1, <3>1, <3>4 DEF Registering, RowsOf
      <4>2. ~devices[d].isActive
        BY <2>1, <3>4, <4>1 DEF Registrations, TokenSound
      <4>3. d \in since[q]
        BY <3>1, <4>2 DEF Follows
      <4>4. QED
        BY <2>1, <3>1, <4>3 DEF Follows
    <3>5. QED
      BY <3>2, <3>3, <3>4
  <2>3. QED
    BY <2>1, <2>2 DEF PushesFollow
<1>3. ASSUME NEW c \in Clients, ClientStep(c), ~DeactivateToken(c), ~InsertDevice(c)
      PROVE  PushesFollow'
  <2>1. UNCHANGED <<devices, worker, since, owner>> /\ overlapped \subseteq overlapped'
    BY <1>3 DEF ClientStep, Register, CreateNote, AddJob, UpdateNote, LoadNote, WriteNote,
                RequestFails, workerVars
  <2>2. \A j \in DOMAIN jobs : jobs'[j].user = jobs[j].user
    <3>1. CASE AddJob(c)
      <4> DEFINE job == [user |-> req[c].user, stalls |-> 0, found |-> {}, tried |-> {},
                         state |-> "waiting"]
      <4>1. job \in Job /\ jobs' = Append(jobs, job) /\ jobs \in Seq(Job)
        BY <3>1 DEF AddJob, Typed, TypeOK, RequestsTyped, RequestTyped, Job
      <4> HIDE DEF job
      <4>2. QED
        BY <4>1, AppendedType
    <3>2. CASE ~AddJob(c)
      BY <1>3, <3>2 DEF ClientStep, Register, CreateNote, UpdateNote, LoadNote, WriteNote,
                        RequestFails, workerVars
    <3>3. QED
      BY <3>1, <3>2
  <2>3. QED
    BY <1>d, <2>1, <2>2
<1>4. ASSUME NEW p \in Procs, WorkerStep(p) \/ Crash(p) PROVE PushesFollow'
  <2>a. /\ Takes(p) \/ Finds(p) \/ Tries(p) \/ Deactivates(p) \/ Ends(p) \/ Crashes(p)
        /\ \A q \in Procs : q # p => worker'[q] = worker[q]
        /\ UNCHANGED <<notes, req, owner, overlapped>>
    BY <1>4, WorkerDoes
  <2>b. \A j \in DOMAIN jobs : jobs'[j].user = jobs[j].user
    <3>1. worker[p].pc # "idle" => worker[p].job \in DOMAIN jobs
      BY DEF Typed, WorkersTyped, WorkerTyped
    <3>2. QED
      BY <2>a, <3>1 DEF Takes, Finds, Tries, Deactivates, Ends, Crashes, OtherJobs
  <2>c. Idle.todo = {}
    BY DEF Idle
  <2>1. CASE Deactivates(p)
    <3>1. {worker[p].device} \in SUBSET DOMAIN devices /\ Deactivate({worker[p].device})
          /\ \A q \in Procs : worker'[q].job = worker[q].job /\ worker'[q].todo = worker[q].todo
      BY <2>1, <2>a DEF Deactivates
    <3>2. QED
      BY <1>e, <2>1, <2>a, <3>1 DEF Deactivates
  <2>2. CASE UNCHANGED <<devices, since>> /\ worker'[p].todo \subseteq worker[p].todo
             /\ (worker'[p].todo # {} => worker'[p].job = worker[p].job)
    <3>1. ASSUME NEW q \in Procs, NEW d \in worker'[q].todo PROVE Follows(q, d)'
      <4>1. d \in worker[q].todo /\ worker'[q].job = worker[q].job
        BY <2>2, <2>a, <3>1
      <4>2. QED
        BY <1>a, <1>c, <2>2, <2>a, <2>b, <4>1
    <3>2. QED
      BY <3>1 DEF PushesFollow
  <2>3. CASE Finds(p)
    <3>1. /\ devices' = devices /\ worker'[p].job = worker[p].job /\ worker[p].job \in DOMAIN jobs
          /\ worker'[p].todo = ActiveDevices(jobs[worker[p].job].user)
      BY <2>3 DEF Finds, Typed, WorkersTyped, WorkerTyped
    <3>2. ASSUME NEW d \in worker'[p].todo PROVE Follows(p, d)'
      <4>1. /\ d \in DOMAIN devices /\ devices[d].isActive /\ devices[d].token \in Tokens
            /\ devices[d].user = jobs[worker[p].job].user
        BY <1>b, <3>1, <3>2 DEF ActiveDevices, Device
      <4>2. devices[d].token \notin overlapped => owner[devices[d].token] = devices[d].user
        BY <4>1 DEF Registrations, TokenSound, RowsOf
      <4>3. QED
        BY <2>a, <2>b, <3>1, <4>1, <4>2 DEF Follows
    <3>3. ASSUME NEW q \in Procs, q # p, NEW d \in worker'[q].todo PROVE Follows(q, d)'
      <4>1. worker'[q] = worker[q] /\ since'[q] = since[q]
        BY <1>s, <2>3, <2>a, <3>3 DEF Finds
      <4>2. QED
        BY <1>a, <1>c, <2>a, <2>b, <3>1, <3>3, <4>1
    <3>4. QED
      BY <3>2, <3>3 DEF PushesFollow
  <2>4. QED
    BY <2>1, <2>2, <2>3, <2>a, <2>c DEF Takes, Tries, Ends, Crashes
<1>5. ASSUME NEW n \in DOMAIN notes, RemoveNote(n) PROVE PushesFollow'
  BY <1>5, <1>d DEF RemoveNote, workerVars
<1>6. ASSUME NEW j \in DOMAIN jobs, RequeueStalled(j) PROVE PushesFollow'
  <2>1. jobs[j] \in Job
    BY DomainType DEF Typed, TypeOK
  <2>2. \A i \in DOMAIN jobs : jobs'[i].user = jobs[i].user
    BY <1>6, <2>1 DEF RequeueStalled, Job
  <2>3. QED
    BY <1>6, <1>d, <2>2 DEF RequeueStalled, requestVars
<1>7. CASE UNCHANGED vars
  BY <1>7, <1>d DEF vars
<1>8. QED
  BY <1>1, <1>2, <1>3, <1>4, <1>5, <1>6, <1>7 DEF Next

(* A job pushes to a device of another user than its own only if it read the rows  *)
(* before that user registered the token, or registrations overlapped.             *)
THEOREM PushesFollowTokensHolds == Spec => []PushesFollowTokens
<1>1. Init => Registrations /\ PushesFollow
  BY DEF Init, Registrations, TokenSound, Registering, RowsOf, NoRequest, PushesFollow, Idle
<1>2. PushesFollow => PushesFollowTokens
  BY DEF PushesFollow, Follows, PushesFollowTokens, JobOf
<1>3. QED
  BY <1>1, <1>2, TypedInit, TypedNext, RegistrationsNext, FollowsNext, PTL DEF Spec
===============================================================================
