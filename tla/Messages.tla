------------------------------- MODULE Messages -------------------------------
(***************************************************************************)
(* Messages and what hangs on them: MessageService and MessageRepository   *)
(* store, change and remove them, ModerationService and ReportService put  *)
(* flagged and reported ones into the moderation queue and review them,    *)
(* ReadReceiptService and markAsRead record who has read them.  Each call  *)
(* awaits the database between its statements; others run meanwhile.       *)
(*                                                                         *)
(* Abstracted: contents (the outcome of their analysis is free), scores,   *)
(* notes and moderators, and the broadcasts that follow.                   *)
(***************************************************************************)
EXTENDS Naturals, FiniteSets

CONSTANTS
    MessageIds,
    Users,
    Calls,          \* calls of the services, known by their number
    MaxCalls,       \* bound: calls in all
    Threshold,      \* pending reports that put a message into the queue (3 in the code)
    None

VARIABLES
    messages,           \* the messages table: "new", "stored" or "removed"
    moderationQueue,
    reports,            \* content_reports
    readReceipts,       \* read_receipt, written by ReadReceiptService
    reads,              \* message_read_receipts, written by markMessageAsRead
    call,
    started,            \* calls that have begun
    \* History variables, read by properties only.
    flagged,            \* stored messages that an analysis flagged
    unqueued            \* messages of calls that failed before or while queueing them

history == <<flagged, unqueued>>
tables == <<messages, moderationQueue, reports, readReceipts, reads>>
vars == <<tables, call, started, history>>

\* Rows; the key of one is the call that inserted it.  "closed" is any verdict.
Item == [by : Calls, message : MessageIds, status : {"pending", "closed"}]
ContentReport == [by : Calls, message : MessageIds, status : {"pending", "closed"}]
Receipt == [by : Calls, reader : Users \cup {None}, message : MessageIds \cup {None}]

Kinds == {"send", "job", "edit", "read", "receipt", "report", "reviewItem", "reviewReport"}

FirstStep == [send |-> "analyze", job |-> "analyze", edit |-> "find", read |-> "find",
              receipt |-> "find", report |-> "insert", reviewItem |-> "find",
              reviewReport |-> "find"]

\* case: the key of the row under review.
Call == [pc : {"new", "analyze", "find", "check", "insert", "write", "count", "queue", "done"},
         kind : Kinds, user : Users \cup {None}, message : MessageIds \cup {None},
         flag : BOOLEAN, case : Calls \cup {None}]

Unused(pc) == [pc |-> pc, kind |-> "send", user |-> None, message |-> None,
               flag |-> FALSE, case |-> None]

Init ==
    /\ messages \in [MessageIds -> {"new", "stored"}]
    /\ moderationQueue = {} /\ reports = {} /\ readReceipts = {} /\ reads = {}
    /\ call = [c \in Calls |-> Unused("new")]
    /\ started = 0
    /\ flagged = {} /\ unqueued = {}

At(c, kinds, pc) == call[c].kind \in kinds /\ call[c].pc = pc

\* A call goes on; nothing is kept of one that is done.
Goto(c, pc) ==
    call' = [call EXCEPT ![c] = IF pc = "done" THEN Unused("done") ELSE [@ EXCEPT !.pc = pc]]

Stored(m) == m \in MessageIds /\ messages[m] = "stored"

\* Whom a call is for: a receipt may be asked for a user that is not there.
Readers(kind) ==
    CASE kind = "read" -> Users
      [] kind = "receipt" -> Users \cup {None}
      [] OTHER -> {None}

\* A message that is sent has a new id.
Start(c, kind, u, m) ==
    /\ call[c].pc = "new" /\ started < MaxCalls
    /\ kind = "send" => /\ messages[m] = "new"
                        /\ \A d \in Calls : call[d].kind = "send" => call[d].message # m
    /\ call' = [call EXCEPT ![c] = [pc |-> FirstStep[kind], kind |-> kind, user |-> u,
                                    message |-> m, flag |-> FALSE, case |-> None]]
    /\ started' = started + 1
    /\ UNCHANGED <<tables, history>>

------------------------------------------------------------------------------
(* Sending, and the jobs that analyze a stored message. *)

\* The service that analyzes answers, or a list of words decides.
Analyze(c, flag) ==
    /\ call[c].pc = "analyze"
    /\ call' = [call EXCEPT ![c] =
          IF call[c].kind = "send" THEN [@ EXCEPT !.pc = "insert", !.flag = flag]
          ELSE IF flag THEN [@ EXCEPT !.pc = "queue", !.flag = flag]
          ELSE Unused("done")]
    /\ flagged' = IF call[c].kind = "job" /\ flag THEN flagged \cup {call[c].message} ELSE flagged
    /\ UNCHANGED <<tables, started, unqueued>>

InsertMessage(c) ==
    LET m == call[c].message IN
    /\ At(c, {"send"}, "insert")
    /\ messages[m] = "new"
    /\ messages' = [messages EXCEPT ![m] = "stored"]
    /\ Goto(c, IF call[c].flag THEN "queue" ELSE "done")
    /\ flagged' = IF call[c].flag THEN flagged \cup {m} ELSE flagged
    /\ UNCHANGED <<moderationQueue, reports, readReceipts, reads, started, unqueued>>

\* queueForModeration, by any of its callers: the message must be there.
Queue(c) ==
    /\ call[c].pc = "queue"
    /\ Stored(call[c].message)
    /\ moderationQueue' = moderationQueue \cup
          {[by |-> c, message |-> call[c].message, status |-> "pending"]}
    /\ Goto(c, "done")
    /\ UNCHANGED <<messages, reports, readReceipts, reads, started, history>>

------------------------------------------------------------------------------
(* Changing and removing. *)

\* Nothing is done about a message that is not there.
EditFind(c) ==
    /\ At(c, {"edit"}, "find")
    /\ Goto(c, IF Stored(call[c].message) THEN "write" ELSE "done")
    /\ UNCHANGED <<tables, started, history>>

\* The save inserts the message again if it was removed since.
EditWrite(c) ==
    /\ At(c, {"edit"}, "write")
    /\ messages' = [messages EXCEPT ![call[c].message] = "stored"]
    /\ Goto(c, "done")
    /\ UNCHANGED <<moderationQueue, reports, readReceipts, reads, started, history>>

\* Variant: whatever refers to the message.
RemoveUnchecked(m) ==
    /\ Stored(m)
    /\ messages' = [messages EXCEPT ![m] = "removed"]
    /\ readReceipts' = {r \in readReceipts : r.message # m}
    /\ UNCHANGED <<moderationQueue, reports, reads, call, started, history>>

\* Its receipts of one table go with it; the rows of the other three forbid it.
Remove(m) ==
    /\ Stored(m)
    /\ \A r \in moderationQueue \cup reports \cup reads : r.message # m
    /\ messages' = [messages EXCEPT ![m] = "removed"]
    /\ readReceipts' = {r \in readReceipts : r.message # m}
    /\ UNCHANGED <<moderationQueue, reports, reads, call, started, history>>

------------------------------------------------------------------------------
(* Reading.  The gateway and a route of the messages add a row each time; the   *)
(* service of the receipts looks for one first.                                 *)

ReadFind(c) ==
    /\ At(c, {"read"}, "find")
    /\ Goto(c, IF Stored(call[c].message) THEN "insert" ELSE "done")
    /\ UNCHANGED <<tables, started, history>>

ReadInsert(c) ==
    /\ At(c, {"read"}, "insert")
    /\ Stored(call[c].message)
    /\ reads' = reads \cup {[by |-> c, reader |-> call[c].user, message |-> call[c].message]}
    /\ Goto(c, "done")
    /\ UNCHANGED <<messages, moderationQueue, reports, readReceipts, started, history>>

\* What is not found, the reader (None from the start) or the message, is null.
ReceiptFind(c) ==
    /\ At(c, {"receipt"}, "find")
    /\ call' = [call EXCEPT ![c].pc = "check",
                            ![c].message = IF Stored(@) THEN @ ELSE None]
    /\ UNCHANGED <<tables, started, history>>

\* The query compares every column of the two entities and leaves out one that is null:
\* it may miss a receipt that fits, for a timestamp has lost its microseconds on the way,
\* unless it compares nothing.
ReceiptCheck(c) ==
    LET u == call[c].user  m == call[c].message
        fits == {r \in readReceipts : u \in {None, r.reader} /\ m \in {None, r.message}} IN
    /\ At(c, {"receipt"}, "check")
    /\ \/ fits # {} /\ Goto(c, "done")
       \/ (fits = {} \/ u # None \/ m # None) /\ Goto(c, "insert")
    /\ UNCHANGED <<tables, started, history>>

ReceiptInsert(c) ==
    /\ At(c, {"receipt"}, "insert")
    /\ call[c].message = None \/ Stored(call[c].message)
    /\ readReceipts' = readReceipts \cup
          {[by |-> c, reader |-> call[c].user, message |-> call[c].message]}
    /\ Goto(c, "done")
    /\ UNCHANGED <<messages, moderationQueue, reports, reads, started, history>>

------------------------------------------------------------------------------
(* Reports and reviews. *)

Report(c) ==
    /\ At(c, {"report"}, "insert")
    /\ Stored(call[c].message)
    /\ reports' = reports \cup {[by |-> c, message |-> call[c].message, status |-> "pending"]}
    /\ Goto(c, "count")
    /\ UNCHANGED <<messages, moderationQueue, readReceipts, reads, started, history>>

Pending(m) == {r \in reports : r.message = m /\ r.status = "pending"}

\* Variant: only the report that reaches the threshold queues the message.
CountAtThreshold(c) ==
    /\ call[c].pc = "count"
    /\ Goto(c, IF Cardinality(Pending(call[c].message)) = Threshold THEN "queue" ELSE "done")
    /\ UNCHANGED <<tables, started, history>>

\* From the threshold on every report queues the message again.
Count(c) ==
    /\ call[c].pc = "count"
    /\ Goto(c, IF Cardinality(Pending(call[c].message)) >= Threshold THEN "queue" ELSE "done")
    /\ UNCHANGED <<tables, started, history>>

ReviewFind(c, r) ==
    /\ At(c, {"reviewItem", "reviewReport"}, "find")
    /\ r \in IF call[c].kind = "reviewItem" THEN moderationQueue ELSE reports
    /\ call' = [call EXCEPT ![c].pc = "write", ![c].case = r.by]
    /\ UNCHANGED <<tables, started, history>>

\* A second review of the same row overwrites the first.
Closed(cases, key) ==
    {IF r.by = key THEN [r EXCEPT !.status = "closed"] ELSE r : r \in cases}

ReviewContent(c) ==
    /\ At(c, {"reviewItem"}, "write")
    /\ moderationQueue' = Closed(moderationQueue, call[c].case)
    /\ Goto(c, "done")
    /\ UNCHANGED <<messages, reports, readReceipts, reads, started, history>>

ReviewReport(c) ==
    /\ At(c, {"reviewReport"}, "write")
    /\ reports' = Closed(reports, call[c].case)
    /\ Goto(c, "done")
    /\ UNCHANGED <<messages, moderationQueue, readReceipts, reads, started, history>>

\* A statement is rejected (an insert whose message is not there), a row under review is
\* not found, or the process stops.
Fail(c) ==
    /\ call[c].pc \notin {"new", "done"}
    /\ Goto(c, "done")
    /\ unqueued' = IF call[c].pc \in {"count", "queue"} THEN unqueued \cup {call[c].message}
                   ELSE unqueued
    /\ UNCHANGED <<tables, started, flagged>>

------------------------------------------------------------------------------
Step(c) ==
    \/ \E flag \in BOOLEAN : Analyze(c, flag)
    \/ InsertMessage(c) \/ Queue(c)
    \/ EditFind(c) \/ EditWrite(c)
    \/ ReadFind(c) \/ ReadInsert(c)
    \/ ReceiptFind(c) \/ ReceiptCheck(c) \/ ReceiptInsert(c)
    \/ Report(c) \/ Count(c)
    \/ \E r \in moderationQueue \cup reports : ReviewFind(c, r)
    \/ ReviewContent(c) \/ ReviewReport(c)
    \/ Fail(c)

Next ==
    \/ \E c \in Calls, kind \in Kinds, m \in MessageIds :
         \E u \in Readers(kind) : Start(c, kind, u, m)
    \/ \E c \in Calls : Step(c)
    \/ \E m \in MessageIds : Remove(m)

Spec == Init /\ [][Next]_vars

------------------------------------------------------------------------------
(* Properties. *)

\* The types, and rows that refer to a message only while it is there.
TypeOK ==
    /\ messages \in [MessageIds -> {"new", "stored", "removed"}]
    /\ moderationQueue \subseteq Item /\ reports \subseteq ContentReport
    /\ readReceipts \subseteq Receipt /\ reads \subseteq Receipt
    /\ \A r \in moderationQueue \cup reports \cup reads : Stored(r.message)
    /\ \A r \in readReceipts : r.message = None \/ Stored(r.message)
    /\ call \in [Calls -> Call]
    /\ started \in 0..MaxCalls
    /\ flagged \subseteq MessageIds /\ unqueued \subseteq MessageIds

\* A message that an analysis flagged, or that has as many pending reports as it takes,
\* is in the moderation queue, or a call is about to queue it, or one failed at that;
\* in whatever order reports are counted and reviewed.
NothingEscapesTheQueue ==
    \A m \in MessageIds :
       (m \in flagged /\ Stored(m)) \/ Cardinality(Pending(m)) >= Threshold =>
          \/ \E item \in moderationQueue : item.message = m
          \/ m \in unqueued
          \/ \E c \in Calls : call[c].pc \in {"count", "queue"} /\ call[c].message = m

==============================================================================
