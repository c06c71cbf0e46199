--------------------------- MODULE EmailDelivery ---------------------------
(***************************************************************************)
(* E-mailing a report: the API inserts an email_deliveries row and queues   *)
(* send_report_email, whose task attaches the ZIP, or uploads it to Google *)
(* Drive, shares it and mails the link, and then commits SENT or FAILED    *)
(* (backend/app/services/email_service.py, workers/tasks/email_task.py).   *)
(*                                                                         *)
(* Gmail and Drive are outside the transaction: what they accepted stays   *)
(* accepted whatever becomes of the task.  All deliveries here are of one  *)
(* job's report; retention may delete it at any time.  As in JobPipeline,  *)
(* Faults names what the environment may do wrong and MaxFaults how often. *)
(***************************************************************************)
EXTENDS Integers, Sequences, FiniteSets

CONSTANTS
    Deliveries, \* rows of email_deliveries
    Workers,    \* the Celery worker processes
    Faults,     \* the kinds of fault the environment may produce
    MaxFaults,  \* bound: how many of them, in all
    Chunks,     \* bound: the chunks of an upload, report size / _CHUNK rounded up
    None        \* no delivery

FaultKinds ==
    {"raise",       \* Google, SMTP or the soft time limit raises in the try
     "lost",        \* Google accepts a request and its answer is lost
     "short",       \* Drive answers 308 and has not kept the chunk
     "late",        \* an exception in the try after the mail is out
     "disabled",    \* the worker finds e-mail disabled, or the rows gone
     "escape",      \* an exception outside the try, the commits included
     "crash",       \* a worker dies and the broker takes its message back
     "kill",        \* the hard time limit ends a task; it is acknowledged
     "redeliver",   \* the broker redelivers a message whose holder is alive
     "broker"}      \* .delay() raises in the API process: nothing is queued

ASSUME FaultsAssumption == Faults \subseteq FaultKinds /\ MaxFaults \in Nat
ASSUME ChunksAssumption == Chunks \in Nat \ {0}
ASSUME WorkersAssumption == IsFiniteSet(Workers)
ASSUME NoneAssumption == None \notin Deliveries

VARIABLES
    status,     \* email_deliveries.status, "absent" before the insert
    unqueued,   \* rows committed whose .delay() is to come
    broker,     \* messages waiting on the broker, per delivery
    returns,    \* how often a delivery's message came back to the queue (history)
    pc,         \* where each worker stands in the task
    task,       \* the message each worker holds unacknowledged
    loaded,     \* the status each worker loaded with the row
    token,      \* the access token read before a Drive upload
    link,       \* the Drive file of the upload in progress; 0 for none
    session,    \* its chunks: put, by the task's count, and kept by Drive
    large,      \* is the report above EMAIL_MAX_ATTACHMENT_BYTES?
    there,      \* the report's ZIP can be opened by its path
    drive,      \* the files on Google Drive, in the order of their upload
    outbox,     \* the mails the provider accepted, in order
    faults      \* faults so far

queue == <<unqueued, broker, returns>>
worker == <<pc, task, loaded, token, link, session>>
report == <<large, there>>
google == <<drive, outbox>>
vars == <<status, queue, worker, report, google, faults>>

-----------------------------------------------------------------------------

Statuses == {"absent", "PENDING", "SENT", "FAILED"}

\* The places inside send_report_email's try at which nothing is mailed yet.
Trying == {"begin", "open", "upload", "share", "send"}
PCs == {"idle", "sent", "except", "done"} \cup Trying

Fault(kind) ==
    /\ kind \in Faults
    /\ faults < MaxFaults
    /\ faults' = faults + 1

NoChunks == [put |-> 0, kept |-> 0]

Init ==
    /\ status = [d \in Deliveries |-> "absent"]
    /\ unqueued = {}
    /\ broker = [d \in Deliveries |-> 0]
    /\ returns = [d \in Deliveries |-> 0]
    /\ pc = [w \in Workers |-> "idle"]
    /\ task = [w \in Workers |-> None]
    /\ loaded = [w \in Workers |-> "absent"]
    /\ token = [w \in Workers |-> "none"]
    /\ link = [w \in Workers |-> 0]
    /\ session = [w \in Workers |-> NoChunks]
    /\ large \in BOOLEAN
    /\ there = TRUE
    /\ drive = <<>>
    /\ outbox = <<>>
    /\ faults = 0

Goto(w, label) == pc' = [pc EXCEPT ![w] = label]

-----------------------------------------------------------------------------
(* The API: POST /reports/{job_id}/email. *)

\* The row is committed as PENDING.  Only the report's row is asked for: the
\* file may be gone already.
Request(d) ==
    /\ status[d] = "absent"
    /\ status' = [status EXCEPT ![d] = "PENDING"]
    /\ unqueued' = unqueued \cup {d}
    /\ UNCHANGED <<broker, returns, worker, report, google, faults>>

\* send_report_email.delay(id)
Enqueue(d) ==
    /\ d \in unqueued
    /\ unqueued' = unqueued \ {d}
    /\ broker' = [broker EXCEPT ![d] = @ + 1]
    /\ UNCHANGED <<status, returns, worker, report, google, faults>>

\* .delay() raises, or the API process dies first: the row stays PENDING.
EnqueueFails(d) ==
    /\ Fault("broker")
    /\ d \in unqueued
    /\ unqueued' = unqueued \ {d}
    /\ UNCHANGED <<status, broker, returns, worker, report, google>>

-----------------------------------------------------------------------------
(* The worker: the task send_report_email, call by call. *)

\* The row is loaded, whatever its status: there is no check for PENDING.
Deliver(w, d) ==
    /\ pc[w] = "idle"
    /\ broker[d] > 0
    /\ broker' = [broker EXCEPT ![d] = @ - 1]
    /\ task' = [task EXCEPT ![w] = d]
    /\ loaded' = [loaded EXCEPT ![w] = status[d]]
    /\ Goto(w, "begin")
    /\ UNCHANGED <<status, unqueued, returns, token, link, session, report, google, faults>>

\* A small report is read whole, to be attached.
Attach(w) ==
    /\ pc[w] = "begin"
    /\ ~large /\ there
    /\ Goto(w, "send")
    /\ UNCHANGED <<status, queue, task, loaded, token, link, session, report, google, faults>>

\* A large one: the access token, the file's size, an upload session.
DriveInit(w) ==
    /\ pc[w] = "begin"
    /\ large /\ there
    /\ token' = [token EXCEPT ![w] = "good"]
    /\ Goto(w, "open")
    /\ UNCHANGED <<status, queue, task, loaded, link, session, report, google, faults>>

\* From here on the upload reads an open file: retention does not disturb it.
OpenReport(w) ==
    /\ pc[w] = "open"
    /\ there
    /\ Goto(w, "upload")
    /\ UNCHANGED <<status, queue, task, loaded, token, link, session, report, google, faults>>

\* Mutant: the report is opened outside the try.
ReportGoneUnhandled(w) ==
    /\ pc[w] \in {"begin", "open"}
    /\ ~there
    /\ Goto(w, "done")
    /\ UNCHANGED <<status, queue, task, loaded, token, link, session, report, google, faults>>

\* Retention was faster: FileNotFoundError.
ReportGone(w) ==
    /\ pc[w] \in {"begin", "open"}
    /\ ~there
    /\ Goto(w, "except")
    /\ UNCHANGED <<status, queue, task, loaded, token, link, session, report, google, faults>>

Uploaded(d) == Append(drive, [for |-> d, shared |-> FALSE])

\* The next chunk continues what Drive has.
Fits(w) == session[w].put < Chunks /\ session[w].kept = session[w].put

Last(w) == session[w].put + 1 = Chunks

\* What the task counts after a 308, and what Drive has by then.
Count(w, kept) ==
    session' = [session EXCEPT ![w] = [put |-> session[w].put + 1, kept |-> kept]]

\* 308 for a chunk before the last one.
PutChunk(w) ==
    /\ pc[w] = "upload"
    /\ Fits(w) /\ ~Last(w)
    /\ Count(w, session[w].kept + 1)
    /\ UNCHANGED <<status, queue, pc, task, loaded, token, link, report, google, faults>>

\* 308 too, and the Range header that would say so is not read.
ChunkDropped(w) ==
    /\ Fault("short")
    /\ pc[w] = "upload"
    /\ Fits(w)
    /\ Count(w, session[w].kept)
    /\ UNCHANGED <<status, queue, pc, task, loaded, token, link, report, google>>

\* A chunk beyond what Drive has adds nothing: 308 once more, or an error.
ChunkAstray(w) ==
    /\ pc[w] = "upload"
    /\ session[w].kept < session[w].put /\ session[w].put < Chunks
    /\ \/ Count(w, session[w].kept) /\ UNCHANGED pc
       \/ Goto(w, "except") /\ UNCHANGED session
    /\ UNCHANGED <<status, queue, task, loaded, token, link, report, google, faults>>

\* Mutant: an upload whose chunks are all answered counts as a file.
NoFileUnnoticed(w) ==
    /\ pc[w] = "upload"
    /\ session[w].put = Chunks
    /\ Goto(w, "send")
    /\ UNCHANGED <<status, queue, task, loaded, token, link, session, report, google, faults>>

\* All chunks are put and no answer had a file's id.
NoFile(w) ==
    /\ pc[w] = "upload"
    /\ session[w].put = Chunks
    /\ Goto(w, "except")
    /\ UNCHANGED <<status, queue, task, loaded, token, link, session, report, google, faults>>

\* The last chunk is answered with the file's id.
Upload(w) ==
    /\ pc[w] = "upload"
    /\ Fits(w) /\ Last(w)
    /\ drive' = Uploaded(task[w])
    /\ link' = [link EXCEPT ![w] = Len(drive')]
    /\ Goto(w, "share")
    /\ UNCHANGED <<status, queue, task, loaded, token, session, report, outbox, faults>>

\* The token that was good before the upload runs out during it.
TokenExpires(w) ==
    /\ pc[w] \in {"open", "upload", "share"}
    /\ token[w] = "good"
    /\ token' = [token EXCEPT ![w] = "stale"]
    /\ UNCHANGED <<status, queue, pc, task, loaded, link, session, report, google, faults>>

Share(w) ==
    /\ pc[w] = "share"
    /\ token[w] = "good"
    /\ drive' = [drive EXCEPT ![link[w]] = [for |-> @.for, shared |-> TRUE]]
    /\ Goto(w, "send")
    /\ UNCHANGED <<status, queue, task, loaded, token, link, session, report, outbox, faults>>

\* Mutant: the share is tried again with the token that was refused.
ShareRetried(w) ==
    /\ pc[w] = "share"
    /\ token[w] = "stale"
    /\ UNCHANGED <<status, queue, pc, task, loaded, token, link, session, report, google, faults>>

\* Drive share failed: 401.  The uploaded file stays where it is.
ShareDenied(w) ==
    /\ pc[w] = "share"
    /\ token[w] = "stale"
    /\ Goto(w, "except")
    /\ UNCHANGED <<status, queue, task, loaded, token, link, session, report, google, faults>>

Mailed(w) == Append(outbox, [for |-> task[w], link |-> link[w]])

\* The provider accepts the mail; a fresh token is taken when one is needed.
Send(w) ==
    /\ pc[w] = "send"
    /\ outbox' = Mailed(w)
    /\ Goto(w, "sent")
    /\ UNCHANGED <<status, queue, task, loaded, token, link, session, report, drive, faults>>

\* Google did what it was asked, and requests raises all the same.
Lost(w) ==
    /\ Fault("lost")
    /\ \/ /\ pc[w] = "upload" /\ Fits(w) /\ Last(w)
          /\ drive' = Uploaded(task[w]) /\ UNCHANGED outbox
       \/ /\ pc[w] = "share" /\ token[w] = "good"
          /\ drive' = [drive EXCEPT ![link[w]] = [for |-> @.for, shared |-> TRUE]]
          /\ UNCHANGED outbox
       \/ pc[w] = "send" /\ outbox' = Mailed(w) /\ UNCHANGED drive
    /\ Goto(w, "except")
    /\ UNCHANGED <<status, queue, task, loaded, token, link, session, report>>

Raise(w) ==
    /\ Fault("raise")
    /\ pc[w] \in Trying
    /\ Goto(w, "except")
    /\ UNCHANGED <<status, queue, task, loaded, token, link, session, report, google>>

\* The log lines after the mail is out are in the try too.
RaiseLate(w) ==
    /\ Fault("late")
    /\ pc[w] = "sent"
    /\ Goto(w, "except")
    /\ UNCHANGED <<status, queue, task, loaded, token, link, session, report, google>>

\* EMAIL_ENABLED is false for this worker, or the job or report row is gone.
Disabled(w) ==
    /\ Fault("disabled")
    /\ pc[w] = "begin"
    /\ Goto(w, "except")
    /\ UNCHANGED <<status, queue, task, loaded, token, link, session, report, google>>

\* The session flushes a column only if its value differs from the loaded one.
Write(w, verdict) ==
    status' = [status EXCEPT ![task[w]] = IF loaded[w] = verdict THEN @ ELSE verdict]

Record(w) ==
    /\ pc[w] = "sent"
    /\ Write(w, "SENT")
    /\ Goto(w, "done")
    /\ UNCHANGED <<queue, task, loaded, token, link, session, report, google, faults>>

\* Mutant: a failed delivery is queued once more.
MarkFailedRetrying(w) ==
    /\ pc[w] = "except"
    /\ Write(w, "FAILED")
    /\ broker' = [broker EXCEPT ![task[w]] = @ + 1]
    /\ Goto(w, "done")
    /\ UNCHANGED <<unqueued, returns, task, loaded, token, link, session, report, google, faults>>

MarkFailed(w) ==
    /\ pc[w] = "except"
    /\ Write(w, "FAILED")
    /\ Goto(w, "done")
    /\ UNCHANGED <<queue, task, loaded, token, link, session, report, google, faults>>

\* An exception nobody catches: loading the rows, or committing the verdict.
Escape(w) ==
    /\ Fault("escape")
    /\ pc[w] \in {"begin", "sent", "except"}
    /\ Goto(w, "done")
    /\ UNCHANGED <<status, queue, task, loaded, token, link, session, report, google>>

Release(w) ==
    /\ pc' = [pc EXCEPT ![w] = "idle"]
    /\ task' = [task EXCEPT ![w] = None]
    /\ loaded' = [loaded EXCEPT ![w] = "absent"]
    /\ token' = [token EXCEPT ![w] = "none"]
    /\ link' = [link EXCEPT ![w] = 0]
    /\ session' = [session EXCEPT ![w] = NoChunks]

\* The message is on the broker once more.
Return(d) ==
    /\ broker' = [broker EXCEPT ![d] = @ + 1]
    /\ returns' = [returns EXCEPT ![d] = @ + 1]

Ack(w) ==
    /\ pc[w] = "done"
    /\ Release(w)
    /\ UNCHANGED <<status, queue, report, google, faults>>

\* The worker dies; the unacknowledged message goes back to the queue.
Crash(w) ==
    /\ Fault("crash")
    /\ pc[w] # "idle"
    /\ Release(w)
    /\ Return(task[w])
    /\ UNCHANGED <<status, unqueued, report, google>>

\* The hard time limit kills the process; Celery acknowledges the message.
Kill(w) ==
    /\ Fault("kill")
    /\ pc[w] # "idle"
    /\ Release(w)
    /\ UNCHANGED <<status, queue, report, google>>

\* The broker's visibility timeout passes while the worker is still at it.
Redeliver(w) ==
    /\ Fault("redeliver")
    /\ pc[w] # "idle"
    /\ Return(task[w])
    /\ UNCHANGED <<status, unqueued, worker, report, google>>

\* Retention deletes the report's directory.
Retention ==
    /\ there
    /\ there' = FALSE
    /\ UNCHANGED <<status, queue, worker, large, google, faults>>

-----------------------------------------------------------------------------

Take(w) == \E d \in Deliveries : Deliver(w, d)

TaskStep(w) ==
    \/ Attach(w) \/ DriveInit(w) \/ OpenReport(w) \/ ReportGone(w)
    \/ PutChunk(w) \/ ChunkAstray(w) \/ NoFile(w) \/ Upload(w)
    \/ Share(w) \/ ShareDenied(w) \/ Send(w) \/ Record(w) \/ MarkFailed(w) \/ Ack(w)

Misfortune(w) ==
    \/ TokenExpires(w) \/ ChunkDropped(w) \/ Lost(w) \/ Raise(w) \/ RaiseLate(w) \/ Disabled(w)
    \/ Escape(w) \/ Crash(w) \/ Kill(w) \/ Redeliver(w)

Next ==
    \/ \E d \in Deliveries : Request(d) \/ Enqueue(d) \/ EnqueueFails(d)
    \/ \E w \in Workers : Take(w) \/ TaskStep(w) \/ Misfortune(w)
    \/ Retention

Spec == Init /\ [][Next]_vars

\* The API goes on to .delay(); workers are scheduled and take what waits, and
\* every call they make has a timeout.
Fairness ==
    /\ \A d \in Deliveries : WF_vars(Enqueue(d))
    /\ \A w \in Workers : WF_vars(Take(w)) /\ WF_vars(TaskStep(w))

FairSpec == Spec /\ Fairness

-----------------------------------------------------------------------------
(* Properties. *)

File == [for : Deliveries, shared : BOOLEAN]
Mail == [for : Deliveries, link : Nat]

TypeOK ==
    /\ status \in [Deliveries -> Statuses]
    /\ unqueued \in SUBSET Deliveries
    /\ broker \in [Deliveries -> Nat]
    /\ returns \in [Deliveries -> Nat]
    /\ pc \in [Workers -> PCs]
    /\ task \in [Workers -> Deliveries \cup {None}]
    /\ loaded \in [Workers -> Statuses]
    /\ token \in [Workers -> {"none", "good", "stale"}]
    /\ link \in [Workers -> Nat]
    /\ session \in [Workers -> [put : 0..Chunks, kept : 0..Chunks]]
    /\ large \in BOOLEAN /\ there \in BOOLEAN
    /\ drive \in Seq(File)
    /\ outbox \in Seq(Mail)
    /\ faults \in 0..MaxFaults

\* SENT is never said of a mail that did not go out, whatever fails and however
\* often the task runs (send_report_email sets SENT only after the provider).
SentWasMailed ==
    \A d \in Deliveries : status[d] = "SENT" =>
        \E i \in DOMAIN outbox : outbox[i].for = d

\* A mail about a large report carries a link that its recipient can open, to
\* a file uploaded for this very delivery; a small report carries none.
LinksOpen ==
    \A i \in DOMAIN outbox :
        LET mail == outbox[i]
        IN  IF large THEN /\ mail.link \in DOMAIN drive
                          /\ drive[mail.link] = [for |-> mail.for, shared |-> TRUE]
            ELSE mail.link = 0

\* Row and outbox together, whatever fails: a request is mailed once, before its
\* verdict, and the verdict is one.  The message is the only guard, so each time
\* it comes back (a worker died, the broker redelivered) there may be one more
\* mail and the verdict may be revised; nothing else mails or decides twice.
Mails == [d \in Deliveries |-> Cardinality({i \in DOMAIN outbox : outbox[i].for = d})]
Lifecycle == INSTANCE DeliveryLifecycle WITH mails <- Mails
DeliverySpec == Lifecycle!Spec

\* PENDING, with no message and no worker that is going to decide.
Forgotten(d) ==
    /\ status[d] = "PENDING" /\ d \notin unqueued /\ broker[d] = 0
    /\ ~\E w \in Workers : task[w] = d /\ pc[w] \notin {"idle", "done"}

\* A request is left PENDING for good, mailed or not, in three ways only: its
\* message was not sent, the task ended by an exception outside its try (a commit
\* of the verdict that fails, for one), or by the hard time limit.  No crash, no
\* second run and no exception inside the try does it.
ForgottenOnlyByLoss ==
    [][\A d \in Deliveries : ~Forgotten(d) /\ Forgotten(d)' =>
          \/ EnqueueFails(d)
          \/ \E w \in Workers : task[w] = d /\ (Escape(w) \/ Kill(w))]_vars

\* Every other request ends SENT or FAILED, also when workers crash: unlike an
\* extraction, which is skipped when its message returns, the mail is redone.
EveryDeliveryEnds ==
    \A d \in Deliveries :
        status[d] = "PENDING" ~> status[d] \in {"SENT", "FAILED"} \/ Forgotten(d)
=============================================================================
