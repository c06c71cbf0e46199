---------------------------- MODULE JobPipeline ----------------------------
(***************************************************************************)
(* The life of an extraction job across the processes that touch it: the   *)
(* API that inserts the row and publishes the Celery message, the broker,  *)
(* the workers that run run_extraction_job, the shared storage volume, the *)
(* retention task and the clients that download reports.                   *)
(*                                                                         *)
(* One worker step is one call that reads or writes shared state (a commit, *)
(* a directory operation); everything a worker does between two of them is *)
(* invisible to the others.  What goes wrong in the environment is named   *)
(* in Faults and spends one budget, MaxFaults; a failure the program       *)
(* causes itself (a directory that is gone, a unique constraint) is free.  *)
(***************************************************************************)
EXTENDS Integers, FiniteSets

CONSTANTS
    Jobs,       \* the job IDs
    Workers,    \* the Celery worker processes
    Clients,    \* the download requests, one each
    Faults,     \* the kinds of fault the environment may produce
    MaxFaults,  \* bound: how many of them, in all
    None        \* no directory, no file, no task, no report row

FaultKinds ==
    {"raise",       \* an exception in run_job's try: S3, disk, soft time limit
     "late",        \* an exception in the same try after COMPLETED is committed
     "escape",      \* an exception run_job does not handle: the task fails
     "crash",       \* a worker dies and the broker takes its message back
     "kill",        \* the hard time limit, or the loss of the pool's child
                    \* process, ends a task; Celery acknowledges its message
     "redeliver",   \* the broker redelivers a message whose holder is alive
     "broker",      \* .delay() raises in the API process: nothing is queued
     "sweep",       \* the retention task fails or dies half way
     "overlap"}     \* retention clears temp dirs while a run is using one

ASSUME FaultsAssumption == Faults \subseteq FaultKinds /\ MaxFaults \in Nat

VARIABLES
    status,     \* extraction_jobs.status, "absent" before the insert
    report,     \* report_metadata: the checksum in the job's row, or None
    aged,       \* the jobs past created_at + REPORT_RETENTION_DAYS
    unqueued,   \* jobs whose row is committed and whose .delay() is to come
    broker,     \* messages waiting on the broker, per job
    pc,         \* where each worker stands in the task
    task,       \* the message each worker holds unacknowledged
    checksum,   \* run_job's local: the ZIP it hashed
    tmp,        \* jobs/.{job}.tmp
    final,      \* jobs/{job}
    sweep,      \* the retention task
    download,   \* the download requests
    faults      \* faults so far

db == <<status, report, aged>>
queue == <<unqueued, broker>>
worker == <<pc, task, checksum>>
storage == <<tmp, final>>
vars == <<db, queue, worker, storage, sweep, download, faults>>

-----------------------------------------------------------------------------

Statuses == {"absent", "PENDING", "PROCESSING", "COMPLETED", "FAILED", "EXPIRED"}

\* The data of extracted_data.csv: "mixed" when two runs wrote the same file.
Data == {"partial", "full", "mixed"}
Csv == [by : Workers, data : Data]

\* A ZIP, and its SHA-256, is identified by the run that built it and its CSV.
Zip == [by : Workers, data : Data]
Dir == [csv : Csv \cup {None}, zip : Zip \cup {None}]

ASSUME NoneAssumption == None \notin Jobs \cup Zip \cup Dir

HasCsv(dir) == dir # None /\ dir.csv # None
HasZip(dir) == dir # None /\ dir.zip # None

Handling == {"loaded", "claimed", "undo", "mark"}               \* outside the try
Trying == {"discover", "extract", "package", "publish", "replace", "record"}
PCs == {"idle", "finish", "done"} \cup Handling \cup Trying

\* The storage and database calls of run_job, from its claim to its outcome.
Running == Trying \cup {"claimed", "finish", "undo", "mark"}

Fault(kind) ==
    /\ kind \in Faults
    /\ faults < MaxFaults
    /\ faults' = faults + 1

NoFault == UNCHANGED faults

Init ==
    /\ status = [j \in Jobs |-> "absent"]
    /\ report = [j \in Jobs |-> None]
    /\ aged = [j \in Jobs |-> FALSE]
    /\ unqueued = {}
    /\ broker = [j \in Jobs |-> 0]
    /\ pc = [w \in Workers |-> "idle"]
    /\ task = [w \in Workers |-> None]
    /\ checksum = [w \in Workers |-> None]
    /\ tmp = [j \in Jobs |-> None]
    /\ final = [j \in Jobs |-> None]
    /\ sweep = [at |-> "idle", todo |-> {}, batch |-> {}]
    /\ download = [c \in Clients |-> [at |-> "idle", job |-> None, sum |-> None, zip |-> None]]
    /\ faults = 0

Goto(w, label) == pc' = [pc EXCEPT ![w] = label]

-----------------------------------------------------------------------------
(* The API: POST /jobs. *)

\* The row is committed as PENDING; the message is not yet out.
Submit(j) ==
    /\ status[j] = "absent"
    /\ status' = [status EXCEPT ![j] = "PENDING"]
    /\ unqueued' = unqueued \cup {j}
    /\ UNCHANGED <<report, aged, broker, worker, storage, sweep, download, faults>>

\* Mutant: the message is published again and again.
EnqueueAgain(j) ==
    /\ j \in unqueued
    /\ broker' = [broker EXCEPT ![j] = @ + 1]
    /\ UNCHANGED <<db, unqueued, worker, storage, sweep, download, faults>>

\* run_extraction_job.delay(job_id)
Enqueue(j) ==
    /\ j \in unqueued
    /\ unqueued' = unqueued \ {j}
    /\ broker' = [broker EXCEPT ![j] = @ + 1]
    /\ UNCHANGED <<db, worker, storage, sweep, download, faults>>

\* .delay() raises, or the API process dies first: the row stays PENDING.
EnqueueFails(j) ==
    /\ Fault("broker")
    /\ j \in unqueued
    /\ unqueued' = unqueued \ {j}
    /\ UNCHANGED <<db, broker, worker, storage, sweep, download>>

-----------------------------------------------------------------------------
(* The worker: run_extraction_job and run_job, call by call. *)

\* Mutant: no status check, every delivery is run.
DeliverUnchecked(w, j) ==
    /\ pc[w] = "idle"
    /\ broker[j] > 0
    /\ broker' = [broker EXCEPT ![j] = @ - 1]
    /\ task' = [task EXCEPT ![w] = j]
    /\ Goto(w, "loaded")
    /\ UNCHANGED <<db, unqueued, checksum, storage, sweep, download, faults>>

\* The message is received and the row selected; a job that is not PENDING is
\* skipped.  With late acknowledgement the message stays with the worker.
Deliver(w, j) ==
    /\ pc[w] = "idle"
    /\ broker[j] > 0
    /\ broker' = [broker EXCEPT ![j] = @ - 1]
    /\ task' = [task EXCEPT ![w] = j]
    /\ Goto(w, IF status[j] = "PENDING" THEN "loaded" ELSE "done")
    /\ UNCHANGED <<db, unqueued, checksum, storage, sweep, download, faults>>

\* status = PROCESSING is committed by an UPDATE that does not look at the row.
Claim(w) ==
    /\ pc[w] = "loaded"
    /\ status' = [status EXCEPT ![task[w]] = "PROCESSING"]
    /\ Goto(w, "claimed")
    /\ UNCHANGED <<report, aged, queue, task, checksum, storage, sweep, download, faults>>

\* new_temp_dir: drop what an earlier run left, make an empty directory.
NewTempDir(w) ==
    /\ pc[w] = "claimed"
    /\ tmp' = [tmp EXCEPT ![task[w]] = [csv |-> None, zip |-> None]]
    /\ Goto(w, "discover")
    /\ UNCHANGED <<db, queue, task, checksum, final, sweep, download, faults>>

\* run_extraction opens the CSV for writing, which truncates what is there.
OpenCsv(w) ==
    LET j == task[w]
        shared == \E v \in Workers \ {w} :
                      /\ pc[v] = "extract" /\ task[v] = j
                      /\ HasCsv(tmp[j]) /\ tmp[j].csv.by = v
    IN  /\ pc[w] = "discover"
        /\ tmp[j] # None
        /\ tmp' = [tmp EXCEPT ![j].csv =
                      [by |-> w, data |-> IF shared THEN "mixed" ELSE "partial"]]
        /\ Goto(w, "extract")
        /\ UNCHANGED <<db, queue, task, checksum, final, sweep, download, faults>>

\* The directory a run's open CSV file can be reached through by now, if any.
Completed(dir, w) ==
    IF dir # None /\ dir.csv = [by |-> w, data |-> "partial"]
    THEN [dir EXCEPT !.csv.data = "full"]
    ELSE dir

\* The last row is written and the file closed, wherever its directory went.
FinishCsv(w) ==
    LET j == task[w]
    IN  /\ pc[w] = "extract"
        /\ tmp' = [tmp EXCEPT ![j] = Completed(@, w)]
        /\ final' = [final EXCEPT ![j] = Completed(@, w)]
        /\ Goto(w, "package")
        /\ UNCHANGED <<db, queue, task, checksum, sweep, download, faults>>

\* create_zip, sha256_file and metadata.json, all by path in the temp dir.
Package(w) ==
    LET j == task[w]
    IN  /\ pc[w] = "package"
        /\ HasCsv(tmp[j])
        /\ checksum' = [checksum EXCEPT ![w] = [by |-> w, data |-> tmp[j].csv.data]]
        /\ tmp' = [tmp EXCEPT ![j].zip = checksum'[w]]
        /\ Goto(w, "publish")
        /\ UNCHANGED <<db, queue, task, final, sweep, download, faults>>

\* publish, first half: remove a job directory that is in the way.
PublishRemove(w) ==
    /\ pc[w] = "publish"
    /\ final' = [final EXCEPT ![task[w]] = None]
    /\ Goto(w, "replace")
    /\ UNCHANGED <<db, queue, task, checksum, tmp, sweep, download, faults>>

\* publish, second half: os.replace, for which nothing may be in the way.
PublishReplace(w) ==
    LET j == task[w]
    IN  /\ pc[w] = "replace"
        /\ tmp[j] # None /\ final[j] = None
        /\ final' = [final EXCEPT ![j] = tmp[j]]
        /\ tmp' = [tmp EXCEPT ![j] = None]
        /\ Goto(w, "record")
        /\ UNCHANGED <<db, queue, task, checksum, sweep, download, faults>>

\* The report row and COMPLETED, in one commit.
Record(w) ==
    LET j == task[w]
    IN  /\ pc[w] = "record"
        /\ report[j] = None
        /\ report' = [report EXCEPT ![j] = checksum[w]]
        /\ status' = [status EXCEPT ![j] = "COMPLETED"]
        /\ Goto(w, "finish")
        /\ UNCHANGED <<aged, queue, task, checksum, storage, sweep, download, faults>>

\* The calls above that raise of themselves: a path that is gone, a directory in
\* the way of os.replace, a second report row for the job.
SelfInflicted(w) ==
    LET j == task[w]
    IN  \/ pc[w] = "discover" /\ tmp[j] = None
        \/ pc[w] = "package" /\ ~HasCsv(tmp[j])
        \/ pc[w] = "replace" /\ (tmp[j] = None \/ final[j] # None)
        \/ pc[w] = "record" /\ report[j] # None

\* Mutant: run_job has no handler for these.
RunFailsUnhandled(w) ==
    /\ SelfInflicted(w)
    /\ Goto(w, "done")
    /\ UNCHANGED <<db, queue, task, checksum, storage, sweep, download, faults>>

RunFails(w) ==
    /\ SelfInflicted(w)
    /\ Goto(w, "undo")
    /\ UNCHANGED <<db, queue, task, checksum, storage, sweep, download, faults>>

\* Mutant: a source file that fails ends the reading, not the run.
RaiseSwallowed(w) ==
    /\ Fault("raise")
    /\ pc[w] = "extract"
    /\ Goto(w, "package")
    /\ UNCHANGED <<db, queue, task, checksum, storage, sweep, download>>

\* Mutant: the exception leaves run_job without its handler.
RaiseUnhandled(w) ==
    /\ Fault("raise")
    /\ pc[w] \in Trying
    /\ Goto(w, "done")
    /\ UNCHANGED <<db, queue, task, checksum, storage, sweep, download>>

\* S3, the disk, the database or the soft time limit raises inside the try.
Raise(w) ==
    /\ Fault("raise")
    /\ pc[w] \in Trying
    /\ Goto(w, "undo")
    /\ UNCHANGED <<db, queue, task, checksum, storage, sweep, download>>

\* The log lines after the commit are in the try too.
RaiseLate(w) ==
    /\ Fault("late")
    /\ pc[w] = "finish"
    /\ Goto(w, "undo")
    /\ UNCHANGED <<db, queue, task, checksum, storage, sweep, download>>

\* The last log lines are out: run_job returns.
Finish(w) ==
    /\ pc[w] = "finish"
    /\ Goto(w, "done")
    /\ UNCHANGED <<db, queue, task, checksum, storage, sweep, download, faults>>

\* Mutant: the handler forgets what was published already.
UndoTemp(w) ==
    /\ pc[w] = "undo"
    /\ tmp' = [tmp EXCEPT ![task[w]] = None]
    /\ Goto(w, "mark")
    /\ UNCHANGED <<db, queue, task, checksum, final, sweep, download, faults>>

\* The handler: roll back, delete the job directory and the temp dir.
Undo(w) ==
    /\ pc[w] = "undo"
    /\ final' = [final EXCEPT ![task[w]] = None]
    /\ tmp' = [tmp EXCEPT ![task[w]] = None]
    /\ Goto(w, "mark")
    /\ UNCHANGED <<db, queue, task, checksum, sweep, download, faults>>

\* The handler commits FAILED.
MarkFailed(w) ==
    /\ pc[w] = "mark"
    /\ status' = [status EXCEPT ![task[w]] = "FAILED"]
    /\ Goto(w, "done")
    /\ UNCHANGED <<report, aged, queue, task, checksum, storage, sweep, download, faults>>

\* An exception nobody catches: before the try, or in the handler.
Escape(w) ==
    /\ Fault("escape")
    /\ pc[w] \in Handling
    /\ Goto(w, "done")
    /\ UNCHANGED <<db, queue, task, checksum, storage, sweep, download>>

Release(w) ==
    /\ pc' = [pc EXCEPT ![w] = "idle"]
    /\ task' = [task EXCEPT ![w] = None]
    /\ checksum' = [checksum EXCEPT ![w] = None]

\* The task is over, returned or failed, and its message is acknowledged.
Ack(w) ==
    /\ pc[w] = "done"
    /\ Release(w)
    /\ UNCHANGED <<db, queue, storage, sweep, download, faults>>

\* Mutant: messages are acknowledged when they are received.
CrashAckedEarly(w) ==
    /\ Fault("crash")
    /\ pc[w] # "idle"
    /\ Release(w)
    /\ UNCHANGED <<db, queue, storage, sweep, download>>

\* The worker dies; the unacknowledged message goes back to the queue.
Crash(w) ==
    /\ Fault("crash")
    /\ pc[w] # "idle"
    /\ Release(w)
    /\ broker' = [broker EXCEPT ![task[w]] = @ + 1]
    /\ UNCHANGED <<db, unqueued, storage, sweep, download>>

\* The hard time limit kills the process; Celery acknowledges the message.
Kill(w) ==
    /\ Fault("kill")
    /\ pc[w] # "idle"
    /\ Release(w)
    /\ UNCHANGED <<db, queue, storage, sweep, download>>

\* The broker's visibility timeout passes while the worker is still at it.
Redeliver(w) ==
    /\ Fault("redeliver")
    /\ pc[w] # "idle"
    /\ broker' = [broker EXCEPT ![task[w]] = @ + 1]
    /\ UNCHANGED <<db, unqueued, worker, storage, sweep, download>>

RunStep(w) ==
    \/ Claim(w) \/ NewTempDir(w) \/ OpenCsv(w) \/ FinishCsv(w) \/ Package(w)
    \/ PublishRemove(w) \/ PublishReplace(w) \/ Record(w) \/ RunFails(w)
    \/ Finish(w) \/ Undo(w) \/ MarkFailed(w) \/ Ack(w)

Take(w) == \E j \in Jobs : Deliver(w, j)

Misfortune(w) ==
    Raise(w) \/ RaiseLate(w) \/ Escape(w) \/ Crash(w) \/ Kill(w) \/ Redeliver(w)

-----------------------------------------------------------------------------
(* Time, and the retention task: cleanup_expired. *)

\* The job's expires_at passes; it counts from the job's creation.
Lapse(j) ==
    /\ status[j] # "absent"
    /\ ~aged[j]
    /\ aged' = [aged EXCEPT ![j] = TRUE]
    /\ UNCHANGED <<status, report, queue, worker, storage, sweep, download, faults>>

\* Mutant: every report that has an expires_at is selected, passed or not.
LapsedAnyTime == {j \in Jobs : report[j] # None /\ status[j] # "EXPIRED"}

\* Mutant: only jobs that still have files are selected.
LapsedWithFiles ==
    {j \in Jobs : report[j] # None /\ aged[j] /\ status[j] # "EXPIRED" /\ final[j] # None}

Lapsed == {j \in Jobs : report[j] # None /\ aged[j] /\ status[j] # "EXPIRED"}

SweepSelect ==
    /\ sweep.at = "idle"
    /\ sweep' = [at |-> "delete", todo |-> Lapsed, batch |-> Lapsed]
    /\ UNCHANGED <<db, queue, worker, storage, download, faults>>

SweepDelete(j) ==
    /\ sweep.at = "delete"
    /\ j \in sweep.todo
    /\ final' = [final EXCEPT ![j] = None]
    /\ sweep' = [sweep EXCEPT !.todo = @ \ {j}]
    /\ UNCHANGED <<db, queue, worker, tmp, download, faults>>

InUse(j) == \E w \in Workers : task[w] = j /\ pc[w] \in Trying

\* Mutant: temp dirs are cleared only by a run that expires something.
SweepUnlinkIfExpired ==
    /\ sweep.at = "delete"
    /\ sweep.todo = {}
    /\ IF \E j \in Jobs : tmp[j] # None /\ InUse(j) THEN Fault("overlap") ELSE NoFault
    /\ tmp' = [j \in Jobs |-> IF tmp[j] = None \/ sweep.batch = {} THEN tmp[j]
                              ELSE [csv |-> None, zip |-> None]]
    /\ sweep' = [sweep EXCEPT !.at = "rmdir"]
    /\ UNCHANGED <<db, queue, worker, final, download>>

\* cleanup_orphan_temp_dirs, the files: rmtree unlinks what it listed in every
\* .tmp directory, in use or not.  A ZIP written since the listing survives.
SweepUnlink ==
    /\ sweep.at = "delete"
    /\ sweep.todo = {}
    /\ IF \E j \in Jobs : tmp[j] # None /\ InUse(j) THEN Fault("overlap") ELSE NoFault
    /\ \E unlisted \in SUBSET {j \in Jobs : InUse(j)} :
          tmp' = [j \in Jobs |->
                    IF tmp[j] = None THEN None
                    ELSE [csv |-> None, zip |-> IF j \in unlisted THEN tmp[j].zip ELSE None]]
    /\ sweep' = [sweep EXCEPT !.at = "rmdir"]
    /\ UNCHANGED <<db, queue, worker, final, download>>

\* ... then the directories, where they are empty; errors are ignored.
SweepRmdir ==
    /\ sweep.at = "rmdir"
    /\ tmp' = [j \in Jobs |-> IF tmp[j] = [csv |-> None, zip |-> None] THEN None ELSE tmp[j]]
    /\ sweep' = [sweep EXCEPT !.at = "commit"]
    /\ UNCHANGED <<db, queue, worker, final, download, faults>>

SweepEnd == sweep' = [at |-> "idle", todo |-> {}, batch |-> {}]

\* Mutant: what to expire is queried again at the end of the run.
SweepCommitRequery ==
    /\ sweep.at = "commit"
    /\ status' = [j \in Jobs |-> IF j \in Lapsed THEN "EXPIRED" ELSE status[j]]
    /\ SweepEnd
    /\ UNCHANGED <<report, aged, queue, worker, storage, download, faults>>

SweepCommit ==
    /\ sweep.at = "commit"
    /\ status' = [j \in Jobs |-> IF j \in sweep.batch THEN "EXPIRED" ELSE status[j]]
    /\ SweepEnd
    /\ UNCHANGED <<report, aged, queue, worker, storage, download, faults>>

\* An rmtree or the commit raises, or the process dies: nothing is committed.
SweepDies ==
    /\ Fault("sweep")
    /\ sweep.at # "idle"
    /\ SweepEnd
    /\ UNCHANGED <<db, queue, worker, storage, download>>

Sweep ==
    \/ SweepSelect \/ (\E j \in Jobs : SweepDelete(j))
    \/ SweepUnlink \/ SweepRmdir \/ SweepCommit

-----------------------------------------------------------------------------
(* Downloads: GET /reports/{job_id}/download. *)

\* The ZIP can be reached by the path in the report row.
Offered(j) == report[j] # None /\ HasZip(final[j])

\* The row is found and os.path.exists; else the answer is 404 or 410.
DownloadCheck(c, j) ==
    /\ download[c].at = "idle"
    /\ Offered(j)
    /\ download' = [download EXCEPT ![c] =
                       [at |-> "open", job |-> j, sum |-> report[j], zip |-> None]]
    /\ UNCHANGED <<db, queue, worker, storage, sweep, faults>>

\* FileResponse opens the path after the handler has returned.
DownloadStream(c) ==
    LET j == download[c].job
        there == HasZip(final[j])
    IN  /\ download[c].at = "open"
        /\ download' = [download EXCEPT
               ![c].at = IF there THEN "served" ELSE "error",
               ![c].zip = IF there THEN final[j].zip ELSE None]
        /\ UNCHANGED <<db, queue, worker, storage, sweep, faults>>

-----------------------------------------------------------------------------

Next ==
    \/ \E j \in Jobs : Submit(j) \/ Enqueue(j) \/ EnqueueFails(j) \/ Lapse(j)
    \/ \E w \in Workers : Take(w) \/ RunStep(w) \/ Misfortune(w)
    \/ Sweep \/ SweepDies
    \/ \E c \in Clients : DownloadStream(c) \/ \E j \in Jobs : DownloadCheck(c, j)

Spec == Init /\ [][Next]_vars

\* The API handler goes on to .delay(), worker processes are scheduled and take
\* waiting messages, beat keeps starting the retention task, which runs on.
Fairness ==
    /\ \A j \in Jobs : WF_vars(Enqueue(j))
    /\ \A w \in Workers : WF_vars(Take(w)) /\ WF_vars(RunStep(w))
    /\ WF_vars(Sweep)

FairSpec == Spec /\ Fairness

-----------------------------------------------------------------------------
(* Properties. *)

TypeOK ==
    /\ status \in [Jobs -> Statuses]
    /\ report \in [Jobs -> Zip \cup {None}]
    /\ aged \in [Jobs -> BOOLEAN]
    /\ unqueued \in SUBSET Jobs
    /\ broker \in [Jobs -> Nat]
    /\ pc \in [Workers -> PCs]
    /\ task \in [Workers -> Jobs \cup {None}]
    /\ checksum \in [Workers -> Zip \cup {None}]
    /\ tmp \in [Jobs -> Dir \cup {None}]
    /\ final \in [Jobs -> Dir \cup {None}]
    /\ sweep \in [at : {"idle", "delete", "rmdir", "commit"},
                  todo : SUBSET Jobs, batch : SUBSET Jobs]
    /\ download \in [Clients -> [at : {"idle", "open", "served", "error"},
                                job : Jobs \cup {None},
                                sum : Zip \cup {None}, zip : Zip \cup {None}]]
    /\ faults \in 0..MaxFaults

\* At most one worker is inside run_job for a job, although the status check and
\* the claim are separate: the message itself is the lock.  Everything run_job
\* does to the shared directories by path relies on it.
SingleRunner ==
    \A w, v \in Workers :
        /\ pc[w] \in Running /\ pc[v] \in Running \cup {"loaded"}
        /\ task[w] = task[v]
        => w = v

\* A ZIP that can be reached in a published directory is whole: it is the ZIP of
\* a CSV that had been written to its end (storage_service's temp -> publish).
NoPartialVisible ==
    \A j \in Jobs : HasZip(final[j]) => final[j].zip.data = "full"

\* What a client gets is what the X-Checksum-SHA256 header of its response
\* says, however runs, crashes and retention interleave with check and stream.
DownloadIntact ==
    \A c \in Clients : download[c].at = "served" =>
        /\ download[c].zip = download[c].sum
        /\ download[c].zip.data = "full"

\* A COMPLETED job can be downloaded until retention is entitled to its report,
\* and there is a report row for nothing but COMPLETED and EXPIRED jobs.
CompletedIsOffered ==
    \A j \in Jobs :
        /\ status[j] = "COMPLETED" /\ ~aged[j] => Offered(j) /\ final[j].zip = report[j]
        /\ report[j] # None => status[j] \in {"COMPLETED", "EXPIRED"}

\* What a run has published without a report row for it belongs to a job that says
\* PROCESSING, where a look for stuck jobs finds it (publish comes before the
\* commit in run_job, and delete_job_dir before FAILED in its handler).
OrphansSayProcessing ==
    \A j \in Jobs : final[j] # None /\ report[j] = None => status[j] = "PROCESSING"

\* The statuses move along the documented arrows, and a final status is final but
\* for COMPLETED, which may become EXPIRED.  Only an exception after the COMPLETED
\* commit breaks this, and it takes the report away before: whatever has a report
\* row then says FAILED or EXPIRED when there is nothing to download any more.
Arrows ==
    {<<"absent", "PENDING">>, <<"PENDING", "PROCESSING">>, <<"PROCESSING", "COMPLETED">>,
     <<"PROCESSING", "FAILED">>, <<"COMPLETED", "EXPIRED">>}
Revisions ==
    {<<"COMPLETED", "FAILED">>, <<"EXPIRED", "FAILED">>, <<"FAILED", "EXPIRED">>}

StatusFollowsArrows ==
    [][\A j \in Jobs : status'[j] # status[j] =>
          \/ <<status[j], status'[j]>> \in Arrows
          \/ /\ <<status[j], status'[j]>> \in Revisions /\ "late" \in Faults
             /\ report[j] # None /\ ~Offered(j)]_vars

\* Retention takes nothing away early, and no run replaces a report: one that can
\* be downloaded stays so until its job has aged (cleanup_expired's expires_at <
\* now), unless the handler of its own run deletes it after an exception that
\* followed the COMPLETED commit.
OfferedUntilAged ==
    [][\A j \in Jobs : Offered(j) /\ ~aged[j] =>
          \/ Offered(j)' /\ report'[j] = report[j]
          \/ "late" \in Faults /\ \E w \in Workers : task[w] = j /\ Undo(w)]_vars

\* Nothing is left that would move the job on.
Stranded(j) ==
    \/ /\ status[j] = "PENDING" /\ j \notin unqueued /\ broker[j] = 0
       /\ ~\E w \in Workers : task[w] = j /\ pc[w] = "loaded"
    \/ /\ status[j] = "PROCESSING"
       /\ ~\E w \in Workers : task[w] = j /\ pc[w] \in (Running \ {"finish"}) \cup {"loaded"}

\* A job is left behind in no other way than these: its message was never sent;
\* the task ended by an exception outside run_job's try or by the hard time limit;
\* or its worker died after the claim, so that the message that comes back is
\* skipped.  No exception inside the try, no skipped message and no death before
\* the claim leaves a job that nobody will ever finish.
StrandedByDeathOnly ==
    [][\A j \in Jobs : ~Stranded(j) /\ Stranded(j)' =>
          \/ EnqueueFails(j)
          \/ \E w \in Workers :
                /\ task[w] = j
                /\ Escape(w) \/ Kill(w) \/ (Crash(w) /\ status[j] = "PROCESSING")]_vars

\* Every accepted job reaches a final status, whatever raises inside the try.
EveryJobSettles ==
    \A j \in Jobs : status[j] = "PENDING" ~> status[j] \in {"COMPLETED", "FAILED", "EXPIRED"}

\* A queued job does not stay PENDING because the worker that took its message
\* died: late acknowledgement brings the message back and another one claims.
PendingIsTaken ==
    \A j \in Jobs : status[j] = "PENDING" ~> status[j] # "PENDING"

\* A report past its time is deleted and its job becomes EXPIRED, also when
\* retention runs fail half way: the next one finishes their work.
ReportsExpire ==
    \A j \in Jobs : aged[j] /\ report[j] # None ~> status[j] = "EXPIRED" /\ final[j] = None

\* A temp dir does not outlive its run for ever, also when the run crashed.
TempDirsGo == \A j \in Jobs : tmp[j] # None ~> tmp[j] = None

\* The lifecycle as documented: reports are offered atomically with COMPLETED.
Lifecycle == INSTANCE JobLifecycle WITH offered <- [j \in Jobs |-> Offered(j)]
LifecycleSpec == Lifecycle!Spec

-----------------------------------------------------------------------------
(* What the documents say and the code does not do.                        *)

\* A published directory is whole: artifacts are moved into place atomically.
PublishedWhole == \A j \in Jobs : final[j] # None => HasZip(final[j])
=============================================================================
