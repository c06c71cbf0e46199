--------------------------- MODULE JobLifecycle ---------------------------
(***************************************************************************)
(* What the application promises about a job, without workers, a broker or *)
(* directories: its status (JobStatus in backend/app/db/models/job.py) only *)
(* moves along PENDING -> PROCESSING -> COMPLETED | FAILED and COMPLETED ->  *)
(* EXPIRED, and its report is on offer from the moment the job is COMPLETED *)
(* until retention takes it away, which happens only once it has aged.     *)
(***************************************************************************)
CONSTANT Jobs

VARIABLES
    status,     \* status[j]: JobStatus, "absent" before the row exists
    offered,    \* offered[j]: a download of j's report would be served
    aged        \* aged[j]: j is past its expires_at

vars == <<status, offered, aged>>

Statuses == {"absent", "PENDING", "PROCESSING", "COMPLETED", "FAILED", "EXPIRED"}

TypeOK ==
    /\ status \in [Jobs -> Statuses]
    /\ offered \in [Jobs -> BOOLEAN]
    /\ aged \in [Jobs -> BOOLEAN]

Init ==
    /\ status = [j \in Jobs |-> "absent"]
    /\ offered = [j \in Jobs |-> FALSE]
    /\ aged = [j \in Jobs |-> FALSE]

Accept(j) ==
    /\ status[j] = "absent"
    /\ status' = [status EXCEPT ![j] = "PENDING"]
    /\ UNCHANGED <<offered, aged>>

Start(j) ==
    /\ status[j] = "PENDING"
    /\ status' = [status EXCEPT ![j] = "PROCESSING"]
    /\ UNCHANGED <<offered, aged>>

\* Only a finished report is put on offer, and at once.
Complete(j) ==
    /\ status[j] = "PROCESSING"
    /\ status' = [status EXCEPT ![j] = "COMPLETED"]
    /\ offered' = [offered EXCEPT ![j] = TRUE]
    /\ UNCHANGED aged

Fail(j) ==
    /\ status[j] = "PROCESSING"
    /\ status' = [status EXCEPT ![j] = "FAILED"]
    /\ UNCHANGED <<offered, aged>>

Lapse(j) ==
    /\ status[j] # "absent"
    /\ aged' = [aged EXCEPT ![j] = TRUE]
    /\ UNCHANGED <<status, offered>>

\* Retention deletes the files of a lapsed report, before it says so.
Withdraw(j) ==
    /\ aged[j]
    /\ status[j] = "COMPLETED"
    /\ offered' = [offered EXCEPT ![j] = FALSE]
    /\ UNCHANGED <<status, aged>>

\* One retention run marks everything it deleted.
Expire(batch) ==
    /\ \A j \in batch : aged[j] /\ status[j] = "COMPLETED" /\ ~offered[j]
    /\ status' = [j \in Jobs |-> IF j \in batch THEN "EXPIRED" ELSE status[j]]
    /\ UNCHANGED <<offered, aged>>

Next ==
    \/ \E j \in Jobs : \/ Accept(j) \/ Start(j) \/ Complete(j) \/ Fail(j)
                       \/ Lapse(j) \/ Withdraw(j)
    \/ \E batch \in SUBSET Jobs : Expire(batch)

Spec == Init /\ [][Next]_vars
=============================================================================
