------------------------ MODULE JobPipelineProofs ------------------------
(***************************************************************************)
(* The safety of the job pipeline for every set of jobs, workers and       *)
(* clients and every number of faults, in layers that exclude as few kinds *)
(* of fault as they can.                                                   *)
(*                                                                         *)
(* Typed holds whatever goes wrong.  IInv needs only that the broker does  *)
(* not redeliver the message of a live worker (SingleDelivery): it makes   *)
(* the message the lock of its job (Tokens), ties a worker's place in      *)
(* run_job to the job's status (Phases), to what its working directory may *)
(* hold (WorkingDirs), and what is published to the report row             *)
(* (Published), which never changes once it is there.  HInv adds what the   *)
(* exception handler relies on, also when it runs after COMPLETED, and so   *)
(* accounts for every published directory.  Strict adds, when no exception  *)
(* strikes between the COMPLETED commit and the end of the try              *)
(* (OrderlyFaults), that a verdict is never revised.                        *)
(*                                                                         *)
(* When retention leaves the temp dirs of runs at work alone (CalmFaults), *)
(* the pipeline implements JobLifecycle; for that, CInv says that a run     *)
(* publishes what it hashed before it says so, and that retention deletes   *)
(* what it is going to expire and nothing else.                             *)
(*                                                                         *)
(* The last parts are about jobs that nobody moves: what can strand one,    *)
(* under every fault, and that nothing does when messages survive and no    *)
(* run is cut off between two of its steps.                                 *)
(***************************************************************************)
EXTENDS JobPipeline, TLAPS

SingleDelivery == "redeliver" \notin Faults
OrderlyFaults == Faults \cap {"redeliver", "late"} = {}

\* The types, with what the partial operations need: a worker at work holds a
\* message, a request that was let through names a job.
Typed ==
    /\ TypeOK
    /\ \A w \in Workers : pc[w] = "idle" <=> task[w] = None
    /\ \A c \in Clients : download[c].at = "open" => download[c].job \in Jobs

\* A job's message exists at most once: to be sent, on the broker, or held.
Tokens ==
    /\ \A w, v \in Workers : task[w] # None /\ task[w] = task[v] => w = v
    /\ \A w \in Workers : task[w] # None =>
           /\ task[w] \notin unqueued
           /\ broker[task[w]] = 0
           /\ status[task[w]] # "absent"
    /\ \A j \in unqueued : broker[j] = 0 /\ status[j] = "PENDING"
    /\ \A j \in Jobs : broker[j] \in {0, 1} /\ (broker[j] = 1 => status[j] # "absent")

Phases ==
    \A w \in Workers :
        /\ pc[w] = "loaded" => status[task[w]] = "PENDING"
        /\ pc[w] \in Trying \cup {"claimed"} => status[task[w]] = "PROCESSING"

Reports == \A j \in Jobs : report[j] # None => status[j] \in {"COMPLETED", "EXPIRED", "FAILED"}

WorkingDirs ==
    \A w \in Workers :
        LET dir == tmp[task[w]]
            pub == final[task[w]]
            mine == [by |-> w, data |-> "full"]
        IN  /\ pc[w] = "extract" /\ dir # None => dir.csv \in {None, [by |-> w, data |-> "partial"]}
            /\ pc[w] = "package" /\ dir # None => dir.csv \in {None, mine}
            /\ pc[w] \in {"publish", "replace", "record"} => checksum[w] = mine
            /\ pc[w] \in {"publish", "replace"} /\ dir # None => dir.zip \in {None, mine}
            /\ pc[w] = "record" /\ pub # None => pub.zip \in {None, mine}

Published ==
    \A j \in Jobs : HasZip(final[j]) =>
        /\ final[j].zip.data = "full"
        /\ report[j] # None => final[j].zip = report[j]

Batch == \A j \in sweep.batch : report[j] # None

Downloads ==
    \A c \in Clients :
        /\ download[c].at = "open" =>
               /\ download[c].sum # None
               /\ report[download[c].job] = download[c].sum
        /\ download[c].at = "served" =>
               /\ download[c].zip = download[c].sum
               /\ download[c].zip.data = "full"

IInv ==
    /\ Typed /\ Tokens /\ Phases /\ Reports
    /\ WorkingDirs /\ Published /\ Batch /\ Downloads

-----------------------------------------------------------------------------
(* Types, under every fault.                                               *)

\* What FinishCsv does to a directory changes neither its ZIP nor its kind.
LEMMA CompletedDir ==
    ASSUME NEW dir \in Dir \cup {None}, NEW w \in Workers
    PROVE  /\ Completed(dir, w) \in Dir \cup {None}
           /\ (Completed(dir, w) = None) <=> (dir = None)
           /\ dir # None => Completed(dir, w).zip = dir.zip
           /\ dir # None /\ dir.csv \in {None, [by |-> w, data |-> "partial"]}
                => Completed(dir, w).csv \in {None, [by |-> w, data |-> "full"]}
<1>1. CASE dir # None /\ dir.csv = [by |-> w, data |-> "partial"]
  <2>1. dir \in Dir
    BY <1>1
  <2>2. Completed(dir, w) = [csv |-> [by |-> w, data |-> "full"], zip |-> dir.zip]
    BY <1>1, <2>1 DEF Completed, Dir
  <2>3. Completed(dir, w) \in Dir
    BY <2>1, <2>2 DEF Dir, Csv, Zip, Data
  <2> QED
    BY <1>1, <2>1, <2>2, <2>3, NoneAssumption
<1>2. CASE ~(dir # None /\ dir.csv = [by |-> w, data |-> "partial"])
  BY <1>2 DEF Completed
<1> QED
  BY <1>1, <1>2

\* A client asks, and is answered.
LEMMA RequestsTyped ==
    ASSUME Typed, NEW c \in Clients, DownloadStream(c) \/ \E j \in Jobs : DownloadCheck(c, j)
    PROVE  Typed'
<1>1. ASSUME NEW j \in Jobs, DownloadCheck(c, j) PROVE Typed'
  BY <1>1 DEF Typed, TypeOK, DownloadCheck, Offered, db, queue, worker, storage
<1>2. CASE DownloadStream(c)
  <2> DEFINE zip == IF HasZip(final[download[c].job]) THEN final[download[c].job].zip ELSE None
             at == IF HasZip(final[download[c].job]) THEN "served" ELSE "error"
             Requests == [at : {"idle", "open", "served", "error"}, job : Jobs \cup {None},
                          sum : Zip \cup {None}, zip : Zip \cup {None}]
  <2>1. download[c].job \in Jobs /\ download \in [Clients -> Requests]
    BY <1>2 DEF Typed, TypeOK, DownloadStream
  <2>2. zip \in Zip \cup {None}
    BY <2>1, NoneAssumption DEF Typed, TypeOK, HasZip, Dir
  <2>3. download' = [download EXCEPT ![c] = [download[c] EXCEPT !.at = at, !.zip = zip]]
    BY <1>2, <2>1 DEF DownloadStream
  <2>4. at \in {"served", "error"}
    OBVIOUS
  <2>5. \A a \in {"served", "error"}, z \in Zip \cup {None} :
          [download[c] EXCEPT !.at = a, !.zip = z] \in Requests
    BY <2>1
  <2>6. [download[c] EXCEPT !.at = at, !.zip = zip] \in Requests
    BY <2>2, <2>4, <2>5
  <2>7. download' \in [Clients -> Requests] /\ download'[c].at # "open"
    BY <2>1, <2>3, <2>4, <2>6
  <2>8. \A d \in Clients \ {c} : download'[d] = download[d]
    BY <2>1, <2>3
  <2> HIDE DEF zip, at
  <2> QED
    BY <1>2, <2>7, <2>8 DEF Typed, TypeOK, DownloadStream, db, queue, worker, storage
<1> QED
  BY <1>1, <1>2

\* A worker takes a message, gives it up, or has it delivered twice.
LEMMA MessagesTyped ==
    ASSUME Typed, NEW w \in Workers,
           Take(w) \/ Ack(w) \/ Crash(w) \/ Kill(w) \/ Redeliver(w)
    PROVE  Typed'
<1>1. CASE Take(w)
  <2>1. PICK j \in Jobs : Deliver(w, j)
    BY <1>1 DEF Take
  <2>2. broker' \in [Jobs -> Nat] /\ j # None
    BY <2>1, NoneAssumption DEF Typed, TypeOK, Deliver
  <2> QED
    BY <2>1, <2>2 DEF Typed, TypeOK, PCs, Handling, Deliver, Goto, db, storage
<1>2. CASE Ack(w) \/ Kill(w)
  BY <1>2, FaultsAssumption
     DEF Typed, TypeOK, PCs, Ack, Kill, Release, Fault, db, queue, storage
<1>3. CASE Crash(w) \/ Redeliver(w)
  <2>1. task[w] \in Jobs
    BY <1>3 DEF Typed, TypeOK, Crash, Redeliver
  <2>2. broker' \in [Jobs -> Nat] /\ faults' \in 0..MaxFaults
    BY <1>3, <2>1, FaultsAssumption DEF Typed, TypeOK, Crash, Redeliver, Fault
  <2>3. CASE Crash(w)
    <3>1. /\ pc' = [pc EXCEPT ![w] = "idle"] /\ task' = [task EXCEPT ![w] = None]
          /\ checksum' = [checksum EXCEPT ![w] = None]
          /\ UNCHANGED <<db, unqueued, storage, sweep, download>>
      BY <2>3 DEF Crash, Release
    <3> QED
      BY <2>2, <3>1 DEF Typed, TypeOK, PCs, db, storage
  <2>4. CASE Redeliver(w)
    BY <2>2, <2>4 DEF Typed, TypeOK, Redeliver, db, worker, storage
  <2> QED
    BY <1>3, <2>3, <2>4
<1> QED
  BY <1>1, <1>2, <1>3

\* A step of the task that changes no file.
LEMMA RowsTyped ==
    ASSUME Typed, NEW w \in Workers,
           \/ Claim(w) \/ Record(w) \/ MarkFailed(w) \/ RunFails(w) \/ Finish(w)
           \/ Raise(w) \/ RaiseLate(w) \/ Escape(w)
    PROVE  Typed'
<1>1. task[w] \in Jobs /\ pc[w] # "idle"
  BY DEF Typed, TypeOK, Claim, Record, MarkFailed, RunFails, Finish, Raise, RaiseLate, Escape,
     SelfInflicted, Trying, Handling
<1>2. /\ pc' \in [Workers -> PCs] /\ pc'[w] # "idle"
      /\ \A v \in Workers \ {w} : pc'[v] = pc[v]
      /\ UNCHANGED <<aged, queue, task, checksum, storage, sweep, download>>
  BY DEF Typed, TypeOK, Claim, Record, MarkFailed, RunFails, Finish, Raise, RaiseLate, Escape,
     Goto, PCs, Handling, Trying, db
<1>3. status' \in [Jobs -> Statuses] /\ report' \in [Jobs -> Zip \cup {None}]
  BY <1>1 DEF Typed, TypeOK, Claim, Record, MarkFailed, RunFails, Finish, Raise, RaiseLate, Escape,
     Statuses, db
<1>4. faults' \in 0..MaxFaults
  BY FaultsAssumption DEF Typed, TypeOK, Claim, Record, MarkFailed, RunFails, Finish, Raise,
     RaiseLate, Escape, Fault
<1> QED
  BY <1>1, <1>2, <1>3, <1>4 DEF Typed, TypeOK, queue, storage

\* A step of the task that changes files; two runs may write the same one.
LEMMA FilesTyped ==
    ASSUME Typed, NEW w \in Workers,
           \/ NewTempDir(w) \/ OpenCsv(w) \/ FinishCsv(w) \/ Package(w)
           \/ PublishRemove(w) \/ PublishReplace(w) \/ Undo(w)
    PROVE  Typed'
<1> DEFINE j == task[w]
<1>1. /\ j \in Jobs /\ pc[w] # "idle"
      /\ tmp \in [Jobs -> Dir \cup {None}] /\ final \in [Jobs -> Dir \cup {None}]
      /\ checksum \in [Workers -> Zip \cup {None}]
  BY DEF Typed, TypeOK, NewTempDir, OpenCsv, FinishCsv, Package, PublishRemove, PublishReplace,
     Undo
<1>2. /\ pc' \in [Workers -> PCs] /\ pc'[w] # "idle"
      /\ \A v \in Workers \ {w} : pc'[v] = pc[v]
      /\ UNCHANGED <<db, queue, task, sweep, download, faults>>
  BY DEF Typed, TypeOK, NewTempDir, OpenCsv, FinishCsv, Package, PublishRemove, PublishReplace,
     Undo, Goto, PCs, Handling, Trying
<1> SUFFICES /\ tmp' \in [Jobs -> Dir \cup {None}] /\ final' \in [Jobs -> Dir \cup {None}]
             /\ checksum' \in [Workers -> Zip \cup {None}]
  BY <1>1, <1>2 DEF Typed, TypeOK, db, queue
<1>3. CASE NewTempDir(w) \/ PublishRemove(w) \/ PublishReplace(w) \/ Undo(w)
  BY <1>1, <1>3 DEF NewTempDir, PublishRemove, PublishReplace, Undo, Dir
<1>4. CASE OpenCsv(w)
  <2>1. tmp[j] \in Dir
    BY <1>1, <1>4 DEF OpenCsv
  <2>2. \A d \in Data : [tmp[j] EXCEPT !.csv = [by |-> w, data |-> d]] \in Dir
    BY <2>1 DEF Dir, Csv
  <2>3. "mixed" \in Data /\ "partial" \in Data
    BY DEF Data
  <2> QED
    BY <1>1, <1>4, <2>2, <2>3 DEF OpenCsv
<1>5. CASE FinishCsv(w)
  BY <1>1, <1>5, CompletedDir DEF FinishCsv
<1>6. CASE Package(w)
  <2>1. tmp[j] \in Dir /\ tmp[j].csv \in Csv
    BY <1>1, <1>6, NoneAssumption DEF Package, HasCsv, Dir
  <2>2. [by |-> w, data |-> tmp[j].csv.data] \in Zip
    BY <2>1 DEF Csv, Zip
  <2>3. checksum' \in [Workers -> Zip \cup {None}] /\ checksum'[w] \in Zip
    BY <1>1, <1>6, <2>2 DEF Package
  <2>4. [tmp[j] EXCEPT !.zip = checksum'[w]] \in Dir
    BY <2>1, <2>3 DEF Dir
  <2> QED
    BY <1>1, <1>6, <2>3, <2>4 DEF Package
<1> QED
  BY <1>3, <1>4, <1>5, <1>6

\* Retention.
LEMMA SweepTyped == ASSUME Typed, Sweep \/ SweepDies PROVE Typed'
<1>1. CASE SweepUnlink
  <2>1. \A j \in Jobs : tmp'[j] \in Dir \cup {None}
    BY <1>1 DEF Typed, TypeOK, SweepUnlink, Dir
  <2>2. tmp' \in [Jobs -> Dir \cup {None}]
    BY <1>1, <2>1 DEF SweepUnlink
  <2>3. faults' \in 0..MaxFaults
    BY <1>1, FaultsAssumption DEF Typed, TypeOK, SweepUnlink, Fault, NoFault
  <2> QED
    BY <1>1, <2>2, <2>3 DEF Typed, TypeOK, SweepUnlink, db, queue, worker
<1>2. CASE SweepCommit
  <2>1. status' \in [Jobs -> Statuses]
    BY <1>2 DEF Typed, TypeOK, SweepCommit, Statuses
  <2> QED
    BY <1>2, <2>1 DEF Typed, TypeOK, SweepCommit, SweepEnd, queue, worker, storage
<1>3. CASE SweepSelect
  BY <1>3 DEF Typed, TypeOK, SweepSelect, Lapsed, db, queue, worker, storage
<1>4. ASSUME NEW j \in Jobs, SweepDelete(j) PROVE Typed'
  BY <1>4 DEF Typed, TypeOK, Dir, SweepDelete, db, queue, worker
<1>5. CASE SweepRmdir
  BY <1>5 DEF Typed, TypeOK, Dir, SweepRmdir, db, queue, worker
<1>6. CASE SweepDies
  BY <1>6, FaultsAssumption DEF Typed, TypeOK, SweepDies, Fault, SweepEnd, db, queue, worker,
     storage
<1> QED
  BY <1>1, <1>2, <1>3, <1>4, <1>5, <1>6 DEF Sweep

\* Every step keeps the types.
LEMMA StepTyped == ASSUME Typed, [Next]_vars PROVE Typed'
<1>1. CASE UNCHANGED vars
  BY <1>1 DEF Typed, TypeOK, vars, db, queue, worker, storage
<1>2. ASSUME NEW j \in Jobs, Submit(j) \/ Enqueue(j) \/ EnqueueFails(j) \/ Lapse(j)
      PROVE  Typed'
  <2>1. CASE Submit(j) \/ Lapse(j)
    BY <2>1 DEF Typed, TypeOK, Statuses, Submit, Lapse, queue, worker, storage
  <2>2. CASE Enqueue(j) \/ EnqueueFails(j)
    BY <2>2, FaultsAssumption
       DEF Typed, TypeOK, Enqueue, EnqueueFails, Fault, db, worker, storage
  <2> QED
    BY <1>2, <2>1, <2>2
<1>3. ASSUME NEW w \in Workers, Take(w) \/ RunStep(w) \/ Misfortune(w) PROVE Typed'
  BY <1>3, MessagesTyped, RowsTyped, FilesTyped DEF RunStep, Misfortune
<1> QED
  BY <1>1, <1>2, <1>3, SweepTyped, RequestsTyped DEF Next

-----------------------------------------------------------------------------
(* IInv, action by action.                                                 *)

\* The row is new: nobody holds its message yet.
LEMMA SubmitInvariant == ASSUME IInv, Typed', NEW j \in Jobs, Submit(j) PROVE IInv'
<1>1. Tokens'
  BY DEF IInv, Typed, TypeOK, Tokens, Trying, Submit, worker, storage
<1>2. Phases'
  BY DEF IInv, Typed, TypeOK, Tokens, Phases, Trying, Submit, worker, storage
<1>3. Reports'
  BY DEF IInv, Typed, TypeOK, Tokens, Phases, Reports, Trying, Submit, worker, storage
<1>4. Batch'
  BY DEF IInv, Typed, TypeOK, Tokens, Phases, Reports, Batch, Trying, Submit, worker, storage
<1>5. WorkingDirs' /\ Published' /\ Downloads'
  BY DEF IInv, WorkingDirs, Published, Downloads, HasZip, Submit, worker, storage
<1> QED
  BY <1>1, <1>2, <1>3, <1>4, <1>5 DEF IInv

\* The message goes from the API to the broker.
LEMMA EnqueueInvariant == ASSUME IInv, Typed', NEW j \in Jobs, Enqueue(j) PROVE IInv'
<1>1. Tokens'
  BY DEF IInv, Typed, TypeOK, Tokens, Trying, Enqueue, db, worker, storage
<1>2. Phases' /\ Reports' /\ WorkingDirs' /\ Published' /\ Batch' /\ Downloads'
  BY DEF IInv, Phases, Reports, WorkingDirs, Published, Batch, Downloads, HasZip,
         Enqueue, db, worker, storage
<1> QED
  BY <1>1, <1>2 DEF IInv

\* The message is never sent.
LEMMA EnqueueFailsInvariant == ASSUME IInv, Typed', NEW j \in Jobs, EnqueueFails(j) PROVE IInv'
<1>1. Tokens'
  BY DEF IInv, Typed, TypeOK, Tokens, Trying, EnqueueFails, Fault, db, worker, storage
<1>2. Phases' /\ Reports' /\ WorkingDirs' /\ Published' /\ Batch' /\ Downloads'
  BY DEF IInv, Phases, Reports, WorkingDirs, Published, Batch, Downloads, HasZip,
         EnqueueFails, db, worker, storage
<1> QED
  BY <1>1, <1>2 DEF IInv

\* The message goes from the broker to one worker.
LEMMA DeliverInvariant ==
    ASSUME IInv, Typed', NEW w \in Workers, NEW j \in Jobs, Deliver(w, j) PROVE IInv'
<1>1. Tokens'
  <2>1. /\ broker[j] = 1 /\ j \notin unqueued /\ status[j] # "absent"
        /\ \A v \in Workers : task[v] # j
    BY NoneAssumption DEF IInv, Typed, TypeOK, Tokens, Deliver
  <2>2. /\ broker' = [broker EXCEPT ![j] = 0]
        /\ task' = [task EXCEPT ![w] = j]
        /\ pc'[w] # "idle"
        /\ \A v \in Workers : v # w => pc'[v] = pc[v]
    BY <2>1 DEF IInv, Typed, TypeOK, Deliver, Goto
  <2>3. j # None /\ UNCHANGED <<unqueued, status>>
    BY NoneAssumption DEF Deliver, db
  <2> QED
    BY <2>1, <2>2, <2>3 DEF IInv, Typed, TypeOK, Tokens
<1>2. Phases'
  BY DEF IInv, Typed, TypeOK, Tokens, Phases, Trying, Deliver, Goto, db, storage
<1>3. WorkingDirs'
  BY DEF IInv, Typed, TypeOK, Tokens, WorkingDirs, Trying, HasCsv, Deliver, Goto, db, storage
<1>4. Reports' /\ Published' /\ Batch' /\ Downloads'
  BY DEF IInv, Reports, Published, Batch, Downloads, HasZip, Deliver, db, storage
<1> QED
  BY <1>1, <1>2, <1>3, <1>4 DEF IInv

\* PENDING becomes PROCESSING.
LEMMA ClaimInvariant == ASSUME IInv, Typed', NEW w \in Workers, Claim(w) PROVE IInv'
<1>1. Tokens'
  BY DEF IInv, Typed, TypeOK, Tokens, Trying, Claim, Goto, queue, storage
<1>2. Phases'
  BY DEF IInv, Typed, TypeOK, Tokens, Phases, Trying, Claim, Goto, queue, storage
<1>3. Reports'
  BY DEF IInv, Typed, TypeOK, Tokens, Phases, Reports, Trying, Claim, Goto, queue, storage
<1>4. WorkingDirs'
  BY DEF IInv, Typed, TypeOK, Tokens, WorkingDirs, Trying, HasCsv, Claim, Goto, queue, storage
<1>5. Batch'
  BY DEF IInv, Typed, TypeOK, Tokens, Phases, Reports, Batch, Trying, Claim, Goto, queue,
         storage
<1>6. Published' /\ Downloads'
  BY DEF IInv, Published, Downloads, HasZip, Claim, queue, storage
<1> QED
  BY <1>1, <1>2, <1>3, <1>4, <1>5, <1>6 DEF IInv

\* The run starts with an empty directory.
LEMMA NewTempDirInvariant == ASSUME IInv, Typed', NEW w \in Workers, NewTempDir(w) PROVE IInv'
<1>1. Tokens'
  BY DEF IInv, Typed, TypeOK, Tokens, Trying, NewTempDir, Goto, db, queue
<1>2. Phases'
  BY DEF IInv, Typed, TypeOK, Tokens, Phases, Trying, NewTempDir, Goto, db, queue
<1>3. WorkingDirs'
  BY DEF IInv, Typed, TypeOK, Tokens, WorkingDirs, Trying, HasCsv, NewTempDir, Goto, db, queue
<1>4. Reports' /\ Published' /\ Batch' /\ Downloads'
  BY DEF IInv, Reports, Published, Batch, Downloads, HasZip, NewTempDir, db, queue
<1> QED
  BY <1>1, <1>2, <1>3, <1>4 DEF IInv

\* No other run writes the file: the message is the lock.
LEMMA OpenCsvInvariant == ASSUME IInv, Typed', NEW w \in Workers, OpenCsv(w) PROVE IInv'
<1>1. Tokens'
  BY DEF IInv, Typed, TypeOK, Tokens, Trying, OpenCsv, Goto, HasCsv, db, queue
<1>2. Phases'
  BY DEF IInv, Typed, TypeOK, Tokens, Phases, Trying, OpenCsv, Goto, HasCsv, db, queue
<1>3. WorkingDirs'
  BY DEF IInv, Typed, TypeOK, Tokens, WorkingDirs, Trying, HasCsv, OpenCsv, Goto, db, queue
<1>4. Reports' /\ Published' /\ Batch' /\ Downloads'
  BY DEF IInv, Reports, Published, Batch, Downloads, HasZip, OpenCsv, db, queue
<1> QED
  BY <1>1, <1>2, <1>3, <1>4 DEF IInv

\* The run's own file becomes whole.
LEMMA FinishCsvInvariant == ASSUME IInv, Typed', NEW w \in Workers, FinishCsv(w) PROVE IInv'
<1>1. Tokens'
  BY DEF IInv, Typed, TypeOK, Tokens, Trying, FinishCsv, Goto, db, queue
<1>2. Phases'
  BY DEF IInv, Typed, TypeOK, Tokens, Phases, Trying, FinishCsv, Goto, db, queue
<1>3. WorkingDirs'
  <2>1. task[w] \in Jobs /\ \A v \in Workers : v # w => task[v] # task[w]
    BY DEF IInv, Typed, TypeOK, Tokens, FinishCsv
  <2>2. \A v \in Workers : v # w =>
          tmp'[task[v]] = tmp[task[v]] /\ final'[task[v]] = final[task[v]] /\ pc'[v] = pc[v]
    BY <2>1 DEF IInv, Typed, TypeOK, FinishCsv, Goto
  <2>3. /\ pc'[w] = "package"
        /\ tmp'[task[w]] # None => tmp'[task[w]].csv \in {None, [by |-> w, data |-> "full"]}
    <3>1. /\ pc'[w] = "package"
          /\ tmp'[task[w]] = Completed(tmp[task[w]], w)
      BY <2>1 DEF IInv, Typed, TypeOK, FinishCsv, Goto
    <3>2. /\ tmp[task[w]] \in Dir \cup {None}
          /\ tmp[task[w]] # None => tmp[task[w]].csv \in {None, [by |-> w, data |-> "partial"]}
      BY <2>1 DEF IInv, Typed, TypeOK, WorkingDirs, FinishCsv
    <3> QED
      BY <3>1, <3>2, CompletedDir
  <2> QED
    BY <2>2, <2>3 DEF IInv, WorkingDirs, FinishCsv
<1>4. Published'
  <2>1. \A j \in Jobs : HasZip(final[j])' => HasZip(final[j]) /\ final'[j].zip = final[j].zip
    BY CompletedDir DEF IInv, Typed, TypeOK, FinishCsv, HasZip
  <2> QED
    BY <2>1 DEF IInv, Published, FinishCsv, db
<1>5. Reports' /\ Batch' /\ Downloads'
  BY DEF IInv, Reports, Batch, Downloads, FinishCsv, db, queue
<1> QED
  BY <1>1, <1>2, <1>3, <1>4, <1>5 DEF IInv

\* The ZIP is of a whole CSV, and the checksum is the ZIP's.
LEMMA PackageInvariant == ASSUME IInv, Typed', NEW w \in Workers, Package(w) PROVE IInv'
<1>1. Tokens'
  BY DEF IInv, Typed, TypeOK, Tokens, Trying, Package, Goto, HasCsv, db, queue
<1>2. Phases'
  BY DEF IInv, Typed, TypeOK, Tokens, Phases, Trying, Package, Goto, HasCsv, db, queue
<1>3. WorkingDirs'
  BY DEF IInv, Typed, TypeOK, Tokens, WorkingDirs, Trying, HasCsv, Package, Goto, db, queue
<1>4. Reports' /\ Published' /\ Batch' /\ Downloads'
  BY DEF IInv, Reports, Published, Batch, Downloads, HasZip, Package, db, queue
<1> QED
  BY <1>1, <1>2, <1>3, <1>4 DEF IInv

\* Nothing reported is removed: the job has no report row.
LEMMA PublishRemoveInvariant == ASSUME IInv, Typed', NEW w \in Workers, PublishRemove(w) PROVE IInv'
<1>1. Tokens'
  BY DEF IInv, Typed, TypeOK, Tokens, Trying, PublishRemove, Goto, db, queue
<1>2. Phases'
  BY DEF IInv, Typed, TypeOK, Tokens, Phases, Trying, PublishRemove, Goto, db, queue
<1>3. WorkingDirs'
  BY DEF IInv, Typed, TypeOK, Tokens, WorkingDirs, Trying, HasCsv, PublishRemove, Goto, db,
         queue
<1>4. Published'
  BY DEF IInv, Typed, TypeOK, Tokens, Phases, Reports, WorkingDirs, Published, HasZip, Trying,
         PublishRemove, Goto, db, queue
<1>5. Reports' /\ Batch' /\ Downloads'
  BY DEF IInv, Reports, Batch, Downloads, PublishRemove, db, queue
<1> QED
  BY <1>1, <1>2, <1>3, <1>4, <1>5 DEF IInv

\* What was built becomes what is published.
LEMMA PublishReplaceInvariant == ASSUME IInv, Typed', NEW w \in Workers, PublishReplace(w) PROVE IInv'
<1>1. Tokens'
  BY DEF IInv, Typed, TypeOK, Tokens, Trying, PublishReplace, Goto, db, queue
<1>2. Phases'
  BY DEF IInv, Typed, TypeOK, Tokens, Phases, Trying, PublishReplace, Goto, db, queue
<1>3. WorkingDirs'
  BY DEF IInv, Typed, TypeOK, Tokens, WorkingDirs, Trying, HasCsv, PublishReplace, Goto, db,
         queue
<1>4. Published'
  BY DEF IInv, Typed, TypeOK, Tokens, Phases, Reports, WorkingDirs, Published, HasZip, Trying,
         PublishReplace, Goto, db, queue
<1>5. Reports' /\ Batch' /\ Downloads'
  BY DEF IInv, Reports, Batch, Downloads, PublishReplace, db, queue
<1> QED
  BY <1>1, <1>2, <1>3, <1>4, <1>5 DEF IInv

\* The report row names what is published.
LEMMA RecordInvariant == ASSUME IInv, Typed', NEW w \in Workers, Record(w) PROVE IInv'
<1>1. Tokens'
  BY DEF IInv, Typed, TypeOK, Tokens, Trying, Record, Goto, queue, storage
<1>2. Phases'
  BY DEF IInv, Typed, TypeOK, Tokens, Phases, Trying, Record, Goto, queue, storage
<1>3. Reports'
  BY DEF IInv, Typed, TypeOK, Tokens, Phases, Reports, Trying, Record, Goto, queue, storage
<1>4. WorkingDirs'
  BY DEF IInv, Typed, TypeOK, Tokens, WorkingDirs, Trying, HasCsv, Record, Goto, queue, storage
<1>5. Published'
  BY DEF IInv, Typed, TypeOK, Tokens, Phases, Reports, WorkingDirs, Published, HasZip, Trying,
         Record, Goto, queue, storage
<1>6. Batch'
  BY DEF IInv, Typed, TypeOK, Tokens, Phases, Reports, Batch, Trying, Record, Goto, queue,
         storage
<1>7. Downloads'
  BY DEF IInv, Typed, TypeOK, Tokens, Phases, Reports, Published, Downloads, HasZip, Trying,
         Record, Goto, queue, storage
<1> QED
  BY <1>1, <1>2, <1>3, <1>4, <1>5, <1>6, <1>7 DEF IInv

\* A call of the run raises.
LEMMA RunFailsInvariant == ASSUME IInv, Typed', NEW w \in Workers, RunFails(w) PROVE IInv'
<1>1. Tokens'
  BY DEF IInv, Typed, TypeOK, Tokens, Trying, RunFails, Goto, SelfInflicted, db, queue, storage
<1>2. Phases'
  BY DEF IInv, Typed, TypeOK, Tokens, Phases, Trying, RunFails, Goto, SelfInflicted, db, queue,
         storage
<1>3. WorkingDirs'
  BY DEF IInv, Typed, TypeOK, Tokens, WorkingDirs, Trying, HasCsv, RunFails, Goto,
         SelfInflicted, db, queue, storage
<1>4. Reports' /\ Published' /\ Batch' /\ Downloads'
  BY DEF IInv, Reports, Published, Batch, Downloads, HasZip, RunFails, db, queue,
         storage
<1> QED
  BY <1>1, <1>2, <1>3, <1>4 DEF IInv

\* The environment raises, also when the job is COMPLETED.
LEMMA RaiseInvariant == ASSUME IInv, Typed', NEW w \in Workers, Raise(w) \/ RaiseLate(w) PROVE IInv'
<1>1. Tokens'
  BY DEF IInv, Typed, TypeOK, Tokens, Trying, Raise, RaiseLate, Fault, Goto, db, queue, storage
<1>2. Phases'
  BY DEF IInv, Typed, TypeOK, Tokens, Phases, Trying, Raise, RaiseLate, Fault, Goto, db, queue, storage
<1>3. WorkingDirs'
  BY DEF IInv, Typed, TypeOK, Tokens, WorkingDirs, Trying, HasCsv, Raise, RaiseLate, Fault, Goto, db,
         queue, storage
<1>4. Reports' /\ Published' /\ Batch' /\ Downloads'
  BY DEF IInv, Reports, Published, Batch, Downloads, HasZip, Raise, RaiseLate, db, queue,
         storage
<1> QED
  BY <1>1, <1>2, <1>3, <1>4 DEF IInv

\* run_job returns.
LEMMA FinishInvariant == ASSUME IInv, Typed', NEW w \in Workers, Finish(w) PROVE IInv'
<1>1. Tokens'
  BY DEF IInv, Typed, TypeOK, Tokens, Trying, Finish, Goto, db, queue, storage
<1>2. Phases'
  BY DEF IInv, Typed, TypeOK, Tokens, Phases, Trying, Finish, Goto, db, queue, storage
<1>3. WorkingDirs'
  BY DEF IInv, Typed, TypeOK, Tokens, WorkingDirs, Trying, HasCsv, Finish, Goto, db, queue,
         storage
<1>4. Reports' /\ Published' /\ Batch' /\ Downloads'
  BY DEF IInv, Reports, Published, Batch, Downloads, HasZip, Finish, db, queue, storage
<1> QED
  BY <1>1, <1>2, <1>3, <1>4 DEF IInv

\* The handler's deletions concern no report.
LEMMA UndoInvariant == ASSUME IInv, Typed', NEW w \in Workers, Undo(w) PROVE IInv'
<1>1. Tokens'
  BY DEF IInv, Typed, TypeOK, Tokens, Trying, Undo, Goto, db, queue
<1>2. Phases'
  BY DEF IInv, Typed, TypeOK, Tokens, Phases, Trying, Undo, Goto, db, queue
<1>3. WorkingDirs'
  BY DEF IInv, Typed, TypeOK, Tokens, WorkingDirs, Trying, HasCsv, Undo, Goto, db, queue
<1>4. Published'
  BY DEF IInv, Typed, TypeOK, Tokens, Phases, Reports, WorkingDirs, Published, HasZip, Trying,
         Undo, Goto, db, queue
<1>5. Reports' /\ Batch' /\ Downloads'
  BY DEF IInv, Reports, Batch, Downloads, Undo, db, queue
<1> QED
  BY <1>1, <1>2, <1>3, <1>4, <1>5 DEF IInv

\* PROCESSING becomes FAILED.
LEMMA MarkFailedInvariant == ASSUME IInv, Typed', NEW w \in Workers, MarkFailed(w) PROVE IInv'
<1>1. Tokens'
  BY DEF IInv, Typed, TypeOK, Tokens, Trying, MarkFailed, Goto, queue, storage
<1>2. Phases'
  BY DEF IInv, Typed, TypeOK, Tokens, Phases, Trying, MarkFailed, Goto, queue, storage
<1>3. Reports'
  BY DEF IInv, Typed, TypeOK, Tokens, Phases, Reports, Trying, MarkFailed, Goto, queue, storage
<1>4. WorkingDirs'
  BY DEF IInv, Typed, TypeOK, Tokens, WorkingDirs, Trying, HasCsv, MarkFailed, Goto, queue,
         storage
<1>5. Batch'
  BY DEF IInv, Typed, TypeOK, Tokens, Phases, Reports, Batch, Trying, MarkFailed, Goto, queue,
         storage
<1>6. Published' /\ Downloads'
  BY DEF IInv, Published, Downloads, HasZip, MarkFailed, queue, storage
<1> QED
  BY <1>1, <1>2, <1>3, <1>4, <1>5, <1>6 DEF IInv

\* The task fails with its status as it is.
LEMMA EscapeInvariant == ASSUME IInv, Typed', NEW w \in Workers, Escape(w) PROVE IInv'
<1>1. Tokens'
  BY DEF IInv, Typed, TypeOK, Tokens, Trying, Escape, Fault, Goto, Handling, db, queue, storage
<1>2. Phases'
  BY DEF IInv, Typed, TypeOK, Tokens, Phases, Trying, Escape, Fault, Goto, Handling, db, queue,
         storage
<1>3. WorkingDirs'
  BY DEF IInv, Typed, TypeOK, Tokens, WorkingDirs, Trying, HasCsv, Escape, Fault, Goto,
         Handling, db, queue, storage
<1>4. Reports' /\ Published' /\ Batch' /\ Downloads'
  BY DEF IInv, Reports, Published, Batch, Downloads, HasZip, Escape, db, queue, storage
<1> QED
  BY <1>1, <1>2, <1>3, <1>4 DEF IInv

\* The message is gone.
LEMMA AckInvariant == ASSUME IInv, Typed', NEW w \in Workers, Ack(w) PROVE IInv'
<1>1. Tokens'
  BY DEF IInv, Typed, TypeOK, Tokens, Trying, Ack, Release, db, queue, storage
<1>2. Phases'
  BY DEF IInv, Typed, TypeOK, Tokens, Phases, Trying, Ack, Release, db, queue, storage
<1>3. WorkingDirs'
  BY DEF IInv, Typed, TypeOK, Tokens, WorkingDirs, Trying, HasCsv, Ack, Release, db, queue,
         storage
<1>4. Reports' /\ Published' /\ Batch' /\ Downloads'
  BY DEF IInv, Reports, Published, Batch, Downloads, HasZip, Ack, db, queue, storage
<1> QED
  BY <1>1, <1>2, <1>3, <1>4 DEF IInv

\* The message goes back to the broker.
LEMMA CrashInvariant == ASSUME IInv, Typed', NEW w \in Workers, Crash(w) PROVE IInv'
<1>1. Tokens'
  BY DEF IInv, Typed, TypeOK, Tokens, Trying, Crash, Fault, Release, db, storage
<1>2. Phases'
  BY DEF IInv, Typed, TypeOK, Tokens, Phases, Trying, Crash, Fault, Release, db, storage
<1>3. WorkingDirs'
  BY DEF IInv, Typed, TypeOK, Tokens, WorkingDirs, Trying, HasCsv, Crash, Fault, Release, db,
         storage
<1>4. Reports' /\ Published' /\ Batch' /\ Downloads'
  BY DEF IInv, Reports, Published, Batch, Downloads, HasZip, Crash, db, storage
<1> QED
  BY <1>1, <1>2, <1>3, <1>4 DEF IInv

\* The message is gone.
LEMMA KillInvariant == ASSUME IInv, Typed', NEW w \in Workers, Kill(w) PROVE IInv'
<1>1. Tokens'
  BY DEF IInv, Typed, TypeOK, Tokens, Trying, Kill, Fault, Release, db, queue, storage
<1>2. Phases'
  BY DEF IInv, Typed, TypeOK, Tokens, Phases, Trying, Kill, Fault, Release, db, queue, storage
<1>3. WorkingDirs'
  BY DEF IInv, Typed, TypeOK, Tokens, WorkingDirs, Trying, HasCsv, Kill, Fault, Release, db,
         queue, storage
<1>4. Reports' /\ Published' /\ Batch' /\ Downloads'
  BY DEF IInv, Reports, Published, Batch, Downloads, HasZip, Kill, db, queue, storage
<1> QED
  BY <1>1, <1>2, <1>3, <1>4 DEF IInv

\* Time passes.
LEMMA LapseInvariant == ASSUME IInv, Typed', NEW j \in Jobs, Lapse(j) PROVE IInv'
<1>1. Tokens' /\ Phases' /\ Reports' /\ WorkingDirs' /\ Published' /\ Batch' /\ Downloads'
  BY DEF IInv, Tokens, Phases, Reports, WorkingDirs, Published, Batch, Downloads,
         HasZip, Lapse, queue, worker, storage
<1> QED
  BY <1>1 DEF IInv

\* Whatever is selected has its report row.
LEMMA SweepSelectInvariant == ASSUME IInv, Typed', SweepSelect PROVE IInv'
<1>1. Batch'
  BY DEF IInv, Typed, TypeOK, Tokens, Phases, Reports, Batch, Trying, SweepSelect, Lapsed, db,
         queue, worker, storage
<1>2. Tokens' /\ Phases' /\ Reports' /\ WorkingDirs' /\ Published' /\ Downloads'
  BY DEF IInv, Tokens, Phases, Reports, WorkingDirs, Published, Downloads, HasZip,
         SweepSelect, db, queue, worker, storage
<1> QED
  BY <1>1, <1>2 DEF IInv

\* Published files go.
LEMMA SweepDeleteInvariant == ASSUME IInv, Typed', NEW j \in Jobs, SweepDelete(j) PROVE IInv'
<1>1. WorkingDirs'
  BY DEF IInv, Typed, TypeOK, Tokens, WorkingDirs, Trying, HasCsv, SweepDelete, db, queue,
         worker
<1>2. Published'
  BY DEF IInv, Typed, TypeOK, Tokens, Phases, Reports, WorkingDirs, Published, HasZip, Trying,
         SweepDelete, db, queue, worker
<1>3. Batch'
  BY DEF IInv, Typed, TypeOK, Tokens, Phases, Reports, Batch, Trying, SweepDelete, db, queue,
         worker
<1>4. Tokens' /\ Phases' /\ Reports' /\ Downloads'
  BY DEF IInv, Tokens, Phases, Reports, Downloads, SweepDelete, db, queue, worker
<1> QED
  BY <1>1, <1>2, <1>3, <1>4 DEF IInv

\* Files vanish from working directories, in use or not.
LEMMA SweepUnlinkInvariant == ASSUME IInv, Typed', SweepUnlink PROVE IInv'
<1>1. WorkingDirs'
  BY DEF IInv, Typed, TypeOK, Tokens, WorkingDirs, Trying, HasCsv, SweepUnlink, Fault, NoFault,
         db, queue, worker
<1>2. Batch'
  BY DEF IInv, Typed, TypeOK, Tokens, Phases, Reports, Batch, Trying, SweepUnlink, Fault,
         NoFault, db, queue, worker
<1>3. Tokens' /\ Phases' /\ Reports' /\ Published' /\ Downloads'
  BY DEF IInv, Tokens, Phases, Reports, Published, Downloads, HasZip, SweepUnlink, db,
         queue, worker
<1> QED
  BY <1>1, <1>2, <1>3 DEF IInv

\* Directories vanish.
LEMMA SweepRmdirInvariant == ASSUME IInv, Typed', SweepRmdir PROVE IInv'
<1>1. WorkingDirs'
  BY DEF IInv, Typed, TypeOK, Tokens, WorkingDirs, Trying, HasCsv, SweepRmdir, db, queue,
         worker
<1>2. Batch'
  BY DEF IInv, Typed, TypeOK, Tokens, Phases, Reports, Batch, Trying, SweepRmdir, db, queue,
         worker
<1>3. Tokens' /\ Phases' /\ Reports' /\ Published' /\ Downloads'
  BY DEF IInv, Tokens, Phases, Reports, Published, Downloads, HasZip, SweepRmdir, db,
         queue, worker
<1> QED
  BY <1>1, <1>2, <1>3 DEF IInv

\* Only a job with a report row becomes EXPIRED.
LEMMA SweepCommitInvariant == ASSUME IInv, Typed', SweepCommit PROVE IInv'
<1>1. Tokens'
  <2>1. \A j \in Jobs : /\ status[j] # "absent" => status'[j] # "absent"
                        /\ status[j] = "PENDING" => status'[j] = "PENDING"
    BY DEF IInv, Typed, TypeOK, Reports, Batch, SweepCommit
  <2> QED
    BY <2>1 DEF IInv, Typed, TypeOK, Tokens, SweepCommit, queue, worker
<1>2. Phases'
  <2>1. \A j \in Jobs : status[j] \in {"PENDING", "PROCESSING"} => status'[j] = status[j]
    BY DEF IInv, Typed, TypeOK, Reports, Batch, SweepCommit
  <2>2. \A w \in Workers : pc[w] # "idle" => task[w] \in Jobs
    BY DEF IInv, Typed, TypeOK, Tokens
  <2> QED
    BY <2>1, <2>2 DEF IInv, Typed, TypeOK, Phases, SweepCommit, worker, Trying
<1>3. Reports'
  BY DEF IInv, Typed, TypeOK, Tokens, Phases, Reports, Trying, SweepCommit, SweepEnd, queue,
         worker, storage
<1>4. Batch'
  BY DEF IInv, Typed, TypeOK, Tokens, Phases, Reports, Batch, Trying, SweepCommit, SweepEnd,
         queue, worker, storage
<1>5. WorkingDirs' /\ Published' /\ Downloads'
  BY DEF IInv, WorkingDirs, Published, Downloads, HasZip, SweepCommit, queue, worker,
         storage
<1> QED
  BY <1>1, <1>2, <1>3, <1>4, <1>5 DEF IInv

\* The selection is forgotten.
LEMMA SweepDiesInvariant == ASSUME IInv, Typed', SweepDies PROVE IInv'
<1>1. Batch'
  BY DEF IInv, Typed, TypeOK, Tokens, Phases, Reports, Batch, Trying, SweepDies, Fault,
         SweepEnd, db, queue, worker, storage
<1>2. Tokens' /\ Phases' /\ Reports' /\ WorkingDirs' /\ Published' /\ Downloads'
  BY DEF IInv, Tokens, Phases, Reports, WorkingDirs, Published, Downloads, HasZip,
         SweepDies, db, queue, worker, storage
<1> QED
  BY <1>1, <1>2 DEF IInv

\* The client notes the checksum of the row.
LEMMA DownloadCheckInvariant ==
    ASSUME IInv, Typed', NEW c \in Clients, NEW j \in Jobs, DownloadCheck(c, j) PROVE IInv'
<1>1. Downloads'
  <2>1. report[j] # None
    BY DEF DownloadCheck, Offered
  <2>2. /\ download'[c] = [at |-> "open", job |-> j, sum |-> report[j], zip |-> None]
        /\ \A d \in Clients : d # c => download'[d] = download[d]
    BY DEF IInv, Typed, TypeOK, DownloadCheck
  <2> QED
    BY <2>1, <2>2 DEF IInv, Downloads, DownloadCheck, db
<1>2. Tokens' /\ Phases' /\ Reports' /\ WorkingDirs' /\ Published' /\ Batch'
  BY DEF IInv, Tokens, Phases, Reports, WorkingDirs, Published, Batch, HasZip,
         DownloadCheck, db, queue, worker, storage
<1> QED
  BY <1>1, <1>2 DEF IInv

\* What is sent is what the row names.
LEMMA DownloadStreamInvariant == ASSUME IInv, Typed', NEW c \in Clients, DownloadStream(c) PROVE IInv'
<1>1. Downloads'
  <2> DEFINE j == download[c].job
  <2>1. /\ j \in Jobs /\ report[j] = download[c].sum /\ report[j] # None
        /\ HasZip(final[j]) => final[j].zip = report[j] /\ final[j].zip.data = "full"
    BY DEF IInv, Typed, Downloads, Published, DownloadStream
  <2>2. /\ download'[c].at \in {"served", "error"} /\ download'[c].sum = download[c].sum
        /\ download'[c].at = "served" => HasZip(final[j]) /\ download'[c].zip = final[j].zip
        /\ \A d \in Clients \ {c} : download'[d] = download[d]
    BY DEF IInv, Typed, TypeOK, DownloadStream
  <2>3. UNCHANGED report
    BY DEF DownloadStream, db
  <2> QED
    BY <2>1, <2>2, <2>3 DEF IInv, Downloads
<1>2. Tokens' /\ Phases' /\ Reports' /\ WorkingDirs' /\ Published' /\ Batch'
  BY DEF IInv, Tokens, Phases, Reports, WorkingDirs, Published, Batch, HasZip,
         DownloadStream, db, queue, worker, storage
<1> QED
  BY <1>1, <1>2 DEF IInv

-----------------------------------------------------------------------------
(* Every step of the pipeline.                                             *)

LEMMA InitInvariant == Init => IInv
<1> SUFFICES ASSUME Init PROVE IInv
  OBVIOUS
<1>1. Typed
  BY FaultsAssumption DEF Init, Typed, TypeOK, Statuses, PCs
<1>2. Tokens
  BY DEF Init, Tokens
<1>3. Phases /\ Reports /\ Published /\ Batch /\ Downloads
  BY DEF Init, Phases, Reports, Published, Batch, Downloads, HasZip, Trying
<1>4. WorkingDirs
  BY DEF Init, WorkingDirs
<1> QED
  BY <1>1, <1>2, <1>3, <1>4 DEF IInv

\* Every step keeps the invariant; the fault SingleDelivery excludes is the only
\* one that would not.
LEMMA StepInvariant == ASSUME SingleDelivery, IInv, [Next]_vars PROVE IInv'
<1>0. Typed'
  BY StepTyped DEF IInv
<1>1. CASE UNCHANGED vars
  BY <1>0, <1>1 DEF IInv, Tokens, Phases, Reports, WorkingDirs, Published, Batch, Downloads,
              HasZip, vars, db, queue, worker, storage
<1>2. ASSUME NEW j \in Jobs, Submit(j) \/ Enqueue(j) \/ EnqueueFails(j) \/ Lapse(j)
      PROVE  IInv'
  BY <1>0, <1>2, SubmitInvariant, EnqueueInvariant, EnqueueFailsInvariant, LapseInvariant
<1>3. ASSUME NEW w \in Workers, Take(w) \/ RunStep(w) PROVE IInv'
  BY <1>0, <1>3, DeliverInvariant, ClaimInvariant, NewTempDirInvariant, OpenCsvInvariant,
     FinishCsvInvariant, PackageInvariant, PublishRemoveInvariant, PublishReplaceInvariant,
     RecordInvariant, RunFailsInvariant, FinishInvariant, UndoInvariant,
     MarkFailedInvariant, AckInvariant
     DEF Take, RunStep
<1>4. ASSUME NEW w \in Workers, Misfortune(w) PROVE IInv'
  <2>1. ~Redeliver(w)
    BY DEF SingleDelivery, Redeliver, Fault
  <2> QED
    BY <1>0, <1>4, <2>1, RaiseInvariant, EscapeInvariant, CrashInvariant, KillInvariant
       DEF Misfortune
<1>5. ASSUME Sweep \/ SweepDies PROVE IInv'
  BY <1>0, <1>5, SweepSelectInvariant, SweepDeleteInvariant, SweepUnlinkInvariant,
     SweepRmdirInvariant, SweepCommitInvariant, SweepDiesInvariant
     DEF Sweep
<1>6. ASSUME NEW c \in Clients, DownloadStream(c) \/ \E j \in Jobs : DownloadCheck(c, j)
      PROVE  IInv'
  BY <1>0, <1>6, DownloadStreamInvariant, DownloadCheckInvariant
<1> QED
  BY <1>1, <1>2, <1>3, <1>4, <1>5, <1>6 DEF Next

\* The invariant holds in every reachable state.
THEOREM Invariance == SingleDelivery /\ Spec => []IInv
<1> SUFFICES ASSUME SingleDelivery PROVE Spec => []IInv
  OBVIOUS
<1>1. IInv /\ [Next]_vars => IInv'
  BY StepInvariant
<1> QED
  BY <1>1, InitInvariant, PTL DEF Spec

-----------------------------------------------------------------------------

LEMMA TypedInvariance == Spec => []Typed
<1>1. Init => Typed
  BY InitInvariant DEF IInv
<1> QED
  BY <1>1, StepTyped, PTL DEF Spec

\* Rows, messages, directories and requests hold only what the code puts there,
\* whatever goes wrong, two runs in the same directory included.
THEOREM TypeCorrect == Spec => []TypeOK
<1>1. Typed => TypeOK
  BY DEF Typed
<1> QED
  BY <1>1, TypedInvariance, PTL

\* Although run_extraction_job checks the status and run_job claims the job in
\* two transactions, no two workers are ever inside run_job for the same job,
\* as long as the broker does not redeliver the message of a live worker.
THEOREM RunnersAreSingle == SingleDelivery /\ Spec => []SingleRunner
<1>1. IInv => SingleRunner
  BY DEF IInv, Typed, Tokens, SingleRunner, Running, Trying
<1> QED
  BY <1>1, Invariance, PTL

\* A ZIP that can be downloaded is whole, whatever crashes, fails or is cleared
\* away under a run (storage_service's temp -> publish).
THEOREM NothingPartialVisible == SingleDelivery /\ Spec => []NoPartialVisible
<1>1. IInv => NoPartialVisible
  BY DEF IInv, Published, NoPartialVisible
<1> QED
  BY <1>1, Invariance, PTL

\* A client that is served gets the whole ZIP its checksum header names.
THEOREM DownloadsAreIntact == SingleDelivery /\ Spec => []DownloadIntact
<1>1. IInv => DownloadIntact
  BY DEF IInv, Downloads, DownloadIntact
<1> QED
  BY <1>1, Invariance, PTL

\* Once there is a report row, no step changes it, or its directory other than
\* by removing it.
LEMMA ReportsAreFinal ==
    ASSUME IInv, Next, NEW j \in Jobs, report[j] # None
    PROVE  report'[j] = report[j] /\ final'[j] \in {final[j], None}
<1>1. /\ report \in [Jobs -> Zip \cup {None}] /\ final \in [Jobs -> Dir \cup {None}]
      /\ \A w \in Workers : pc[w] \in Trying => task[w] \in Jobs /\ task[w] # j
      /\ \A w \in Workers : pc[w] = "undo" => task[w] \in Jobs
  BY DEF IInv, Typed, TypeOK, Phases, Reports, Trying
<1>2. ASSUME NEW w \in Workers,
             FinishCsv(w) \/ PublishRemove(w) \/ PublishReplace(w) \/ Record(w)
      PROVE  final'[j] = final[j] /\ report'[j] = report[j]
  <2>1. task[w] \in Jobs /\ task[w] # j
    BY <1>1, <1>2 DEF FinishCsv, PublishRemove, PublishReplace, Record, Trying
  <2> QED
    BY <1>1, <1>2, <2>1 DEF FinishCsv, PublishRemove, PublishReplace, Record, db, storage
<1>3. ASSUME NEW w \in Workers, Undo(w)
      PROVE  final'[j] \in {final[j], None} /\ report'[j] = report[j]
  BY <1>1, <1>3 DEF Undo, db
<1>4. ASSUME NEW i \in Jobs, SweepDelete(i)
      PROVE  final'[j] \in {final[j], None} /\ report'[j] = report[j]
  BY <1>1, <1>4 DEF SweepDelete, db
<1>5. CASE UNCHANGED <<final, report>>
  BY <1>5
<1> QED
  BY <1>2, <1>3, <1>4, <1>5
     DEF Next, Submit, Enqueue, EnqueueFails, Lapse, Take, Deliver, RunStep, Claim,
         NewTempDir, OpenCsv, Package, RunFails, Finish, MarkFailed, Ack, Misfortune, Raise,
         RaiseLate, Escape, Crash, Kill, Redeliver, Sweep, SweepSelect, SweepUnlink, SweepRmdir,
         SweepCommit, SweepDies, DownloadCheck, DownloadStream, db, storage

\* A report row outlives its ZIP but never gets another one: once the file of a
\* report is gone, by retention or by the handler of a late exception, it stays
\* away.  EmailDelivery's "there" relies on it.
ReportsDoNotReturn ==
    [][\A j \in Jobs : report[j] # None /\ ~HasZip(final[j]) =>
           report'[j] = report[j] /\ ~HasZip(final[j])']_vars

\* Single delivery is enough: a job is then claimed only once, even after crashes.
THEOREM GoneReportsStayGone == SingleDelivery /\ Spec => ReportsDoNotReturn
<1> SUFFICES ASSUME SingleDelivery PROVE Spec => ReportsDoNotReturn
  OBVIOUS
<1>1. IInv /\ [Next]_vars =>
        [\A j \in Jobs : report[j] # None /\ ~HasZip(final[j]) =>
             report'[j] = report[j] /\ ~HasZip(final[j])']_vars
  BY ReportsAreFinal DEF HasZip
<1> QED
  BY <1>1, Invariance, PTL DEF Spec, ReportsDoNotReturn

\* What retention has to do, has done, and says it has done.
Removed ==
    /\ sweep.todo \subseteq sweep.batch
    /\ sweep.at # "delete" => sweep.todo = {}
    /\ \A j \in sweep.batch : j \notin sweep.todo => final[j] = None

\* An EXPIRED job has no directory left, and gets none again: no file outlives
\* the status that says it is deleted (cleanup_expired), although retention
\* deletes one by one, may fail half way, and commits to rows that it read before.
ExpiredIsGone == \A j \in Jobs : status[j] = "EXPIRED" => report[j] # None /\ final[j] = None

LEMMA RemovedKept ==
    ASSUME IInv, Removed, ExpiredIsGone, [Next]_vars
    PROVE  Removed' /\ ExpiredIsGone'
<1>1. \A j \in Jobs : report[j] # None =>
          report'[j] = report[j] /\ final'[j] \in {final[j], None}
  BY ReportsAreFinal DEF vars, db, storage
<1>2. /\ sweep \in [at : {"idle", "delete", "rmdir", "commit"},
                    todo : SUBSET Jobs, batch : SUBSET Jobs]
      /\ \A j \in sweep.batch : j \in Jobs /\ report[j] # None
      /\ final \in [Jobs -> Dir \cup {None}] /\ status \in [Jobs -> Statuses]
  BY DEF IInv, Typed, TypeOK, Batch
<1>3. ASSUME \A j \in Jobs : status'[j] = "EXPIRED" => status[j] = "EXPIRED"
      PROVE  ExpiredIsGone'
  BY <1>1, <1>3 DEF ExpiredIsGone
<1>4. ASSUME sweep' = sweep PROVE Removed'
  BY <1>1, <1>2, <1>4 DEF Removed
<1>5. CASE SweepCommit
  BY <1>1, <1>2, <1>5 DEF SweepCommit, SweepEnd, Removed, ExpiredIsGone, storage
<1>6. ASSUME NEW j \in Jobs, SweepDelete(j) PROVE Removed' /\ ExpiredIsGone'
  <2>1. status' = status /\ final' = [final EXCEPT ![j] = None]
    BY <1>6 DEF SweepDelete, db
  <2>2. sweep'.todo = sweep.todo \ {j} /\ sweep'.batch = sweep.batch /\ sweep'.at = sweep.at
    BY <1>2, <1>6 DEF SweepDelete
  <2> QED
    BY <1>2, <1>3, <2>1, <2>2 DEF Removed
<1>7. CASE SweepSelect \/ SweepUnlink \/ SweepRmdir \/ SweepDies
  <2>1. status' = status /\ final' = final
    BY <1>7 DEF SweepSelect, SweepUnlink, SweepRmdir, SweepDies, db, storage
  <2>2. Removed'
    BY <1>2, <1>7, <2>1 DEF Removed, SweepSelect, SweepUnlink, SweepRmdir, SweepDies, SweepEnd
  <2> QED
    BY <1>3, <2>1, <2>2
<1>8. CASE UNCHANGED <<sweep, status>>
  BY <1>3, <1>4, <1>8
<1>9. ASSUME NEW w \in Workers, Claim(w) \/ Record(w) \/ MarkFailed(w)
      PROVE  Removed' /\ ExpiredIsGone'
  BY <1>2, <1>3, <1>4, <1>9 DEF Claim, Record, MarkFailed
<1>10. ASSUME NEW j \in Jobs, Submit(j) PROVE Removed' /\ ExpiredIsGone'
  BY <1>2, <1>3, <1>4, <1>10 DEF Submit
<1> QED
  BY <1>5, <1>6, <1>7, <1>8, <1>9, <1>10
     DEF Next, vars, Enqueue, EnqueueFails, Lapse, Take, Deliver, RunStep, NewTempDir, OpenCsv,
         FinishCsv, Package, PublishRemove, PublishReplace, RunFails, Finish, Undo, Ack, Misfortune,
         Raise, RaiseLate, Escape, Crash, Kill, Redeliver, Sweep, DownloadCheck, DownloadStream, db

\* What retention has marked EXPIRED has no files left, also when a sweep died
\* half-way, and gets none again (retention_service.cleanup_expired).
THEOREM ExpiredJobsAreGone == SingleDelivery /\ Spec => []ExpiredIsGone
<1> SUFFICES ASSUME SingleDelivery PROVE Spec => []ExpiredIsGone
  OBVIOUS
<1>1. Init => Removed /\ ExpiredIsGone
  BY DEF Init, Removed, ExpiredIsGone
<1> QED
  BY <1>1, RemovedKept, Invariance, PTL DEF Spec

-----------------------------------------------------------------------------
(* Verdicts are not revised, unless an exception follows COMPLETED.        *)

Strict ==
    /\ \A w \in Workers : pc[w] \in {"undo", "mark"} => status[task[w]] = "PROCESSING"
    /\ \A j \in Jobs : report[j] # None => status[j] \in {"COMPLETED", "EXPIRED"}
    /\ \A j \in sweep.batch : status[j] = "COMPLETED"

SInv == IInv /\ Strict

\* Another worker's place does not matter to a job.
LEMMA VerdictsStrict ==
    ASSUME SInv, NEW w \in Workers, Claim(w) \/ Record(w) \/ MarkFailed(w)
    PROVE  Strict'
<1>1. /\ task[w] \in Jobs /\ status[task[w]] \in {"PENDING", "PROCESSING"}
      /\ report[task[w]] = None /\ task[w] \notin sweep.batch
      /\ \A v \in Workers \ {w} : pc[v] # "idle" => task[v] \in Jobs /\ task[v] # task[w]
  <2>1. task[w] \in Jobs /\ status[task[w]] \in {"PENDING", "PROCESSING"}
    BY DEF SInv, Strict, IInv, Typed, TypeOK, Phases, Trying, Claim, Record, MarkFailed
  <2>2. \A v \in Workers \ {w} : pc[v] # "idle" => task[v] \in Jobs /\ task[v] # task[w]
    BY <2>1 DEF SInv, IInv, Typed, TypeOK, Tokens
  <2> QED
    BY <2>1, <2>2 DEF SInv, Strict
<1>2. /\ UNCHANGED <<task, sweep>> /\ pc'[w] \in {"claimed", "finish", "done"}
      /\ \A v \in Workers \ {w} : pc'[v] = pc[v]
      /\ \A j \in Jobs \ {task[w]} : status'[j] = status[j] /\ report'[j] = report[j]
      /\ report'[task[w]] # None => status'[task[w]] = "COMPLETED"
  BY <1>1 DEF SInv, IInv, Typed, TypeOK, Claim, Record, MarkFailed, Goto
<1>3. sweep.batch \subseteq Jobs
  BY DEF SInv, IInv, Typed, TypeOK
<1> QED
  BY <1>1, <1>2, <1>3 DEF SInv, Strict

LEMMA StepStrict == ASSUME OrderlyFaults, SInv, [Next]_vars PROVE SInv'
<1>0. IInv'
  BY StepInvariant DEF SInv, OrderlyFaults, SingleDelivery
<1> SUFFICES Strict'
  BY <1>0 DEF SInv
<1> USE DEF SInv
<1>1. CASE UNCHANGED vars
  BY <1>1 DEF Strict, vars, db, worker
<1>2. ASSUME NEW j \in Jobs, Submit(j) \/ Enqueue(j) \/ EnqueueFails(j) \/ Lapse(j)
      PROVE  Strict'
  <2>1. /\ UNCHANGED <<pc, task, report, sweep>>
        /\ \A i \in Jobs : status[i] # "absent" => status'[i] = status[i]
    BY <1>2 DEF IInv, Typed, TypeOK, Submit, Enqueue, EnqueueFails, Lapse, db, worker
  <2>2. sweep.batch \subseteq Jobs /\ \A w \in Workers : pc[w] # "idle" => task[w] \in Jobs
    BY DEF IInv, Typed, TypeOK
  <2> QED
    BY <2>1, <2>2 DEF Strict
<1>3. ASSUME NEW w \in Workers, Claim(w) \/ Record(w) \/ MarkFailed(w) PROVE Strict'
  BY <1>3, VerdictsStrict
<1>4. ASSUME NEW w \in Workers,
             UNCHANGED <<status, report, sweep>>,
             \A v \in Workers \ {w} : pc'[v] = pc[v] /\ task'[v] = task[v],
             pc'[w] \in {"undo", "mark"} =>
                 task'[w] = task[w] /\ pc[w] \in Trying \cup {"undo"}
      PROVE  Strict'
  <2>1. pc[w] \in Trying \cup {"undo"} => status[task[w]] = "PROCESSING"
    BY DEF Strict, IInv, Phases
  <2> QED
    BY <1>4, <2>1 DEF Strict
<1>5. ASSUME NEW w \in Workers, Take(w) \/ RunStep(w) \/ Misfortune(w),
             ~Claim(w), ~Record(w), ~MarkFailed(w)
      PROVE  Strict'
  <2>1. ~RaiseLate(w) /\ ~Redeliver(w)
    BY DEF OrderlyFaults, RaiseLate, Redeliver, Fault
  <2>2. /\ UNCHANGED <<status, report, sweep>>
        /\ \A v \in Workers \ {w} : pc'[v] = pc[v] /\ task'[v] = task[v]
    BY <1>5, <2>1 DEF IInv, Typed, TypeOK, Take, Deliver, RunStep, NewTempDir, OpenCsv, FinishCsv,
       Package, PublishRemove, PublishReplace, RunFails, Finish, Undo, Ack, Misfortune, Raise,
       Escape, Crash, Kill, Release, Goto, db
  <2>3. pc'[w] \in {"undo", "mark"} => task'[w] = task[w] /\ pc[w] \in Trying \cup {"undo"}
    BY <1>5, <2>1 DEF IInv, Typed, TypeOK, Take, Deliver, RunStep, NewTempDir, OpenCsv, FinishCsv,
       Package, PublishRemove, PublishReplace, RunFails, SelfInflicted, Finish, Undo, Ack,
       Misfortune, Raise, Escape, Crash, Kill, Release, Goto, Trying
  <2> QED
    BY <1>4, <2>2, <2>3
<1>6. ASSUME Sweep \/ SweepDies PROVE Strict'
  <2>1. CASE SweepSelect
    BY <2>1 DEF Strict, SweepSelect, Lapsed, db, worker
  <2>2. CASE SweepCommit
    <3>1. /\ UNCHANGED <<pc, task, report>> /\ sweep'.batch = {}
          /\ \A j \in Jobs : IF j \in sweep.batch THEN status'[j] = "EXPIRED"
                             ELSE status'[j] = status[j]
      BY <2>2 DEF SweepCommit, SweepEnd, worker
    <3>2. \A w \in Workers : pc[w] # "idle" => task[w] \in Jobs
      BY DEF IInv, Typed, TypeOK
    <3> QED
      BY <3>1, <3>2 DEF Strict
  <2>3. CASE SweepDies
    BY <2>3 DEF Strict, SweepDies, SweepEnd, db, worker
  <2>4. CASE SweepUnlink \/ SweepRmdir \/ \E j \in Jobs : SweepDelete(j)
    <3>1. UNCHANGED <<pc, task, status, report>> /\ sweep'.batch = sweep.batch
      BY <2>4 DEF IInv, Typed, TypeOK, SweepUnlink, SweepRmdir, SweepDelete, db, worker
    <3> QED
      BY <3>1 DEF Strict
  <2> QED
    BY <1>6, <2>1, <2>2, <2>3, <2>4 DEF Sweep
<1>7. ASSUME NEW c \in Clients, DownloadStream(c) \/ \E j \in Jobs : DownloadCheck(c, j)
      PROVE  Strict'
  BY <1>7 DEF Strict, DownloadStream, DownloadCheck, db, worker
<1> QED
  BY <1>1, <1>2, <1>3, <1>5, <1>6, <1>7 DEF Next

LEMMA StrictInvariance == OrderlyFaults /\ Spec => []SInv
<1> SUFFICES ASSUME OrderlyFaults PROVE Spec => []SInv
  OBVIOUS
<1>1. Init => SInv
  BY InitInvariant DEF SInv, Strict, Init
<1>2. SInv /\ [Next]_vars => SInv'
  BY StepStrict
<1> QED
  BY <1>1, <1>2, PTL DEF Spec

\* What the handler of run_job finds: the outcome is not committed yet, or the
\* report row is, and when it comes to say FAILED no directory is left.
Handlers ==
    \A w \in Workers :
        /\ pc[w] = "finish" => report[task[w]] # None
        /\ pc[w] \in {"undo", "mark"} =>
               status[task[w]] = "PROCESSING" \/ report[task[w]] # None
        /\ pc[w] = "mark" => final[task[w]] = None

HInv == IInv /\ Handlers /\ OrphansSayProcessing

\* The steps of a worker on its own job.
LEMMA OwnHandlers ==
    ASSUME HInv, IInv', NEW w \in Workers, RunStep(w) \/ Raise(w) \/ RaiseLate(w)
    PROVE  HInv'
<1>1. /\ task[w] \in Jobs /\ pc[w] # "idle"
      /\ \A v \in Workers \ {w} : pc[v] # "idle" => task[v] \in Jobs /\ task[v] # task[w]
  BY DEF HInv, IInv, Typed, TypeOK, Tokens, RunStep, Claim, NewTempDir, OpenCsv, FinishCsv,
     Package, PublishRemove, PublishReplace, Record, RunFails, SelfInflicted, Finish, Undo,
     MarkFailed, Ack, Raise, RaiseLate, Trying
<1>2. /\ status \in [Jobs -> Statuses] /\ report \in [Jobs -> Zip \cup {None}]
      /\ final \in [Jobs -> Dir \cup {None}] /\ pc \in [Workers -> PCs]
      /\ task \in [Workers -> Jobs \cup {None}]
  BY DEF HInv, IInv, Typed, TypeOK
<1> DEFINE j == task[w]
<1>3. /\ \A v \in Workers \ {w} : pc'[v] = pc[v] /\ task'[v] = task[v]
      /\ \A i \in Jobs \ {j} :
            /\ status'[i] = status[i] /\ report'[i] = report[i] /\ final'[i] = final[i]
  BY <1>1, <1>2 DEF RunStep, Claim, NewTempDir, OpenCsv, FinishCsv, Package, PublishRemove,
     PublishReplace, Record, RunFails, Finish, Undo, MarkFailed, Ack, Raise, RaiseLate, Goto,
     Release, db, storage
<1>4. \/ /\ pc'[w] \in {"finish", "undo", "mark"} => task'[w] = j
         /\ pc'[w] = "finish" => report'[j] # None
         /\ pc'[w] \in {"undo", "mark"} => status'[j] = "PROCESSING" \/ report'[j] # None
         /\ pc'[w] = "mark" => final'[j] = None
         /\ final'[j] # None /\ report'[j] = None => status'[j] = "PROCESSING"
  <2>1. CASE Claim(w)
    BY <1>1, <1>2, <2>1 DEF Claim, Goto
  <2>2. CASE NewTempDir(w) \/ OpenCsv(w) \/ Package(w) \/ Raise(w) \/ RunFails(w)
    <3>1. /\ UNCHANGED <<status, report, final, task>> /\ pc[w] \in Trying \cup {"claimed"}
          /\ pc'[w] \notin {"finish", "mark"}
      BY <1>2, <2>2 DEF NewTempDir, OpenCsv, Package, Raise, RunFails, SelfInflicted, Goto,
         Trying, db, storage
    <3> QED
      BY <1>1, <3>1 DEF HInv, OrphansSayProcessing, IInv, Phases
  <2>3. CASE FinishCsv(w) \/ PublishRemove(w) \/ PublishReplace(w)
    <3>1. /\ UNCHANGED <<status, report, task>> /\ pc[w] \in Trying
          /\ pc'[w] \notin {"finish", "undo", "mark"}
      BY <1>2, <2>3 DEF FinishCsv, PublishRemove, PublishReplace, Goto, Trying, db
    <3> QED
      BY <3>1 DEF HInv, IInv, Phases
  <2>4. CASE Record(w)
    <3>1. checksum[w] = [by |-> w, data |-> "full"]
      BY <2>4 DEF Record, HInv, IInv, WorkingDirs
    <3>2. [by |-> w, data |-> "full"] \in Zip
      BY DEF Zip, Data
    <3>3. checksum[w] # None
      BY <3>1, <3>2, NoneAssumption
    <3> QED
      BY <1>1, <1>2, <2>4, <3>3 DEF Record, Goto
  <2>5. CASE RaiseLate(w) \/ Finish(w)
    <3>1. /\ UNCHANGED <<status, report, final, task>> /\ pc[w] = "finish"
          /\ pc'[w] \notin {"finish", "mark"}
      BY <1>2, <2>5 DEF RaiseLate, Finish, Goto, db, storage
    <3> QED
      BY <1>1, <3>1 DEF HInv, Handlers
  <2>6. CASE Undo(w)
    BY <1>1, <1>2, <2>6 DEF Undo, Goto, HInv, Handlers, db
  <2>7. CASE MarkFailed(w)
    BY <1>1, <1>2, <2>7 DEF MarkFailed, Goto, HInv, Handlers, storage
  <2>8. CASE Ack(w)
    BY <1>1, <1>2, <2>8 DEF Ack, Release, HInv, OrphansSayProcessing, db, storage
  <2> QED
    BY <2>1, <2>2, <2>3, <2>4, <2>5, <2>6, <2>7, <2>8 DEF RunStep
<1>5. Handlers'
  BY <1>1, <1>3, <1>4 DEF HInv, Handlers
<1>6. OrphansSayProcessing'
  BY <1>3, <1>4 DEF HInv, OrphansSayProcessing
<1> QED
  BY <1>5, <1>6 DEF HInv

\* The steps of others.
LEMMA OtherHandlers ==
    ASSUME HInv, IInv',
           UNCHANGED <<pc, task>> \/ \E w \in Workers :
               /\ pc'[w] \notin {"finish", "undo", "mark"}
               /\ \A v \in Workers \ {w} : pc'[v] = pc[v] /\ task'[v] = task[v],
           \A j \in Jobs :
               /\ report'[j] = report[j] /\ final'[j] \in {final[j], None}
               /\ \/ status'[j] = status[j]
                  \/ status[j] # "PROCESSING" /\ (final[j] = None \/ report[j] # None)
                  \/ report[j] # None
    PROVE  HInv'
<1>1. \A w \in Workers : pc[w] # "idle" => task[w] \in Jobs
  BY DEF HInv, IInv, Typed, TypeOK
<1>2. Handlers'
  BY <1>1 DEF HInv, Handlers
<1>3. OrphansSayProcessing'
  BY DEF HInv, OrphansSayProcessing
<1> QED
  BY <1>2, <1>3 DEF HInv

LEMMA HandlersKept == ASSUME SingleDelivery, HInv, [Next]_vars PROVE HInv'
<1>0. IInv'
  BY StepInvariant DEF HInv
<1>1. /\ status \in [Jobs -> Statuses] /\ final \in [Jobs -> Dir \cup {None}]
      /\ pc \in [Workers -> PCs] /\ task \in [Workers -> Jobs \cup {None}]
      /\ sweep.batch \subseteq Jobs
  BY DEF HInv, IInv, Typed, TypeOK
<1>2. ASSUME NEW w \in Workers, RunStep(w) \/ Raise(w) \/ RaiseLate(w) PROVE HInv'
  BY <1>0, <1>2, OwnHandlers
<1>3. ASSUME NEW j \in Jobs, Submit(j) PROVE HInv'
  <2>1. /\ UNCHANGED <<pc, task, report, final>> /\ status[j] = "absent"
        /\ \A i \in Jobs \ {j} : status'[i] = status[i]
    BY <1>1, <1>3 DEF Submit, worker, storage
  <2>2. final[j] = None \/ report[j] # None
    BY <2>1 DEF HInv, OrphansSayProcessing
  <2> QED
    BY <1>0, <2>1, <2>2, OtherHandlers
<1>4. ASSUME NEW w \in Workers, Take(w) \/ Escape(w) \/ Crash(w) \/ Kill(w) PROVE HInv'
  <2>1. /\ UNCHANGED <<status, report, final>> /\ pc'[w] \notin {"finish", "undo", "mark"}
        /\ \A v \in Workers \ {w} : pc'[v] = pc[v] /\ task'[v] = task[v]
    BY <1>1, <1>4 DEF Take, Deliver, Escape, Crash, Kill, Release, Goto, db, storage
  <2> QED
    BY <1>0, <2>1, OtherHandlers
<1>5. ASSUME NEW j \in Jobs, SweepDelete(j) PROVE HInv'
  <2>1. UNCHANGED <<pc, task, status, report>> /\ final' = [final EXCEPT ![j] = None]
    BY <1>5 DEF SweepDelete, worker, db
  <2> QED
    BY <1>0, <1>1, <2>1, OtherHandlers
<1>6. CASE SweepCommit
  <2>1. /\ UNCHANGED <<pc, task, report, final>>
        /\ \A j \in Jobs : j \notin sweep.batch => status'[j] = status[j]
    BY <1>6 DEF SweepCommit, worker, storage
  <2>2. \A j \in sweep.batch : report[j] # None
    BY DEF HInv, IInv, Batch
  <2> QED
    BY <1>0, <1>1, <2>1, <2>2, OtherHandlers
<1>7. CASE UNCHANGED <<pc, task, status, report, final>>
  BY <1>0, <1>7, OtherHandlers
<1> QED
  BY <1>2, <1>3, <1>4, <1>5, <1>6, <1>7
     DEF Next, vars, Enqueue, EnqueueFails, Lapse, Misfortune, Redeliver, Sweep, SweepSelect,
         SweepUnlink, SweepRmdir, SweepDies, DownloadCheck, DownloadStream, db, worker, storage

LEMMA HandlersInvariance == SingleDelivery /\ Spec => [](HInv /\ Removed)
<1> SUFFICES ASSUME SingleDelivery PROVE Spec => [](HInv /\ Removed)
  OBVIOUS
<1>1. Init => HInv /\ Removed /\ ExpiredIsGone
  BY InitInvariant DEF Init, HInv, Handlers, OrphansSayProcessing, Removed, ExpiredIsGone
<1>2. HInv /\ [Next]_vars => HInv'
  BY HandlersKept
<1>3. HInv /\ Removed /\ ExpiredIsGone /\ [Next]_vars => Removed' /\ ExpiredIsGone'
  BY RemovedKept DEF HInv
<1> QED
  BY <1>1, <1>2, <1>3, PTL DEF Spec

\* Files without a report row are those of a job that says PROCESSING, whatever
\* dies between publish and the commit, or between delete_job_dir and FAILED.
THEOREM OrphansAreOfStuckJobs == SingleDelivery /\ Spec => []OrphansSayProcessing
<1>1. HInv => OrphansSayProcessing
  BY DEF HInv
<1> QED
  BY <1>1, HandlersInvariance, PTL

\* Job statuses move along the documented arrows, and a verdict that a late
\* exception revises is about a report that is gone.
THEOREM StatusesFollowArrows == SingleDelivery /\ Spec => StatusFollowsArrows
<1> SUFFICES ASSUME SingleDelivery PROVE Spec => StatusFollowsArrows
  OBVIOUS
<1> DEFINE Along == \A j \in Jobs : status'[j] # status[j] =>
                       \/ <<status[j], status'[j]>> \in Arrows
                       \/ /\ <<status[j], status'[j]>> \in Revisions /\ "late" \in Faults
                          /\ report[j] # None /\ ~Offered(j)
<1>1. HInv /\ Removed /\ ("late" \notin Faults => SInv) /\ [Next]_vars => [Along]_vars
  <2> SUFFICES ASSUME HInv, Removed, "late" \notin Faults => SInv, Next PROVE Along
    OBVIOUS
  <2>0. /\ status \in [Jobs -> Statuses] /\ sweep.batch \subseteq Jobs
        /\ \A w \in Workers : pc[w] # "idle" => task[w] \in Jobs
        /\ \A j \in Jobs : report[j] # None => status[j] \in {"COMPLETED", "EXPIRED", "FAILED"}
    BY DEF HInv, IInv, Typed, TypeOK, Reports
  <2>1. ASSUME NEW i \in Jobs, Submit(i) PROVE Along
    BY <2>0, <2>1 DEF Submit, Arrows
  <2>2. ASSUME NEW w \in Workers, Claim(w) PROVE Along
    BY <2>0, <2>2 DEF HInv, IInv, Phases, Claim, Arrows
  <2>3. ASSUME NEW w \in Workers, Record(w) PROVE Along
    BY <2>0, <2>3 DEF HInv, IInv, Phases, Record, Arrows, Trying
  <2>4. ASSUME NEW w \in Workers, MarkFailed(w) PROVE Along
    <3>1. /\ task[w] \in Jobs /\ final[task[w]] = None
          /\ status[task[w]] = "PROCESSING" \/ report[task[w]] # None
      BY <2>0, <2>4 DEF HInv, Handlers, MarkFailed
    <3>2. "late" \notin Faults => status[task[w]] = "PROCESSING"
      BY <2>4 DEF SInv, Strict, MarkFailed
    <3>3. /\ status'[task[w]] = "FAILED"
          /\ \A j \in Jobs : j # task[w] => status'[j] = status[j]
      BY <2>0, <2>4, <3>1 DEF MarkFailed
    <3>4. CASE status[task[w]] = "PROCESSING"
      BY <3>3, <3>4 DEF Arrows
    <3>5. CASE status[task[w]] # "PROCESSING"
      BY <2>0, <3>1, <3>2, <3>3, <3>5 DEF Revisions, Offered, HasZip
    <3> QED
      BY <3>4, <3>5
  <2>5. ASSUME SweepCommit PROVE Along
    <3>1. \A j \in sweep.batch : final[j] = None /\ report[j] # None
      BY <2>5 DEF HInv, IInv, Batch, Removed, SweepCommit
    <3>2. "late" \notin Faults => \A j \in sweep.batch : status[j] = "COMPLETED"
      BY DEF SInv, Strict
    <3>3. \A j \in Jobs : status'[j] = IF j \in sweep.batch THEN "EXPIRED" ELSE status[j]
      BY <2>5 DEF SweepCommit
    <3> QED
      BY <2>0, <3>1, <3>2, <3>3 DEF Arrows, Revisions, Offered, HasZip
  <2>6. CASE UNCHANGED status
    BY <2>6
  <2> QED
    BY <2>1, <2>2, <2>3, <2>4, <2>5, <2>6
       DEF Next, Enqueue, EnqueueFails, Lapse, Take, Deliver, RunStep, NewTempDir, OpenCsv,
           FinishCsv, Package, PublishRemove, PublishReplace, RunFails, Finish, Undo, Ack,
           Misfortune, Raise, RaiseLate, Escape, Crash, Kill, Redeliver, Sweep, SweepSelect,
           SweepDelete, SweepUnlink, SweepRmdir, SweepDies, DownloadCheck, DownloadStream, db
<1> HIDE DEF Along
<1>2. CASE "late" \in Faults
  <2>1. HInv /\ Removed /\ [Next]_vars => [Along]_vars
    BY <1>1, <1>2
  <2> QED
    BY <2>1, HandlersInvariance, PTL DEF Spec, StatusFollowsArrows, Along
<1>3. CASE "late" \notin Faults
  <2>1. OrderlyFaults
    BY <1>3 DEF OrderlyFaults, SingleDelivery
  <2>2. Spec => []SInv
    BY <2>1, StrictInvariance
  <2>3. HInv /\ Removed /\ SInv /\ [Next]_vars => [Along]_vars
    BY <1>1
  <2> QED
    BY <2>2, <2>3, HandlersInvariance, PTL DEF Spec, StatusFollowsArrows, Along
<1> QED
  BY <1>2, <1>3

-----------------------------------------------------------------------------
(* Offers.  When retention leaves the temp dir of a run alone as well, what  *)
(* a job says and what can be downloaded go together, and the pipeline does  *)
(* what JobLifecycle promises.                                              *)

CalmFaults == Faults \cap {"redeliver", "late", "overlap"} = {}

\* The ZIP a run is about to publish is the one it hashed ...
Packed ==
    \A w \in Workers :
        pc[w] \in {"publish", "replace"} /\ tmp[task[w]] # None =>
            tmp[task[w]].zip = checksum[w]

\* ... and it is in place before the run says so.
Placed ==
    \A w \in Workers : pc[w] = "record" =>
        final[task[w]] # None /\ final[task[w]].zip = checksum[w]

OnOffer ==
    \A j \in Jobs : status[j] = "COMPLETED" /\ ~aged[j] =>
        report[j] # None /\ final[j] # None /\ final[j].zip = report[j]

\* Retention is after aged reports only, and has deleted what it is through with.
Swept ==
    /\ sweep.todo \subseteq sweep.batch
    /\ sweep.at # "delete" => sweep.todo = {}
    /\ \A j \in sweep.batch : aged[j] /\ (j \notin sweep.todo => final[j] = None)
    /\ \A j \in Jobs : status[j] = "EXPIRED" => aged[j]

CInv == SInv /\ Packed /\ Placed /\ OnOffer /\ Swept

LEMMA ApiCalm ==
    ASSUME CInv, NEW j \in Jobs,
           Submit(j) \/ Enqueue(j) \/ EnqueueFails(j) \/ Lapse(j)
    PROVE  (Packed /\ Placed /\ OnOffer /\ Swept)'
<1>1. UNCHANGED <<pc, task, checksum, tmp, final, sweep, report>>
  BY DEF Submit, Enqueue, EnqueueFails, Lapse, worker, storage, db, queue
<1>2. \A i \in Jobs : /\ aged[i] => aged'[i]
                      /\ status'[i] = status[i] \/ status'[i] = "PENDING"
  BY DEF Submit, Enqueue, EnqueueFails, Lapse, db, CInv, SInv, Strict, IInv, Typed, TypeOK
<1>3. sweep.batch \subseteq Jobs
  BY DEF CInv, SInv, Strict, IInv, Typed, TypeOK
<1> QED
  BY <1>1, <1>2, <1>3 DEF CInv, Packed, Placed, OnOffer, Swept

\* A step of a worker that leaves the directories and the rows alone.
LEMMA QuietCalm ==
    ASSUME CInv, NEW w \in Workers,
           UNCHANGED <<status, report, aged, tmp, final, sweep>>,
           \A v \in Workers \ {w} :
               pc'[v] = pc[v] /\ task'[v] = task[v] /\ checksum'[v] = checksum[v],
           pc'[w] \notin {"publish", "replace", "record"}
    PROVE  (Packed /\ Placed /\ OnOffer /\ Swept)'
  BY DEF CInv, Packed, Placed, OnOffer, Swept

\* What two workers hold is not the same.
LEMMA Apart ==
    ASSUME IInv, NEW w \in Workers, NEW v \in Workers, v # w, pc[w] # "idle"
    PROVE  task[w] \in Jobs /\ task[v] # task[w]
  BY DEF IInv, Typed, TypeOK, Tokens

\* The steps that change nothing but the worker.
LEMMA HandlingCalm ==
    ASSUME CInv, NEW w \in Workers,
           \/ \E j \in Jobs : Deliver(w, j)
           \/ RunFails(w) \/ Raise(w) \/ Finish(w) \/ Escape(w)
           \/ Ack(w) \/ Crash(w) \/ Kill(w)
    PROVE  (Packed /\ Placed /\ OnOffer /\ Swept)'
<1>1. pc \in [Workers -> PCs] /\ task \in [Workers -> Jobs \cup {None}]
      /\ checksum \in [Workers -> Zip \cup {None}]
  BY DEF CInv, SInv, Strict, IInv, Typed, TypeOK
<1>2. UNCHANGED <<status, report, aged, tmp, final, sweep>>
  BY DEF Deliver, RunFails, Raise, Finish, Escape, Ack, Crash, Kill, db, storage
<1>3. pc'[w] \notin {"publish", "replace", "record"}
  BY <1>1 DEF Deliver, RunFails, Raise, Finish, Escape, Ack, Crash, Kill, Release, Goto
<1>4. \A v \in Workers \ {w} :
          pc'[v] = pc[v] /\ task'[v] = task[v] /\ checksum'[v] = checksum[v]
  BY <1>1 DEF Deliver, RunFails, Raise, Finish, Escape, Ack, Crash, Kill, Release, Goto
<1> QED
  BY <1>2, <1>3, <1>4, QuietCalm

\* Claims and outcomes: the rows change.
LEMMA RowsCalm ==
    ASSUME CInv, NEW w \in Workers, Claim(w) \/ Record(w) \/ MarkFailed(w)
    PROVE  (Packed /\ Placed /\ OnOffer /\ Swept)'
<1> DEFINE j == task[w]
<1>1. /\ pc \in [Workers -> PCs] /\ j \in Jobs /\ status \in [Jobs -> Statuses]
      /\ report \in [Jobs -> Zip \cup {None}] /\ sweep.batch \subseteq Jobs
  BY DEF CInv, SInv, Strict, IInv, Typed, TypeOK, Tokens, Claim, Record, MarkFailed
<1>2. /\ UNCHANGED <<aged, tmp, final, sweep, task, checksum>>
      /\ pc'[w] \notin {"publish", "replace", "record"}
      /\ \A v \in Workers \ {w} : pc'[v] = pc[v]
  BY <1>1 DEF Claim, Record, MarkFailed, Goto, storage
<1>3. (Packed /\ Placed /\ Swept)'
  <2>1. \A i \in Jobs : status'[i] = "EXPIRED" => status[i] = "EXPIRED"
    BY <1>1 DEF Claim, Record, MarkFailed
  <2> QED
    BY <1>2, <2>1 DEF CInv, Packed, Placed, Swept
<1>4. OnOffer'
  <2>1. CASE Claim(w) \/ MarkFailed(w)
    BY <1>1, <1>2, <2>1 DEF Claim, MarkFailed, CInv, OnOffer
  <2>2. CASE Record(w)
    <3>1. checksum[w] = [by |-> w, data |-> "full"]
      BY <2>2 DEF Record, CInv, SInv, Strict, IInv, WorkingDirs
    <3>2. checksum[w] \in Zip
      BY <3>1 DEF Zip, Data
    <3>3. report'[j] = checksum[w] /\ report'[j] # None
      BY <1>1, <2>2, <3>2, NoneAssumption DEF Record
    <3>4. final'[j] # None /\ final'[j].zip = checksum[w]
      BY <1>2, <2>2 DEF Record, CInv, Placed
    <3>5. \A i \in Jobs \ {j} : status'[i] = status[i] /\ report'[i] = report[i]
      BY <1>1, <2>2 DEF Record
    <3> QED
      BY <1>2, <3>3, <3>4, <3>5 DEF CInv, OnOffer
  <2> QED
    BY <2>1, <2>2, <1>2 DEF Claim, Record, MarkFailed
<1> QED
  BY <1>3, <1>4

\* A step of a run changes the directories of its own job, which is PROCESSING,
\* and is none that retention is after.
LEMMA OwnDirsCalm ==
    ASSUME CInv, NEW w \in Workers, pc[w] \in Trying \cup {"claimed", "undo", "mark"},
           UNCHANGED <<status, report, aged, sweep, task>>,
           \A v \in Workers \ {w} : pc'[v] = pc[v] /\ checksum'[v] = checksum[v],
           \A j \in Jobs \ {task[w]} : tmp'[j] = tmp[j] /\ final'[j] = final[j],
           pc'[w] \in {"publish", "replace"} /\ tmp'[task[w]] # None =>
               tmp'[task[w]].zip = checksum'[w],
           pc'[w] = "record" => final'[task[w]] # None /\ final'[task[w]].zip = checksum'[w]
    PROVE  (Packed /\ Placed /\ OnOffer /\ Swept)'
<1>1. task[w] \in Jobs /\ status[task[w]] = "PROCESSING"
  BY DEF CInv, SInv, Strict, IInv, Typed, TypeOK, Tokens, Phases, Trying
<1>2. \A v \in Workers \ {w} : pc[v] # "idle" =>
          task[v] # task[w] /\ task[v] \in Jobs
  BY DEF CInv, SInv, Strict, IInv, Typed, TypeOK, Tokens, Trying
<1>3. Packed'
  BY <1>2 DEF CInv, Packed
<1>4. Placed'
  BY <1>2 DEF CInv, Placed
<1>5. OnOffer'
  BY <1>1 DEF CInv, OnOffer
<1>6. \A j \in sweep.batch : j \in Jobs /\ j # task[w]
  BY <1>1 DEF CInv, SInv, Strict, IInv, Typed, TypeOK, Batch
<1>7. Swept'
  BY <1>6 DEF CInv, Swept
<1> QED
  BY <1>3, <1>4, <1>5, <1>7

LEMMA RunCalm ==
    ASSUME CInv, NEW w \in Workers,
           \/ NewTempDir(w) \/ OpenCsv(w) \/ FinishCsv(w) \/ Package(w)
           \/ PublishRemove(w) \/ PublishReplace(w) \/ Undo(w)
    PROVE  (Packed /\ Placed /\ OnOffer /\ Swept)'
<1>1. /\ pc \in [Workers -> PCs] /\ checksum \in [Workers -> Zip \cup {None}]
      /\ tmp \in [Jobs -> Dir \cup {None}] /\ final \in [Jobs -> Dir \cup {None}]
  BY DEF CInv, SInv, Strict, IInv, Typed, TypeOK
<1>2. /\ pc[w] \in Trying \cup {"claimed", "undo", "mark"}
      /\ UNCHANGED <<status, report, aged, sweep, task>>
  BY DEF NewTempDir, OpenCsv, FinishCsv, Package, PublishRemove, PublishReplace, Undo, db, Trying
<1>3. task[w] \in Jobs
  BY <1>2 DEF CInv, SInv, Strict, IInv, Typed, TypeOK, Tokens, Trying
<1>4. \A v \in Workers \ {w} : pc'[v] = pc[v] /\ checksum'[v] = checksum[v]
  BY <1>1 DEF NewTempDir, OpenCsv, FinishCsv, Package, PublishRemove, PublishReplace, Undo, Goto
<1>5. \A j \in Jobs \ {task[w]} : tmp'[j] = tmp[j] /\ final'[j] = final[j]
  BY <1>1, <1>3 DEF NewTempDir, OpenCsv, FinishCsv, Package, PublishRemove, PublishReplace, Undo
<1>6. CASE NewTempDir(w) \/ OpenCsv(w) \/ FinishCsv(w) \/ Undo(w)
  <2>1. pc'[w] \in {"discover", "extract", "package", "mark"}
    BY <1>1, <1>6 DEF NewTempDir, OpenCsv, FinishCsv, Undo, Goto
  <2> QED
    BY <1>2, <1>4, <1>5, <2>1, OwnDirsCalm
<1>7. CASE Package(w)
  <2>1. pc'[w] = "publish" /\ tmp'[task[w]].zip = checksum'[w]
    <3>1. tmp[task[w]] \in Dir
      BY <1>1, <1>3, <1>7 DEF Package, HasCsv
    <3>2. tmp'[task[w]] = [tmp[task[w]] EXCEPT !.zip = checksum'[w]]
      BY <1>1, <1>3, <1>7 DEF Package
    <3> QED
      BY <1>1, <1>7, <3>1, <3>2 DEF Package, Goto, Dir
  <2> QED
    BY <1>2, <1>4, <1>5, <2>1, OwnDirsCalm
<1>8. CASE PublishRemove(w)
  <2>1. pc'[w] = "replace" /\ tmp' = tmp /\ checksum' = checksum /\ pc[w] = "publish"
    BY <1>1, <1>8 DEF PublishRemove, Goto
  <2>2. tmp'[task[w]] # None => tmp'[task[w]].zip = checksum'[w]
    BY <2>1 DEF CInv, Packed
  <2> QED
    BY <1>2, <1>4, <1>5, <2>1, <2>2, OwnDirsCalm
<1>9. CASE PublishReplace(w)
  <2>1. /\ pc'[w] = "record" /\ checksum' = checksum /\ pc[w] = "replace"
        /\ tmp[task[w]] # None /\ final'[task[w]] = tmp[task[w]]
    BY <1>1, <1>3, <1>9 DEF PublishReplace, Goto
  <2>2. final'[task[w]] # None /\ final'[task[w]].zip = checksum'[w]
    BY <2>1 DEF CInv, Packed
  <2> QED
    BY <1>2, <1>4, <1>5, <2>1, <2>2, OwnDirsCalm
<1> QED
  BY <1>6, <1>7, <1>8, <1>9

\* Retention, when it finds no run at work.
LEMMA SweepCalm ==
    ASSUME CalmFaults, CInv,
           Sweep \/ SweepDies
    PROVE  (Packed /\ Placed /\ OnOffer /\ Swept)'
<1>1. /\ tmp \in [Jobs -> Dir \cup {None}] /\ final \in [Jobs -> Dir \cup {None}]
      /\ sweep.batch \subseteq Jobs /\ sweep.todo \subseteq Jobs
      /\ sweep \in [at : {"idle", "delete", "rmdir", "commit"},
                    todo : SUBSET Jobs, batch : SUBSET Jobs]
      /\ \A w \in Workers : pc[w] \in Trying => task[w] \in Jobs
  BY DEF CInv, SInv, Strict, IInv, Typed, TypeOK, Tokens, Trying
<1>2. CASE SweepSelect
  <2>1. sweep' = [at |-> "delete", todo |-> Lapsed, batch |-> Lapsed] /\ \A j \in Lapsed : aged[j]
    BY <1>2 DEF SweepSelect, Lapsed
  <2>2. UNCHANGED <<db, worker, storage>>
    BY <1>2 DEF SweepSelect
  <2> QED
    BY <2>1, <2>2 DEF CInv, Packed, Placed, OnOffer, Swept, db, worker, storage
<1>3. CASE \E j \in Jobs : SweepDelete(j)
  <2>1. PICK j \in Jobs : SweepDelete(j)
    BY <1>3
  <2>2. /\ UNCHANGED <<db, worker, tmp>> /\ j \in sweep.todo /\ sweep.at = "delete"
        /\ final' = [final EXCEPT ![j] = None]
        /\ sweep' = [sweep EXCEPT !.todo = sweep.todo \ {j}]
    BY <2>1 DEF SweepDelete
  <2>3. sweep'.todo = sweep.todo \ {j} /\ sweep'.batch = sweep.batch /\ sweep'.at = "delete"
    BY <1>1, <2>2
  <2>4. aged[j] /\ status[j] = "COMPLETED"
    BY <2>2 DEF CInv, SInv, Strict, IInv, Batch, Swept
  <2>5. Packed'
    BY <2>2 DEF CInv, Packed, worker
  <2>6. Placed'
    <3>1. \A w \in Workers : pc[w] = "record" => task[w] # j /\ task[w] \in Jobs
      BY <1>1, <2>4 DEF CInv, SInv, Strict, IInv, Phases, Trying
    <3> QED
      BY <1>1, <2>2, <3>1 DEF CInv, Placed, worker
  <2>7. OnOffer'
    BY <1>1, <2>2, <2>4 DEF CInv, OnOffer, db
  <2>8. Swept'
    BY <1>1, <2>2, <2>3 DEF CInv, Swept, db
  <2> QED
    BY <2>5, <2>6, <2>7, <2>8
<1>4. CASE SweepUnlink
  <2>1. /\ UNCHANGED <<db, worker, final>> /\ sweep.todo = {} /\ sweep.at = "delete"
        /\ sweep' = [sweep EXCEPT !.at = "rmdir"]
    BY <1>4 DEF SweepUnlink
  <2>2. \A j \in Jobs : InUse(j) => tmp[j] = None
    BY <1>4 DEF SweepUnlink, Fault, CalmFaults
  <2>3. \A j \in Jobs : tmp[j] = None => tmp'[j] = None
    BY <1>4 DEF SweepUnlink
  <2>4. Packed'
    BY <1>1, <2>1, <2>2, <2>3 DEF Packed, InUse, worker, Trying
  <2>5. Swept'
    BY <1>1, <2>1 DEF CInv, Swept, db
  <2> QED
    BY <2>1, <2>4, <2>5 DEF CInv, Placed, OnOffer, db, worker
<1>5. CASE SweepRmdir
  <2>1. /\ UNCHANGED <<db, worker, final>> /\ sweep.at = "rmdir"
        /\ sweep' = [sweep EXCEPT !.at = "commit"]
        /\ \A j \in Jobs : tmp'[j] \in {tmp[j], None}
    BY <1>5 DEF SweepRmdir
  <2>2. Packed'
    BY <1>1, <2>1 DEF CInv, Packed, worker, Trying
  <2>3. Swept'
    BY <1>1, <2>1 DEF CInv, Swept, db
  <2> QED
    BY <2>1, <2>2, <2>3 DEF CInv, Placed, OnOffer, db, worker
<1>6. CASE SweepCommit \/ SweepDies
  <2>1. /\ UNCHANGED <<report, aged, worker, storage>>
        /\ sweep' = [at |-> "idle", todo |-> {}, batch |-> {}]
        /\ \A j \in Jobs : status'[j] = status[j] \/ (status'[j] = "EXPIRED" /\ j \in sweep.batch)
    BY <1>6 DEF SweepCommit, SweepDies, SweepEnd, db, CInv, SInv, Strict, IInv, Typed, TypeOK
  <2>2. Swept'
    BY <2>1 DEF CInv, Swept
  <2> QED
    BY <2>1, <2>2 DEF CInv, Packed, Placed, OnOffer, worker, storage
<1> QED
  BY <1>2, <1>3, <1>4, <1>5, <1>6 DEF Sweep

LEMMA CalmKept == CalmFaults /\ CInv /\ [Next]_vars => CInv'
<1> SUFFICES ASSUME CalmFaults, CInv, [Next]_vars PROVE CInv'
  OBVIOUS
<1>1. SInv'
  BY StepStrict DEF CInv, CalmFaults, OrderlyFaults
<1>2. CASE UNCHANGED vars
  BY <1>1, <1>2 DEF CInv, Packed, Placed, OnOffer, Swept, vars, db, worker, storage
<1>3. ASSUME NEW w \in Workers, Take(w) \/ RunStep(w) \/ Misfortune(w)
      PROVE  (Packed /\ Placed /\ OnOffer /\ Swept)'
  <2>1. ~RaiseLate(w) /\ ~Redeliver(w)
    BY DEF CalmFaults, RaiseLate, Redeliver, Fault
  <2> QED
    BY <1>3, <2>1, HandlingCalm, RowsCalm, RunCalm DEF Take, RunStep, Misfortune
<1>4. ASSUME NEW c \in Clients, DownloadStream(c) \/ \E j \in Jobs : DownloadCheck(c, j)
      PROVE  (Packed /\ Placed /\ OnOffer /\ Swept)'
  BY <1>4 DEF DownloadStream, DownloadCheck, CInv, Packed, Placed, OnOffer, Swept, db, worker,
              storage
<1> QED
  BY <1>1, <1>2, <1>3, <1>4, ApiCalm, SweepCalm DEF Next, CInv

LEMMA CalmInvariance == CalmFaults /\ Spec => []CInv
<1> SUFFICES ASSUME CalmFaults PROVE Spec => []CInv
  OBVIOUS
<1>1. Init => CInv
  BY InitInvariant DEF CInv, SInv, Strict, Init, Packed, Placed, OnOffer, Swept
<1>2. CInv /\ [Next]_vars => CInv'
  BY CalmKept
<1> QED
  BY <1>1, <1>2, PTL DEF Spec

\* A COMPLETED job is downloadable until its report has aged, as long as nothing
\* clears the temp dir of a run at work.
THEOREM CompletedJobsAreOffered == CalmFaults /\ Spec => []CompletedIsOffered
<1>1. CInv => CompletedIsOffered
  <2> SUFFICES ASSUME CInv, NEW j \in Jobs
               PROVE  /\ status[j] = "COMPLETED" /\ ~aged[j] =>
                            Offered(j) /\ final[j].zip = report[j]
                      /\ report[j] # None => status[j] \in {"COMPLETED", "EXPIRED"}
    BY DEF CompletedIsOffered
  <2>1. status[j] = "COMPLETED" /\ ~aged[j] =>
            report[j] # None /\ final[j] # None /\ final[j].zip = report[j]
    BY DEF CInv, OnOffer
  <2>2. report[j] # None => status[j] \in {"COMPLETED", "EXPIRED"}
    BY DEF CInv, SInv, Strict, IInv, Reports
  <2> QED
    BY <2>1, <2>2 DEF Offered, HasZip
<1> QED
  BY <1>1, CalmInvariance, PTL

-----------------------------------------------------------------------------
(* JobLifecycle.                                                            *)

Offers == [j \in Jobs |-> Offered(j)]

\* The steps that do not touch what a download needs.
LEMMA OffersStay ==
    ASSUME UNCHANGED <<report, final>> PROVE Offers' = Offers
  BY DEF Offers, Offered, HasZip

\* A run changes the directory of a job that has no report yet.
LEMMA OffersOfOthers ==
    ASSUME NEW j \in Jobs, report[j] = None, report' = report,
           \A i \in Jobs \ {j} : final'[i] = final[i]
    PROVE  Offers' = Offers
<1>1. \A i \in Jobs : Offered(i)' = Offered(i)
  <2> TAKE i \in Jobs
  <2>1. CASE i = j
    BY <2>1 DEF Offered
  <2>2. CASE i # j
    BY <2>2 DEF Offered, HasZip
  <2> QED
    BY <2>1, <2>2
<1> QED
  BY <1>1 DEF Offers

\* One job's offer comes or goes.
LEMMA OneOffer ==
    ASSUME NEW j \in Jobs, NEW on \in BOOLEAN, Offered(j)' <=> on,
           \A i \in Jobs \ {j} : Offered(i)' = Offered(i)
    PROVE  Offers' = [Offers EXCEPT ![j] = on]
<1>1. Offered(j)' = on
  <2>1. Offered(j)' \in BOOLEAN
    BY DEF Offered
  <2> QED
    BY <2>1
<1> QED
  BY <1>1 DEF Offers

LEMMA ApiImplements ==
    ASSUME CInv, NEW j \in Jobs, Submit(j) \/ Enqueue(j) \/ EnqueueFails(j) \/ Lapse(j)
    PROVE  [Lifecycle!Next]_(Lifecycle!vars)
<1>1. Offers' = Offers
  BY OffersStay DEF Submit, Enqueue, EnqueueFails, Lapse, db, storage
<1>2. CASE Submit(j)
  <2>1. Lifecycle!Accept(j)
    BY <1>1, <1>2 DEF Submit, Lifecycle!Accept, Offers
  <2> QED
    BY <2>1 DEF Lifecycle!Next
<1>3. CASE Lapse(j)
  <2>1. Lifecycle!Lapse(j)
    BY <1>1, <1>3 DEF Lapse, Lifecycle!Lapse, Offers
  <2> QED
    BY <2>1 DEF Lifecycle!Next
<1>4. CASE Enqueue(j) \/ EnqueueFails(j)
  BY <1>1, <1>4 DEF Enqueue, EnqueueFails, db, Lifecycle!vars, Offers
<1> QED
  BY <1>2, <1>3, <1>4

\* What a worker does to the rows is a step of the job's life ...
LEMMA RowsImplement ==
    ASSUME CInv, NEW w \in Workers, Claim(w) \/ Record(w) \/ MarkFailed(w)
    PROVE  Lifecycle!Next
<1>1. PICK j \in Jobs : j = task[w]
  BY DEF CInv, SInv, Strict, IInv, Typed, TypeOK, Tokens, Claim, Record, MarkFailed
<1>2. CASE Claim(w)
  <2>1. status[j] = "PENDING" /\ status' = [status EXCEPT ![j] = "PROCESSING"] /\ aged' = aged
    BY <1>1, <1>2 DEF Claim, CInv, SInv, Strict, IInv, Phases
  <2>2. Offers' = Offers
    BY <1>2, OffersStay DEF Claim, storage
  <2>3. Lifecycle!Start(j)
    BY <2>1, <2>2 DEF Lifecycle!Start, Offers
  <2> QED
    BY <1>1, <2>3 DEF Lifecycle!Next
<1>3. CASE MarkFailed(w)
  <2>1. status[j] = "PROCESSING" /\ status' = [status EXCEPT ![j] = "FAILED"] /\ aged' = aged
    BY <1>1, <1>3 DEF MarkFailed, CInv, SInv, Strict, IInv, Phases
  <2>2. Offers' = Offers
    BY <1>3, OffersStay DEF MarkFailed, storage
  <2>3. Lifecycle!Fail(j)
    BY <2>1, <2>2 DEF Lifecycle!Fail, Offers
  <2> QED
    BY <1>1, <2>3 DEF Lifecycle!Next
<1>4. CASE Record(w)
  <2>1. /\ status[j] = "PROCESSING" /\ status' = [status EXCEPT ![j] = "COMPLETED"] /\ aged' = aged
        /\ report' = [report EXCEPT ![j] = checksum[w]] /\ final' = final
    BY <1>1, <1>4 DEF Record, CInv, SInv, Strict, IInv, Phases, Trying, storage
  <2>2. checksum[w] = [by |-> w, data |-> "full"]
    BY <1>1, <1>4 DEF Record, CInv, SInv, Strict, IInv, WorkingDirs
  <2>3. checksum[w] # None
    BY <2>2, NoneAssumption DEF Zip, Data
  <2>4. final[j] # None /\ final[j].zip = checksum[w]
    BY <1>1, <1>4 DEF Record, CInv, Placed
  <2>5. report \in [Jobs -> Zip \cup {None}]
    BY DEF CInv, SInv, Strict, IInv, Typed, TypeOK
  <2>6. Offered(j)' <=> TRUE
    <3>1. report'[j] = checksum[w] /\ final'[j] = final[j]
      BY <1>1, <2>1, <2>5
    <3> QED
      BY <2>3, <2>4, <3>1 DEF Offered, HasZip
  <2>7. \A i \in Jobs \ {j} : Offered(i)' = Offered(i)
    BY <1>1, <2>1, <2>5 DEF Offered, HasZip
  <2>8. Offers' = [Offers EXCEPT ![j] = TRUE]
    BY <1>1, <2>6, <2>7, OneOffer
  <2>9. Lifecycle!Complete(j)
    BY <2>1, <2>8 DEF Lifecycle!Complete, Offers
  <2> QED
    BY <1>1, <2>9 DEF Lifecycle!Next
<1> QED
  BY <1>2, <1>3, <1>4

\* ... and everything else it does is invisible to the owner.
LEMMA RunImplements ==
    ASSUME CalmFaults, CInv, NEW w \in Workers, Take(w) \/ RunStep(w) \/ Misfortune(w)
    PROVE  [Lifecycle!Next]_(Lifecycle!vars)
<1>1. CASE Claim(w) \/ Record(w) \/ MarkFailed(w)
  BY <1>1, RowsImplement
<1>2. CASE \/ Take(w) \/ NewTempDir(w) \/ OpenCsv(w) \/ Package(w) \/ RunFails(w) \/ Finish(w)
           \/ Ack(w) \/ Misfortune(w)
  <2>1. UNCHANGED <<status, aged, report, final>>
    BY <1>2 DEF Take, Deliver, NewTempDir, OpenCsv, Package, RunFails, Finish, Ack, Misfortune,
       Raise, RaiseLate, Escape, Crash, Kill, Redeliver, db, storage
  <2> QED
    BY <2>1, OffersStay DEF Lifecycle!vars, Offers
<1>3. CASE FinishCsv(w) \/ PublishRemove(w) \/ PublishReplace(w) \/ Undo(w)
  <2>1. pc[w] \in Trying \cup {"undo"}
    BY <1>3 DEF FinishCsv, PublishRemove, PublishReplace, Undo, Trying
  <2>2. task[w] \in Jobs /\ status[task[w]] = "PROCESSING"
    BY <2>1 DEF CInv, SInv, Strict, IInv, Typed, TypeOK, Tokens, Phases, Trying
  <2>3. report[task[w]] = None
    BY <2>2 DEF CInv, SInv, Strict, IInv, Reports
  <2>4. final \in [Jobs -> Dir \cup {None}]
    BY DEF CInv, SInv, Strict, IInv, Typed, TypeOK
  <2>5. /\ UNCHANGED <<status, aged, report>>
        /\ \A i \in Jobs \ {task[w]} : final'[i] = final[i]
    BY <1>3, <2>2, <2>4 DEF FinishCsv, PublishRemove, PublishReplace, Undo, db
  <2> QED
    BY <2>2, <2>3, <2>5, OffersOfOthers DEF Lifecycle!vars, Offers
<1> QED
  BY <1>1, <1>2, <1>3 DEF RunStep

LEMMA SweepImplements ==
    ASSUME CalmFaults, CInv, Sweep \/ SweepDies
    PROVE  [Lifecycle!Next]_(Lifecycle!vars)
<1>1. CASE \E j \in Jobs : SweepDelete(j)
  <2>1. PICK j \in Jobs : SweepDelete(j)
    BY <1>1
  <2>2. /\ j \in sweep.todo /\ final' = [final EXCEPT ![j] = None]
        /\ UNCHANGED <<status, aged, report>>
    BY <2>1 DEF SweepDelete, db
  <2>3. aged[j] /\ status[j] = "COMPLETED"
    BY <2>2 DEF CInv, SInv, Strict, IInv, Batch, Swept
  <2>4. final \in [Jobs -> Dir \cup {None}]
    BY DEF CInv, SInv, Strict, IInv, Typed, TypeOK
  <2>5. Offered(j)' <=> FALSE
    BY <2>2, <2>4 DEF Offered, HasZip
  <2>6. \A i \in Jobs \ {j} : Offered(i)' = Offered(i)
    BY <2>2, <2>4 DEF Offered, HasZip
  <2>7. Offers' = [Offers EXCEPT ![j] = FALSE]
    BY <2>5, <2>6, OneOffer
  <2>8. Lifecycle!Withdraw(j)
    BY <2>2, <2>3, <2>7 DEF Lifecycle!Withdraw, Offers
  <2> QED
    BY <2>8 DEF Lifecycle!Next
<1>2. CASE SweepCommit
  <2>1. /\ sweep.at = "commit" /\ UNCHANGED <<report, aged, final>>
        /\ status' = [j \in Jobs |-> IF j \in sweep.batch THEN "EXPIRED" ELSE status[j]]
    BY <1>2 DEF SweepCommit, storage
  <2>2. Offers' = Offers
    BY <2>1, OffersStay
  <2>3. sweep.batch \subseteq Jobs
    BY DEF CInv, SInv, Strict, IInv, Typed, TypeOK
  <2>4. \A j \in sweep.batch : aged[j] /\ status[j] = "COMPLETED" /\ final[j] = None
    BY <2>1 DEF CInv, SInv, Strict, IInv, Batch, Swept
  <2>5. \A j \in sweep.batch : ~Offers[j]
    BY <2>3, <2>4 DEF Offers, Offered, HasZip
  <2>6. Lifecycle!Expire(sweep.batch)
    BY <2>1, <2>2, <2>4, <2>5 DEF Lifecycle!Expire, Offers
  <2> QED
    BY <2>3, <2>6 DEF Lifecycle!Next
<1>3. CASE SweepSelect \/ SweepUnlink \/ SweepRmdir \/ SweepDies
  <2>1. UNCHANGED <<status, aged, report, final>>
    BY <1>3 DEF SweepSelect, SweepUnlink, SweepRmdir, SweepDies, db, storage
  <2> QED
    BY <2>1, OffersStay DEF Lifecycle!vars, Offers
<1> QED
  BY <1>1, <1>2, <1>3 DEF Sweep

\* The pipeline keeps the documented promise about a job: its report is on offer
\* from the commit of COMPLETED on, at once and not before, and is withdrawn
\* only when it has aged and before the job says EXPIRED.
THEOREM PipelineImplementsLifecycle == CalmFaults /\ Spec => LifecycleSpec
<1> SUFFICES ASSUME CalmFaults PROVE Spec => LifecycleSpec
  OBVIOUS
<1>1. Init => Lifecycle!Init
  <2> SUFFICES ASSUME Init PROVE Lifecycle!Init
    OBVIOUS
  <2>1. \A j \in Jobs : Offered(j) = FALSE
    BY DEF Init, Offered, HasZip
  <2> QED
    BY <2>1 DEF Init, Lifecycle!Init
<1>2. CInv /\ [Next]_vars => [Lifecycle!Next]_(Lifecycle!vars)
  <2> SUFFICES ASSUME CInv, [Next]_vars PROVE [Lifecycle!Next]_(Lifecycle!vars)
    OBVIOUS
  <2>1. CASE UNCHANGED vars
    BY <2>1, OffersStay DEF vars, db, storage, Lifecycle!vars, Offers
  <2>2. ASSUME NEW c \in Clients, DownloadStream(c) \/ \E j \in Jobs : DownloadCheck(c, j)
        PROVE  [Lifecycle!Next]_(Lifecycle!vars)
    <3>1. UNCHANGED <<status, aged, report, final>>
      BY <2>2 DEF DownloadStream, DownloadCheck, db, storage
    <3> QED
      BY <3>1, OffersStay DEF Lifecycle!vars, Offers
  <2> QED
    BY <2>1, <2>2, ApiImplements, RunImplements, SweepImplements DEF Next
<1> QED
  BY <1>1, <1>2, CalmInvariance, PTL DEF Spec, LifecycleSpec, Lifecycle!Spec

\* Retention is after aged reports only, whatever fails.
Due == \A j \in sweep.todo : aged[j]

LEMMA DeletionsAreDue == Spec => []Due
<1>1. Init => Due
  BY DEF Init, Due
<1>2. TypeOK /\ Due /\ [Next]_vars => Due'
  <2> SUFFICES ASSUME TypeOK, Due, [Next]_vars PROVE Due'
    OBVIOUS
  <2>1. ASSUME sweep' = sweep, \A j \in Jobs : aged[j] => aged'[j] PROVE Due'
    BY <2>1 DEF TypeOK, Due
  <2>2. ASSUME NEW j \in Jobs, Lapse(j) PROVE Due'
    BY <2>1, <2>2 DEF TypeOK, Lapse
  <2>3. CASE Sweep \/ SweepDies
    BY <2>3 DEF TypeOK, Due, Sweep, SweepSelect, Lapsed, SweepDelete, SweepUnlink, SweepRmdir,
       SweepCommit, SweepDies, SweepEnd, db
  <2>4. CASE UNCHANGED <<sweep, aged>>
    BY <2>1, <2>4
  <2> QED
    BY <2>2, <2>3, <2>4
       DEF Next, vars, Submit, Enqueue, EnqueueFails, Take, Deliver, RunStep, Claim, NewTempDir,
           OpenCsv, FinishCsv, Package, PublishRemove, PublishReplace, Record, RunFails, Finish,
           Undo, MarkFailed, Ack, Misfortune, Raise, RaiseLate, Escape, Crash, Kill, Redeliver,
           DownloadCheck, DownloadStream, db
<1> QED
  BY <1>1, <1>2, TypeCorrect, PTL DEF Spec

\* An offer stays when its own run is not in its handler.
LEMMA OfferKept ==
    ASSUME IInv, Due, Next, NEW j \in Jobs, Offered(j), ~aged[j],
           ~\E w \in Workers : task[w] = j /\ Undo(w)
    PROVE  Offered(j)' /\ report'[j] = report[j]
<1>1. status[j] # "PROCESSING"
  BY DEF Offered, IInv, Reports
<1>2. /\ report \in [Jobs -> Zip \cup {None}] /\ final \in [Jobs -> Dir \cup {None}]
      /\ \A w \in Workers : pc[w] \in Trying => task[w] \in Jobs /\ task[w] # j
      /\ \A w \in Workers : pc[w] = "undo" => task[w] \in Jobs
  BY <1>1 DEF IInv, Typed, TypeOK, Phases, Trying
<1> SUFFICES final'[j] = final[j] /\ report'[j] = report[j]
  BY DEF Offered, HasZip
<1>3. ASSUME NEW w \in Workers,
             FinishCsv(w) \/ PublishRemove(w) \/ PublishReplace(w) \/ Undo(w) \/ Record(w)
      PROVE  final'[j] = final[j] /\ report'[j] = report[j]
  <2>1. task[w] \in Jobs /\ task[w] # j
    BY <1>2, <1>3 DEF FinishCsv, PublishRemove, PublishReplace, Undo, Record, Trying
  <2> QED
    BY <1>2, <1>3, <2>1 DEF FinishCsv, PublishRemove, PublishReplace, Undo, Record, db, storage
<1>4. ASSUME NEW i \in Jobs, SweepDelete(i)
      PROVE  final'[j] = final[j] /\ report'[j] = report[j]
  <2>1. i # j
    BY <1>4 DEF SweepDelete, Due
  <2> QED
    BY <1>2, <1>4, <2>1 DEF SweepDelete, db
<1>5. CASE UNCHANGED <<final, report>>
  BY <1>5
<1> QED
  BY <1>3, <1>4, <1>5
     DEF Next, Submit, Enqueue, EnqueueFails, Lapse, Take, Deliver, RunStep, Claim, NewTempDir,
         OpenCsv, Package, RunFails, Finish, MarkFailed, Ack, Misfortune, Raise, RaiseLate,
         Escape, Crash, Kill, Redeliver, Sweep, SweepSelect, SweepUnlink, SweepRmdir,
         SweepCommit, SweepDies, DownloadCheck, DownloadStream, db, storage

\* Retention takes no report away before its time and no run replaces one; only the
\* handler of its own run does, after an exception that follows COMPLETED.
THEOREM OffersLast == SingleDelivery /\ Spec => OfferedUntilAged
<1> SUFFICES ASSUME SingleDelivery PROVE Spec => OfferedUntilAged
  OBVIOUS
<1> DEFINE Kept == \A j \in Jobs : Offered(j) /\ ~aged[j] =>
                      \/ Offered(j)' /\ report'[j] = report[j]
                      \/ "late" \in Faults /\ \E w \in Workers : task[w] = j /\ Undo(w)
<1>1. IInv /\ Due /\ ("late" \notin Faults => SInv) /\ [Next]_vars => [Kept]_vars
  <2> SUFFICES ASSUME IInv, Due, "late" \notin Faults => SInv, Next,
                      NEW j \in Jobs, Offered(j), ~aged[j],
                      "late" \notin Faults \/ ~\E w \in Workers : task[w] = j /\ Undo(w)
               PROVE  Offered(j)' /\ report'[j] = report[j]
    OBVIOUS
  <2>1. ~\E w \in Workers : task[w] = j /\ Undo(w)
    BY DEF SInv, Strict, IInv, Reports, Offered, Undo
  <2> QED
    BY <2>1, OfferKept
<1> HIDE DEF Kept
<1>2. CASE "late" \in Faults
  <2>1. IInv /\ Due /\ [Next]_vars => [Kept]_vars
    BY <1>1, <1>2
  <2> QED
    BY <2>1, Invariance, DeletionsAreDue, PTL DEF Spec, OfferedUntilAged, Kept
<1>3. CASE "late" \notin Faults
  <2>1. OrderlyFaults
    BY <1>3 DEF OrderlyFaults, SingleDelivery
  <2>2. Spec => []SInv
    BY <2>1, StrictInvariance
  <2>3. IInv /\ Due /\ SInv /\ [Next]_vars => [Kept]_vars
    BY <1>1
  <2> QED
    BY <2>2, <2>3, Invariance, DeletionsAreDue, PTL DEF Spec, OfferedUntilAged, Kept
<1> QED
  BY <1>2, <1>3

-----------------------------------------------------------------------------
(* Runs that are not cut off.                                               *)

\* Redeliveries and late exceptions may come, two runs may be at one job.
NoRunIsCutOff == Faults \cap {"crash", "kill", "escape"} = {}

\* While a job says PROCESSING some worker is at it.
ProcessingHasRunner ==
    \A j \in Jobs : status[j] = "PROCESSING" =>
        \E w \in Workers : task[w] = j /\ pc[w] \in Running \ {"finish"}

Manned ==
    /\ pc \in [Workers -> PCs] /\ task \in [Workers -> Jobs \cup {None}]
    /\ status \in [Jobs -> Statuses]
    /\ \A w \in Workers : pc[w] # "idle" => task[w] \in Jobs
    /\ ProcessingHasRunner

\* A worker that goes on with its job.
LEMMA StillAtIt ==
    ASSUME Manned, NEW w \in Workers, task' = task, status' = status,
           \A v \in Workers \ {w} : pc'[v] = pc[v], pc' \in [Workers -> PCs], pc[w] # "idle",
           pc[w] \in Running \ {"finish"} => pc'[w] \in Running \ {"finish"}
    PROVE  Manned'
  BY DEF Manned, ProcessingHasRunner

LEMMA OutcomesManned ==
    ASSUME Manned, NEW w \in Workers, Claim(w) \/ Record(w) \/ MarkFailed(w)
    PROVE  Manned'
<1>1. task[w] \in Jobs /\ task' = task /\ \A v \in Workers \ {w} : pc'[v] = pc[v]
  BY DEF Manned, Claim, Record, MarkFailed, Goto
<1>2. pc' \in [Workers -> PCs] /\ status' \in [Jobs -> Statuses]
  BY <1>1 DEF Manned, Claim, Record, MarkFailed, Goto, PCs, Handling, Statuses
<1>3. \/ status'[task[w]] = "PROCESSING" /\ pc'[w] = "claimed"
      \/ status'[task[w]] # "PROCESSING"
  BY <1>1 DEF Manned, Claim, Record, MarkFailed, Goto
<1>4. \A j \in Jobs \ {task[w]} : status'[j] = status[j]
  BY <1>1 DEF Manned, Claim, Record, MarkFailed
<1>5. ProcessingHasRunner'
  BY <1>1, <1>3, <1>4 DEF Manned, ProcessingHasRunner, Running
<1>6. pc[w] # "idle"
  BY DEF Claim, Record, MarkFailed
<1> QED
  BY <1>1, <1>2, <1>5, <1>6 DEF Manned

LEMMA WorkersManned ==
    ASSUME NoRunIsCutOff, Manned, NEW w \in Workers, Take(w) \/ RunStep(w) \/ Misfortune(w)
    PROVE  Manned'
<1>1. ~Crash(w) /\ ~Kill(w) /\ ~Escape(w)
  BY DEF NoRunIsCutOff, Crash, Kill, Escape, Fault
<1>2. CASE Take(w)
  <2>1. PICK j \in Jobs : Deliver(w, j)
    BY <1>2 DEF Take
  <2>2. /\ pc[w] = "idle" /\ status' = status
        /\ task' = [task EXCEPT ![w] = j]
        /\ \A v \in Workers \ {w} : pc'[v] = pc[v] /\ task'[v] = task[v]
        /\ pc' \in [Workers -> PCs]
    BY <2>1 DEF Deliver, Goto, Manned, PCs, Handling, db
  <2>3. ProcessingHasRunner'
    BY <2>2 DEF Manned, ProcessingHasRunner, Running, Trying
  <2> QED
    BY <2>2, <2>3 DEF Manned
<1>3. CASE Claim(w) \/ Record(w) \/ MarkFailed(w)
  BY <1>3, OutcomesManned
<1>4. CASE \/ NewTempDir(w) \/ OpenCsv(w) \/ FinishCsv(w) \/ Package(w) \/ PublishRemove(w)
           \/ PublishReplace(w) \/ RunFails(w) \/ Finish(w) \/ Undo(w) \/ Raise(w) \/ RaiseLate(w)
  <2>1. /\ task' = task /\ status' = status /\ pc[w] # "idle"
        /\ \A v \in Workers \ {w} : pc'[v] = pc[v]
        /\ pc' \in [Workers -> PCs]
    BY <1>4 DEF NewTempDir, OpenCsv, FinishCsv, Package, PublishRemove, PublishReplace, RunFails,
       Finish, Undo, Raise, RaiseLate, SelfInflicted, Goto, Manned, PCs, Handling, Trying, db
  <2>2. pc[w] \in Running \ {"finish"} => pc'[w] \in Running \ {"finish"}
    BY <1>4 DEF NewTempDir, OpenCsv, FinishCsv, Package, PublishRemove, PublishReplace, RunFails,
       Finish, Undo, Raise, RaiseLate, SelfInflicted, Goto, Manned, Running, Trying
  <2> QED
    BY <2>1, <2>2, StillAtIt
<1>5. CASE Ack(w)
  <2>1. /\ pc[w] = "done" /\ pc'[w] = "idle" /\ status' = status
        /\ \A v \in Workers \ {w} : pc'[v] = pc[v] /\ task'[v] = task[v]
        /\ pc' \in [Workers -> PCs] /\ task' \in [Workers -> Jobs \cup {None}]
    BY <1>5 DEF Ack, Release, Manned, PCs, db
  <2>2. ProcessingHasRunner'
    BY <2>1 DEF Manned, ProcessingHasRunner, Running, Trying
  <2> QED
    BY <2>1, <2>2 DEF Manned
<1>6. CASE Redeliver(w)
  BY <1>6 DEF Redeliver, Manned, ProcessingHasRunner, db, worker
<1> QED
  BY <1>1, <1>2, <1>3, <1>4, <1>5, <1>6 DEF RunStep, Misfortune

LEMMA OthersManned ==
    ASSUME Manned,
           \/ \E j \in Jobs : Submit(j) \/ Enqueue(j) \/ EnqueueFails(j) \/ Lapse(j)
           \/ Sweep \/ SweepDies
           \/ \E c \in Clients : DownloadStream(c) \/ \E j \in Jobs : DownloadCheck(c, j)
           \/ UNCHANGED vars
    PROVE  Manned'
<1>1. UNCHANGED <<pc, task>>
  BY DEF Submit, Enqueue, EnqueueFails, Lapse, Sweep, SweepSelect, SweepDelete, SweepUnlink,
     SweepRmdir, SweepCommit, SweepDies, DownloadStream, DownloadCheck, worker, vars
<1>2. /\ status' \in [Jobs -> Statuses]
      /\ \A j \in Jobs : status'[j] = "PROCESSING" => status[j] = "PROCESSING"
  BY DEF Submit, Enqueue, EnqueueFails, Lapse, Sweep, SweepSelect, SweepDelete, SweepUnlink,
     SweepRmdir, SweepCommit, SweepDies, DownloadStream, DownloadCheck, db, vars, Manned, Statuses
<1> QED
  BY <1>1, <1>2 DEF Manned, ProcessingHasRunner

\* Exceptions inside the try and repeated messages do not end a run between its
\* claim and its final status.
LEMMA ProcessingIsManned == NoRunIsCutOff /\ Spec => []ProcessingHasRunner
<1> SUFFICES ASSUME NoRunIsCutOff PROVE Spec => []ProcessingHasRunner
  OBVIOUS
<1>1. Init => Manned
  BY DEF Init, Manned, ProcessingHasRunner, Statuses, PCs
<1>2. Manned /\ [Next]_vars => Manned'
  BY WorkersManned, OthersManned DEF Next
<1>3. Manned => ProcessingHasRunner
  BY DEF Manned
<1> QED
  BY <1>1, <1>2, <1>3, PTL DEF Spec

-----------------------------------------------------------------------------
(* What leaves a job behind.                                                *)

\* Who has a job on the way: a worker that found it PENDING or is at work on it.
AtWork == (Running \ {"finish"}) \cup {"loaded"}

\* A worker that goes on with its task strands nothing.
LEMMA GoingOnStrandsNothing ==
    ASSUME Typed, NEW j \in Jobs, ~Stranded(j), NEW w \in Workers,
           \/ NewTempDir(w) \/ OpenCsv(w) \/ FinishCsv(w) \/ Package(w) \/ PublishRemove(w)
           \/ PublishReplace(w) \/ RunFails(w) \/ Finish(w) \/ Undo(w) \/ Raise(w) \/ RaiseLate(w)
    PROVE  ~Stranded(j)'
<1>1. /\ UNCHANGED <<unqueued, broker, task, status>> /\ pc[w] # "loaded"
      /\ \A v \in Workers \ {w} : pc'[v] = pc[v]
      /\ pc[w] \in Running \ {"finish"} => pc'[w] \in Running \ {"finish"}
  BY DEF NewTempDir, OpenCsv, FinishCsv, Package, PublishRemove, PublishReplace, RunFails,
     SelfInflicted, Finish, Undo, Raise, RaiseLate, Goto, Typed, TypeOK, Running, Trying, db, queue
<1> QED
  BY <1>1 DEF Stranded

\* Nor does a worker that commits a status, or takes a message or gives it back.
LEMMA OutcomesStrandNothing ==
    ASSUME Typed, NEW j \in Jobs, ~Stranded(j), NEW w \in Workers,
           Claim(w) \/ Record(w) \/ MarkFailed(w)
    PROVE  ~Stranded(j)'
<1>1. /\ UNCHANGED <<unqueued, broker, task>> /\ task[w] \in Jobs /\ pc[w] # "idle"
      /\ \A v \in Workers \ {w} : pc'[v] = pc[v]
      /\ \A i \in Jobs \ {task[w]} : status'[i] = status[i]
  BY DEF Claim, Record, MarkFailed, Goto, Typed, TypeOK, queue
<1>2. \/ status'[task[w]] = "PROCESSING" /\ pc'[w] = "claimed"
      \/ status'[task[w]] \in {"COMPLETED", "FAILED"}
  BY <1>1 DEF Claim, Record, MarkFailed, Goto, Typed, TypeOK
<1>3. CASE task[w] = j
  BY <1>1, <1>2, <1>3 DEF Stranded, Running
<1>4. CASE task[w] # j
  BY <1>1, <1>4 DEF Stranded
<1> QED
  BY <1>3, <1>4

LEMMA MessagesStrandNothing ==
    ASSUME Typed, NEW j \in Jobs, ~Stranded(j), NEW w \in Workers,
           Take(w) \/ Ack(w) \/ Redeliver(w)
    PROVE  ~Stranded(j)'
<1>1. CASE Take(w)
  <2>1. PICK i \in Jobs : Deliver(w, i)
    BY <1>1 DEF Take
  <2>2. /\ \A v \in Workers \ {w} : pc'[v] = pc[v] /\ task'[v] = task[v]
        /\ UNCHANGED <<unqueued, status>> /\ pc[w] = "idle"
        /\ \A k \in Jobs \ {i} : broker'[k] = broker[k]
        /\ status[i] = "PENDING" => task'[w] = i /\ pc'[w] = "loaded"
    BY <2>1 DEF Deliver, Goto, Typed, TypeOK, db
  <2>3. \A v \in Workers : pc[v] \in AtWork => v # w
    BY <2>2 DEF AtWork, Running, Trying
  <2> QED
    BY <2>2, <2>3 DEF Stranded, AtWork
<1>2. CASE Ack(w)
  <2>1. /\ UNCHANGED <<unqueued, broker, status>> /\ pc[w] = "done"
        /\ \A v \in Workers \ {w} : pc'[v] = pc[v] /\ task'[v] = task[v]
    BY <1>2 DEF Ack, Release, Typed, TypeOK, queue, db
  <2>2. \A v \in Workers : pc[v] \in AtWork => v # w
    BY <2>1 DEF AtWork, Running, Trying
  <2> QED
    BY <2>1, <2>2 DEF Stranded, AtWork
<1>3. CASE Redeliver(w)
  <2>1. /\ UNCHANGED <<unqueued, pc, task, status>>
        /\ \A i \in Jobs : broker'[i] \in Nat /\ broker'[i] >= broker[i] /\ broker[i] \in Nat
    BY <1>3 DEF Redeliver, Typed, TypeOK, worker, db
  <2> QED
    BY <2>1 DEF Stranded
<1> QED
  BY <1>1, <1>2, <1>3

\* A task that ends early strands its own job or none, and one that dies before
\* the claim gives its message back.
LEMMA DeathsStrandTheirOwn ==
    ASSUME Typed, NEW j \in Jobs, ~Stranded(j), NEW w \in Workers,
           Escape(w) \/ Kill(w) \/ Crash(w), task[w] = j => Crash(w) /\ status[j] # "PROCESSING"
    PROVE  ~Stranded(j)'
<1>1. /\ UNCHANGED <<unqueued, status>>
      /\ \A v \in Workers \ {w} : pc'[v] = pc[v] /\ task'[v] = task[v]
      /\ \A i \in Jobs \ {task[w]} : broker'[i] = broker[i]
  BY DEF Escape, Kill, Crash, Release, Goto, Typed, TypeOK, db, queue
<1>2. CASE task[w] = j
  <2>1. broker[j] \in Nat /\ broker'[j] = broker[j] + 1
    BY <1>2 DEF Crash, Typed, TypeOK
  <2> QED
    BY <1>1, <1>2, <2>1 DEF Stranded
<1>3. CASE task[w] # j
  BY <1>1, <1>3 DEF Stranded
<1> QED
  BY <1>2, <1>3

\* The API and retention: a row is queued in the same request, a job is expired
\* for good.
LEMMA OthersStrandNothing ==
    ASSUME Typed, NEW j \in Jobs, ~Stranded(j), ~EnqueueFails(j),
           \/ \E i \in Jobs : Submit(i) \/ Enqueue(i) \/ EnqueueFails(i) \/ Lapse(i)
           \/ Sweep \/ SweepDies
           \/ \E c \in Clients : DownloadStream(c) \/ \E i \in Jobs : DownloadCheck(c, i)
    PROVE  ~Stranded(j)'
<1>1. ASSUME NEW i \in Jobs, Submit(i) PROVE ~Stranded(j)'
  BY <1>1 DEF Submit, Stranded, Typed, TypeOK, worker
<1>2. ASSUME NEW i \in Jobs, Enqueue(i) PROVE ~Stranded(j)'
  BY <1>2 DEF Enqueue, Stranded, Typed, TypeOK, worker, db
<1>3. ASSUME NEW i \in Jobs, EnqueueFails(i) PROVE ~Stranded(j)'
  <2>1. i # j
    BY <1>3
  <2> QED
    BY <1>3, <2>1 DEF EnqueueFails, Stranded, worker, db
<1>4. CASE SweepCommit
  BY <1>4 DEF SweepCommit, Stranded, Typed, TypeOK, worker, queue
<1>5. CASE UNCHANGED <<status, unqueued, broker, pc, task>>
  BY <1>5 DEF Stranded
<1> QED
  BY <1>1, <1>2, <1>3, <1>4, <1>5
     DEF Lapse, Sweep, SweepSelect, SweepDelete, SweepUnlink, SweepRmdir, SweepDies,
         DownloadStream, DownloadCheck, db, queue, worker

\* Under every fault: a job that nothing will ever move was left by a message that
\* was not sent, by an exception outside the try, by the hard time limit, or by the
\* death of its worker after the claim.
THEOREM NobodyElseStrands == Spec => StrandedByDeathOnly
<1> DEFINE Left == \A j \in Jobs : ~Stranded(j) /\ Stranded(j)' =>
                      \/ EnqueueFails(j)
                      \/ \E w \in Workers :
                            /\ task[w] = j
                            /\ Escape(w) \/ Kill(w) \/ (Crash(w) /\ status[j] = "PROCESSING")
<1>1. Typed /\ [Next]_vars => [Left]_vars
  <2> SUFFICES ASSUME Typed, Next, NEW j \in Jobs, ~Stranded(j), ~EnqueueFails(j),
                      ~\E w \in Workers :
                         /\ task[w] = j
                         /\ Escape(w) \/ Kill(w) \/ (Crash(w) /\ status[j] = "PROCESSING")
               PROVE  ~Stranded(j)'
    OBVIOUS
  <2>1. ASSUME NEW w \in Workers, Escape(w) \/ Kill(w) \/ Crash(w) PROVE ~Stranded(j)'
    BY <2>1, DeathsStrandTheirOwn
  <2> QED
    BY <2>1, GoingOnStrandsNothing, OutcomesStrandNothing, MessagesStrandNothing,
       OthersStrandNothing DEF Next, RunStep, Misfortune
<1> HIDE DEF Left
<1> QED
  BY <1>1, TypedInvariance, PTL DEF Spec, StrandedByDeathOnly, Left

-----------------------------------------------------------------------------
(* What is accepted is not lost.                                            *)

\* .delay() works, and no message is acknowledged before its job is claimed.
MessagesSurvive == Faults \cap {"broker", "kill", "escape"} = {}

\* A PENDING job is on its way: its message is about to be published, on the
\* broker, or held by a worker that has found it PENDING.
PendingIsQueued ==
    \A j \in Jobs : status[j] = "PENDING" =>
        \/ j \in unqueued \/ broker[j] > 0
        \/ \E w \in Workers : task[w] = j /\ pc[w] = "loaded"

\* A worker that goes on with its task leaves the messages where they are.
LEMMA RunKeepsMessages ==
    ASSUME Typed, PendingIsQueued, NEW w \in Workers,
           \/ Claim(w) \/ NewTempDir(w) \/ OpenCsv(w) \/ FinishCsv(w) \/ Package(w)
           \/ PublishRemove(w) \/ PublishReplace(w) \/ Record(w) \/ RunFails(w) \/ Finish(w)
           \/ Undo(w) \/ MarkFailed(w) \/ Raise(w) \/ RaiseLate(w)
    PROVE  PendingIsQueued'
<1>1. /\ UNCHANGED <<unqueued, broker, task>> /\ task[w] \in Jobs
      /\ \A v \in Workers \ {w} : pc'[v] = pc[v]
  BY DEF Claim, NewTempDir, OpenCsv, FinishCsv, Package, PublishRemove, PublishReplace, Record,
     RunFails, SelfInflicted, Finish, Undo, MarkFailed, Raise, RaiseLate, Goto, Typed, TypeOK,
     Trying, queue
<1>2. \A j \in Jobs : status'[j] = "PENDING" => status[j] = "PENDING"
  BY <1>1 DEF Claim, NewTempDir, OpenCsv, FinishCsv, Package, PublishRemove, PublishReplace, Record,
     RunFails, Finish, Undo, MarkFailed, Raise, RaiseLate, Typed, TypeOK, db
<1>3. pc[w] = "loaded" => status'[task[w]] # "PENDING"
  BY <1>1 DEF Claim, NewTempDir, OpenCsv, FinishCsv, Package, PublishRemove, PublishReplace, Record,
     RunFails, SelfInflicted, Finish, Undo, MarkFailed, Raise, RaiseLate, Typed, TypeOK, Trying
<1> QED
  BY <1>1, <1>2, <1>3 DEF PendingIsQueued

\* The message is passed on, and comes back from a worker that dies.
LEMMA MessagesPassedOn ==
    ASSUME MessagesSurvive, Typed, PendingIsQueued, NEW w \in Workers,
           Take(w) \/ Ack(w) \/ Misfortune(w)
    PROVE  PendingIsQueued'
<1>1. ~Kill(w) /\ ~Escape(w)
  BY DEF MessagesSurvive, Kill, Escape, Fault
<1>2. CASE Take(w)
  <2>1. PICK j \in Jobs : Deliver(w, j)
    BY <1>2 DEF Take
  <2>2. \A v \in Workers \ {w} : pc'[v] = pc[v] /\ task'[v] = task[v]
    BY <2>1 DEF Deliver, Goto, Typed, TypeOK
  <2>3. status[j] = "PENDING" => task'[w] = j /\ pc'[w] = "loaded"
    BY <2>1 DEF Deliver, Goto, Typed, TypeOK
  <2>4. /\ UNCHANGED <<unqueued, status>> /\ pc[w] = "idle"
        /\ \A i \in Jobs \ {j} : broker'[i] = broker[i]
    BY <2>1 DEF Deliver, Typed, TypeOK, db
  <2> QED
    BY <2>1, <2>2, <2>3, <2>4 DEF PendingIsQueued
<1>3. CASE Ack(w)
  <2>1. /\ UNCHANGED <<unqueued, broker, status>> /\ pc[w] = "done"
        /\ \A v \in Workers \ {w} : pc'[v] = pc[v] /\ task'[v] = task[v]
    BY <1>3 DEF Ack, Release, Typed, TypeOK, queue, db
  <2> QED
    BY <2>1 DEF PendingIsQueued
<1>4. CASE Raise(w) \/ RaiseLate(w)
  BY <1>4, RunKeepsMessages
<1>5. CASE Crash(w) \/ Redeliver(w)
  <2>1. task[w] \in Jobs
    BY <1>5 DEF Crash, Redeliver, Typed, TypeOK
  <2>2. /\ UNCHANGED <<unqueued, status>> /\ broker'[task[w]] > 0
        /\ \A i \in Jobs : broker[i] > 0 => broker'[i] > 0
    BY <1>5, <2>1 DEF Crash, Redeliver, Typed, TypeOK, db
  <2>3. \A v \in Workers \ {w} : pc'[v] = pc[v] /\ task'[v] = task[v]
    BY <1>5 DEF Crash, Redeliver, Release, Typed, TypeOK, worker
  <2> QED
    BY <2>1, <2>2, <2>3 DEF PendingIsQueued
<1> QED
  BY <1>1, <1>2, <1>3, <1>4, <1>5 DEF Misfortune

LEMMA OthersKeepMessages ==
    ASSUME MessagesSurvive, Typed, PendingIsQueued,
           \/ \E j \in Jobs : Submit(j) \/ Enqueue(j) \/ EnqueueFails(j) \/ Lapse(j)
           \/ Sweep \/ SweepDies
           \/ \E c \in Clients : DownloadStream(c) \/ \E j \in Jobs : DownloadCheck(c, j)
           \/ UNCHANGED vars
    PROVE  PendingIsQueued'
<1>1. ASSUME NEW j \in Jobs, Submit(j) PROVE PendingIsQueued'
  BY <1>1 DEF Submit, PendingIsQueued, Typed, TypeOK, worker
<1>2. ASSUME NEW j \in Jobs, Enqueue(j) PROVE PendingIsQueued'
  <2>1. /\ UNCHANGED <<status, pc, task>> /\ unqueued' = unqueued \ {j}
        /\ broker'[j] > 0 /\ \A i \in Jobs : broker[i] > 0 => broker'[i] > 0
    BY <1>2 DEF Enqueue, Typed, TypeOK, worker, db
  <2> QED
    BY <2>1 DEF PendingIsQueued
<1>3. \A j \in Jobs : ~EnqueueFails(j)
  BY DEF MessagesSurvive, EnqueueFails, Fault
<1>4. CASE \/ \E j \in Jobs : Lapse(j)
           \/ Sweep \/ SweepDies
           \/ \E c \in Clients : DownloadStream(c) \/ \E j \in Jobs : DownloadCheck(c, j)
           \/ UNCHANGED vars
  <2>1. UNCHANGED <<unqueued, broker, pc, task>>
    BY <1>4 DEF Lapse, Sweep, SweepSelect, SweepDelete, SweepUnlink, SweepRmdir, SweepCommit,
       SweepDies, DownloadStream, DownloadCheck, worker, queue, vars
  <2>2. \A j \in Jobs : status'[j] = "PENDING" => status[j] = "PENDING"
    BY <1>4 DEF Lapse, Sweep, SweepSelect, SweepDelete, SweepUnlink, SweepRmdir, SweepCommit,
       SweepDies, DownloadStream, DownloadCheck, db, vars
  <2> QED
    BY <2>1, <2>2 DEF PendingIsQueued
<1> QED
  BY <1>1, <1>2, <1>3, <1>4

\* No accepted job is forgotten: whatever crashes and is delivered twice, a
\* PENDING job has a message that will have it run (task_acks_late).
THEOREM NothingIsLost == MessagesSurvive /\ Spec => []PendingIsQueued
<1> SUFFICES ASSUME MessagesSurvive PROVE Spec => []PendingIsQueued
  OBVIOUS
<1>1. Init => PendingIsQueued
  BY DEF Init, PendingIsQueued
<1>2. Typed /\ PendingIsQueued /\ [Next]_vars => PendingIsQueued'
  BY RunKeepsMessages, MessagesPassedOn, OthersKeepMessages DEF Next, RunStep
<1> QED
  BY <1>1, <1>2, TypedInvariance, PTL DEF Spec

\* No message is under way and every worker is idle.
Quiet == unqueued = {} /\ (\A j \in Jobs : broker[j] = 0) /\ \A w \in Workers : pc[w] = "idle"

QuietIsSettled ==
    Quiet => \A j \in Jobs : status[j] \in {"absent", "COMPLETED", "FAILED", "EXPIRED"}

\* When all is quiet every job that was accepted has its final status: nobody
\* waits for something that nobody does.  The safety half of EveryJobSettles.
THEOREM NobodyWaits == MessagesSurvive /\ NoRunIsCutOff /\ Spec => []QuietIsSettled
<1>1. TypeOK /\ PendingIsQueued /\ ProcessingHasRunner => QuietIsSettled
  BY DEF QuietIsSettled, Quiet, PendingIsQueued, ProcessingHasRunner, TypeOK, Statuses, Running, Trying
<1> QED
  BY <1>1, TypeCorrect, NothingIsLost, ProcessingIsManned, PTL
=============================================================================
