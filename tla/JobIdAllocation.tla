------------------------- MODULE JobIdAllocation -------------------------
(***************************************************************************)
(* How POST /jobs allocates the public Job ID EXT-YYYYMMDD-NNNNNN          *)
(* (backend/app/core/job_id.py and job_service.create_job).                *)
(*                                                                         *)
(* Every request reads the day's committed IDs, proposes the highest       *)
(* sequence plus one, and inserts it under the unique constraint on        *)
(* extraction_jobs.job_id.  Reading and inserting are two steps: the other *)
(* API processes commit in between.  A collision is retried, at most       *)
(* MaxAttempts times, then the request fails with a RuntimeError.          *)
(*                                                                         *)
(* An ID is the pair <<day, sequence>>; its zero-padded text is not        *)
(* modelled.  The uuid4 strategy proposes a fresh ID each time and has no  *)
(* contention to speak of; it is not modelled.                             *)
(***************************************************************************)
EXTENDS Integers, FiniteSets, FiniteSetsExt

CONSTANTS
    Requests,       \* the POST /jobs requests in flight
    MaxAttempts,    \* attempts of the loop in create_job: 5 in the code
    MaxDay          \* bound: days the clock may reach, the first one is 1

ASSUME RequestsAssumption == IsFiniteSet(Requests)
ASSUME AttemptsAssumption == MaxAttempts \in Nat \ {0}
ASSUME DayAssumption == MaxDay \in Nat \ {0}

VARIABLES
    pc,         \* where create_job stands for each request
    attempt,    \* collisions the request met so far (the loop's counter)
    proposed,   \* the job_id it read for itself, its own once it committed
    day,        \* today in UTC, the prefix of every new ID
    lost        \* history: the IDs each request proposed and lost

vars == <<pc, attempt, proposed, day, lost>>

Ids == (1..MaxDay) \X (Nat \ {0})
NoId == <<0, 0>>

\* The rows of extraction_jobs: what the requests that are through committed.
Created == {r \in Requests : pc[r] = "created"}
Table == {proposed[r] : r \in Created}

\* The sequences generate_job_id finds under the prefix of day d.
Sequences(d) == {id[2] : id \in {i \in Table : i[1] = d}}

\* Mutant: the proposal counts the rows of all days.
NextSequenceCountingAll(d) == Cardinality(Table) + 1

NextSequence(d) == Max({0} \cup Sequences(d)) + 1

Init ==
    /\ pc = [r \in Requests |-> "generate"]
    /\ attempt = [r \in Requests |-> 0]
    /\ proposed = [r \in Requests |-> NoId]
    /\ day = 1
    /\ lost = [r \in Requests |-> {}]

\* generate_job_id: the SELECT sees what is committed now, under today's prefix.
Generate(r) ==
    /\ pc[r] = "generate"
    /\ attempt[r] < MaxAttempts
    /\ proposed' = [proposed EXCEPT ![r] = <<day, NextSequence(day)>>]
    /\ pc' = [pc EXCEPT ![r] = "insert"]
    /\ UNCHANGED <<attempt, day, lost>>

\* Mutant: no unique constraint on job_id.
InsertUnchecked(r) ==
    /\ pc[r] = "insert"
    /\ pc' = [pc EXCEPT ![r] = "created"]
    /\ UNCHANGED <<attempt, proposed, day, lost>>

\* The INSERT commits: nobody took the ID since it was read.
Insert(r) ==
    /\ pc[r] = "insert"
    /\ proposed[r] \notin Table
    /\ pc' = [pc EXCEPT ![r] = "created"]
    /\ UNCHANGED <<attempt, proposed, day, lost>>

\* Mutant: the ID is generated once, before the loop; a retry proposes it again.
CollideKeepingId(r) ==
    /\ pc[r] = "insert"
    /\ proposed[r] \in Table
    /\ pc' = [pc EXCEPT ![r] = IF attempt[r] + 1 < MaxAttempts THEN "insert" ELSE "generate"]
    /\ attempt' = [attempt EXCEPT ![r] = @ + 1]
    /\ lost' = [lost EXCEPT ![r] = @ \cup {proposed[r]}]
    /\ UNCHANGED <<proposed, day>>

\* IntegrityError: roll back and go round the loop, which reads again.
Collide(r) ==
    /\ pc[r] = "insert"
    /\ proposed[r] \in Table
    /\ pc' = [pc EXCEPT ![r] = "generate"]
    /\ attempt' = [attempt EXCEPT ![r] = @ + 1]
    /\ lost' = [lost EXCEPT ![r] = @ \cup {proposed[r]}]
    /\ UNCHANGED <<proposed, day>>

\* The loop is exhausted: RuntimeError, no row.
GiveUp(r) ==
    /\ pc[r] = "generate"
    /\ attempt[r] = MaxAttempts
    /\ pc' = [pc EXCEPT ![r] = "failed"]
    /\ UNCHANGED <<attempt, proposed, day, lost>>

\* Midnight UTC; a request that already read its ID keeps yesterday's prefix.
Midnight ==
    /\ day < MaxDay
    /\ day' = day + 1
    /\ UNCHANGED <<pc, attempt, proposed, lost>>

CreateJob(r) == Generate(r) \/ Insert(r) \/ Collide(r) \/ GiveUp(r)

Next == Midnight \/ \E r \in Requests : CreateJob(r)

Spec == Init /\ [][Next]_vars

\* A request that is being served runs on: each API process is scheduled.
FairSpec == Spec /\ \A r \in Requests : WF_vars(CreateJob(r))

-----------------------------------------------------------------------------

TypeOK ==
    /\ pc \in [Requests -> {"generate", "insert", "created", "failed"}]
    /\ attempt \in [Requests -> 0..MaxAttempts]
    /\ proposed \in [Requests -> Ids \cup {NoId}]
    /\ day \in 1..MaxDay
    /\ lost \in [Requests -> SUBSET Ids]

\* No two jobs share a Job ID, however the reads and inserts of concurrent
\* requests interleave (job_service.create_job under the unique constraint).
UniqueJobIds ==
    \A r, s \in Created : r # s => proposed[r] # proposed[s]

\* The sequence of a day has no gap and starts at 1: losing requests burn no
\* number, and a stale read never skips one (generate_job_id's max + 1).
GaplessDays ==
    \A d \in 1..MaxDay : \E n \in 0..Cardinality(Requests) : Sequences(d) = 1..n

\* A request is refused only under real contention: RuntimeError means that at
\* least MaxAttempts other requests committed a job while it was trying.
FailureNeedsContention ==
    \A r \in Requests : pc[r] = "failed" => Cardinality(Created) >= MaxAttempts

\* A job's number is above every number already given out that day: the IDs of
\* a day follow the order in which the jobs were committed.
NumbersFollowCommits ==
    [][\A r \in Created' \ Created : \A n \in Sequences(proposed[r][1]) :
           proposed[r][2] > n]_vars

\* Reading and inserting in two steps with retries is as good as one atomic
\* counter per day: gaplessness, uniqueness, the order of the commits, and
\* refusals under contention only, in one.
Counter == INSTANCE JobIdCounter
    WITH today <- day,
         given <- [d \in 1..MaxDay |-> Max({0} \cup Sequences(d))],
         id <- [r \in Requests |-> IF pc[r] = "created" THEN proposed[r] ELSE NoId],
         refused <- {r \in Requests : pc[r] = "failed"},
         None <- NoId
CounterSpec == Counter!Spec

\* As many requests as the loop has attempts get their job, however many are in
\* flight, whatever the interleaving and across midnight: with no more requests
\* than attempts, all of them.
ContendersAreCreated ==
    <>(Cardinality(Created) >= MaxAttempts \/ Created = Requests)

=============================================================================
