--------------------------- MODULE JobIdCounter ---------------------------
(***************************************************************************)
(* What create_job promises, without its reads, inserts and retries: Job    *)
(* IDs come from one counter per day that is advanced atomically, no ID is  *)
(* of a day to come, and a request goes without one only when MaxAttempts   *)
(* others got theirs (backend/app/services/job_service.py, core/job_id.py). *)
(***************************************************************************)
EXTENDS Integers, FiniteSets

CONSTANTS Requests, MaxAttempts, MaxDay, None

VARIABLES
    today,      \* the day in UTC
    given,      \* given[d]: how many IDs day d has given out
    id,         \* id[r]: r's Job ID <<day, number>>, or None
    refused     \* the requests that got an error

vars == <<today, given, id, refused>>

Init ==
    /\ today = 1
    /\ given = [d \in 1..MaxDay |-> 0]
    /\ id = [r \in Requests |-> None]
    /\ refused = {}

Served == {r \in Requests : id[r] # None}

Waits(r) == r \notin Served \cup refused

\* A request that began yesterday may still get a number of yesterday.
Allocate(r, d) ==
    /\ Waits(r)
    /\ given' = [given EXCEPT ![d] = @ + 1]
    /\ id' = [id EXCEPT ![r] = <<d, given'[d]>>]
    /\ UNCHANGED <<today, refused>>

Refuse(r) ==
    /\ Waits(r)
    /\ Cardinality(Served) >= MaxAttempts
    /\ refused' = refused \cup {r}
    /\ UNCHANGED <<today, given, id>>

Tomorrow ==
    /\ today < MaxDay
    /\ today' = today + 1
    /\ UNCHANGED <<given, id, refused>>

Next ==
    \/ \E r \in Requests : Refuse(r) \/ \E d \in 1..today : Allocate(r, d)
    \/ Tomorrow

Spec == Init /\ [][Next]_vars
=============================================================================
