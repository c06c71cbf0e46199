------------------------------ MODULE LiveLog ------------------------------
(***************************************************************************)
(* The live log of one job: workers append lines to job_logs, each in a     *)
(* transaction of its own (backend/app/services/job_log_service.py), and   *)
(* the job page polls them with a cursor, GET /jobs/{id}/logs?after_id=N   *)
(* (frontend/app/jobs/[jobId]/page.tsx).                                   *)
(*                                                                         *)
(* A line is its id, which the database hands out at the INSERT and makes  *)
(* visible at the COMMIT.  The page has one polling loop, and one more per *)
(* e-mail the user asks for; all of them share the cursor and the console. *)
(***************************************************************************)
EXTENDS Integers, Sequences, FiniteSets

CONSTANTS
    Run,        \* the extraction run, as a writer of lines
    Mailers,    \* the e-mail tasks, as writers of lines
    Page,       \* the page's polling loop
    Loops,      \* the page's e-mail loops
    Limit,      \* lines in one answer: get_logs' limit, 1000 in the code
    MaxLines,   \* bound: lines written, the run's last one not counted
    MaxRounds,  \* bound: rounds of an e-mail loop, 45 in the code
    Faults,     \* the kinds of fault the environment may produce
    MaxFaults   \* bound: how many of them, in all

FaultKinds ==
    {"append",      \* a line cannot be written: logging is best effort
     "overlap",     \* a line is inserted while another is not committed yet
     "lost",        \* a request for lines fails
     "load"}        \* a request for the job fails

ASSUME FaultsAssumption == Faults \subseteq FaultKinds /\ MaxFaults \in Nat
ASSUME BoundsAssumption == {Limit, MaxLines, MaxRounds} \subseteq Nat \ {0}
ASSUME NamesAssumption == Run \notin Mailers /\ Page \notin Loops

Writers == Mailers \cup {Run}
Pullers == Loops \cup {Page}

VARIABLES
    next,       \* the id of the next line
    writing,    \* the id each writer has inserted and not committed; 0: none
    log,        \* the committed lines
    overtaken   \* those that were committed after a line with a later id

VARIABLES
    over,       \* is the job's status terminal?
    last        \* the id of the run's last line, written after the status; 0

VARIABLES
    cursor,     \* lastLogIdRef
    shown,      \* the console: the answers appended to it, in order
    pc,         \* where each loop stands
    after,      \* the cursor each pull was sent with
    answer,     \* the lines each pull was answered with
    seen,       \* what the page saw of the job: "active", "over", "trailing"
    rounds,     \* rounds of each e-mail loop
    short       \* history: why the page stopped short of what there was to see

VARIABLE faults

database == <<next, writing, log, overtaken>>
job == <<over, last>>
console == <<cursor, shown>>
browser == <<pc, after, answer, seen, rounds, short>>
vars == <<database, job, console, browser, faults>>

-----------------------------------------------------------------------------

Fault(kind) ==
    /\ kind \in Faults
    /\ faults < MaxFaults
    /\ faults' = faults + 1

NoFault == UNCHANGED faults

Init ==
    /\ next = 1
    /\ writing = [x \in Writers |-> 0]
    /\ log = {}
    /\ overtaken = {}
    /\ over = FALSE
    /\ last = 0
    /\ cursor = 0
    /\ shown = <<>>
    /\ pc = [p \in Pullers |-> IF p = Page THEN "load" ELSE "stop"]
    /\ after = [p \in Pullers |-> 0]
    /\ answer = [p \in Pullers |-> {}]
    /\ seen = "active"
    /\ rounds = [l \in Loops |-> 0]
    /\ short = {}
    /\ faults = 0

Goto(p, label) == pc' = [pc EXCEPT ![p] = label]

-----------------------------------------------------------------------------
(* The writers: job_log_service.append. *)

Insert(x) ==
    /\ writing[x] = 0
    /\ IF \E y \in Writers : writing[y] # 0 THEN Fault("overlap") ELSE NoFault
    /\ writing' = [writing EXCEPT ![x] = next]
    /\ next' = next + 1

\* A milestone of the run, or of an e-mail that is sent once the job is over.
WriteLine(x) ==
    /\ next <= MaxLines
    /\ over <=> x \in Mailers
    /\ Insert(x)
    /\ UNCHANGED <<log, overtaken, job, console, browser>>

\* The job's status becomes COMPLETED or FAILED ...
Complete ==
    /\ ~over
    /\ writing[Run] = 0
    /\ over' = TRUE
    /\ UNCHANGED <<database, last, console, browser, faults>>

\* ... and one more line says so.
WriteLast ==
    /\ over
    /\ last = 0
    /\ last' = next
    /\ Insert(Run)
    /\ UNCHANGED <<log, overtaken, over, console, browser>>

\* A reader may have passed the line already, on to one with a later id.
Commit(x) ==
    /\ writing[x] # 0
    /\ log' = log \cup {writing[x]}
    /\ overtaken' = overtaken \cup {id \in {writing[x]} : \E n \in log : n > id}
    /\ writing' = [writing EXCEPT ![x] = 0]
    /\ UNCHANGED <<next, job, console, browser, faults>>

\* The exception is swallowed; the id is used up.
AppendFails(x) ==
    /\ Fault("append")
    /\ writing[x] # 0
    /\ writing' = [writing EXCEPT ![x] = 0]
    /\ UNCHANGED <<next, log, overtaken, job, console, browser>>

-----------------------------------------------------------------------------
(* The page: poll, pullLogs, and the loop in onEmail. *)

\* getJob answers; the loop goes on to pull the log.
Load ==
    /\ pc[Page] = "load"
    /\ seen' = IF over THEN "over" ELSE "active"
    /\ Goto(Page, "pull")
    /\ UNCHANGED <<database, job, console, after, answer, rounds, short, faults>>

\* getJob fails: an error is shown and the page stops following the job.
LoadFails ==
    /\ Fault("load")
    /\ pc[Page] = "load"
    /\ Goto(Page, "stop")
    /\ short' = short \cup {"load"}
    /\ UNCHANGED <<database, job, console, after, answer, seen, rounds>>

Ask(p) ==
    /\ pc[p] = "pull"
    /\ after' = [after EXCEPT ![p] = cursor]
    /\ Goto(p, "asked")
    /\ UNCHANGED <<database, job, console, answer, seen, rounds, short, faults>>

\* Is the run's last line decided: committed, or given up?
LastIsOut == last # 0 /\ writing[Run] = 0

\* 1500 ms later: the pull that is to catch the line written after the status.
\* Nothing makes the timer wait for that line.
TrailingPull ==
    /\ pc[Page] = "trailing"
    /\ seen' = "trailing"
    /\ short' = short \cup {kind \in {"early"} : ~LastIsOut}
    /\ Goto(Page, "pull")
    /\ UNCHANGED <<database, job, console, after, answer, rounds, faults>>

Newer(n) == {id \in log : id > n}

\* get_logs: the first lines after n, in the order of their ids.
Lines(n) == {id \in Newer(n) : Cardinality({k \in Newer(n) : k <= id}) <= Limit}

\* An answer to the page's last pull that leaves lines behind.
CutOff(p, lines) == {kind \in {"limit"} : /\ p = Page /\ seen = "trailing"
                                         /\ lines # Newer(after[p])}

\* Mutant: the latest lines are answered instead of the next ones.
LatestLines(p) ==
    /\ pc[p] = "asked"
    /\ LET lines == {id \in Newer(after[p]) :
                        Cardinality({k \in Newer(after[p]) : k >= id}) <= Limit}
       IN  answer' = [answer EXCEPT ![p] = lines] /\ short' = short \cup CutOff(p, lines)
    /\ Goto(p, "answered")
    /\ UNCHANGED <<database, job, console, after, seen, rounds, faults>>

Answer(p) ==
    /\ pc[p] = "asked"
    /\ answer' = [answer EXCEPT ![p] = Lines(after[p])]
    /\ short' = short \cup CutOff(p, Lines(after[p]))
    /\ Goto(p, "answered")
    /\ UNCHANGED <<database, job, console, after, seen, rounds, faults>>

\* Mutant: the page stops at the pull that follows the terminal status.
ContinueUntilOver(p) ==
    IF p = Page
    THEN Goto(p, IF seen = "active" THEN "load" ELSE "stop")
    ELSE Goto(p, "rest")

\* What a loop does when its pull is over.
Continue(p) ==
    IF p = Page
    THEN Goto(p, CASE seen = "active" -> "load"
                   [] seen = "over" -> "trailing"
                   [] seen = "trailing" -> "stop")
    ELSE Goto(p, "rest")

\* The cursor moves to the last line of the answer, the console grows by it.
\* Whatever other loops did meanwhile is not looked at.
Apply(p) ==
    /\ pc[p] = "answered"
    /\ \/ answer[p] = {} /\ UNCHANGED console
       \/ \E top \in answer[p] : /\ \A id \in answer[p] : id <= top
                                 /\ cursor' = top
                                 /\ shown' = Append(shown, answer[p])
    /\ answer' = [answer EXCEPT ![p] = {}]
    /\ Continue(p)
    /\ UNCHANGED <<database, job, after, seen, rounds, short, faults>>

\* Transient log errors are ignored.
PullFails(p) ==
    /\ Fault("lost")
    /\ pc[p] \in {"asked", "answered"}
    /\ answer' = [answer EXCEPT ![p] = {}]
    /\ Continue(p)
    /\ short' = short \cup {kind \in {"lost"} : p = Page /\ seen = "trailing"}
    /\ UNCHANGED <<database, job, console, after, seen, rounds>>

\* The user asks for an e-mail of the finished job; every 2 s the loop pulls.
Pull(l) ==
    /\ over
    /\ pc[l] \in {"stop", "rest"}
    /\ rounds[l] < MaxRounds
    /\ rounds' = [rounds EXCEPT ![l] = @ + 1]
    /\ Goto(l, "pull")
    /\ UNCHANGED <<database, job, console, after, answer, seen, short, faults>>

-----------------------------------------------------------------------------

Write == (\E x \in Writers : WriteLine(x) \/ Commit(x)) \/ Complete \/ WriteLast

Exchange(p) == Ask(p) \/ Answer(p) \/ Apply(p)

PageStep == Load \/ TrailingPull \/ Exchange(Page)

Misfortune ==
    \/ LoadFails
    \/ \E x \in Writers : AppendFails(x)
    \/ \E p \in Pullers : PullFails(p)

Next ==
    \/ Write
    \/ PageStep
    \/ \E l \in Loops : Pull(l) \/ Exchange(l)
    \/ Misfortune

Spec == Init /\ [][Next]_vars

\* The browser's timers fire and the server answers; a line that is inserted
\* is committed.
FairSpec == Spec /\ WF_vars(PageStep) /\ \A x \in Writers : WF_vars(Commit(x))

-----------------------------------------------------------------------------
(* Properties. *)

Shown == UNION {shown[i] : i \in DOMAIN shown}

TypeOK ==
    /\ next \in Nat /\ log \in SUBSET (1..next) /\ overtaken \in SUBSET log
    /\ writing \in [Writers -> Nat]
    /\ over \in BOOLEAN /\ last \in Nat
    /\ cursor \in Nat /\ shown \in Seq(SUBSET Nat)
    /\ pc \in [Pullers -> {"load", "pull", "asked", "answered", "trailing", "rest", "stop"}]
    /\ after \in [Pullers -> Nat]
    /\ answer \in [Pullers -> SUBSET Nat]
    /\ seen \in {"active", "over", "trailing"}
    /\ rounds \in [Loops -> 0..MaxRounds]
    /\ short \in SUBSET {"load", "lost", "early", "limit"}
    /\ faults \in 0..MaxFaults

\* Every line but the overtaken ones was the newest when it appeared.
InOrder == log \ overtaken

\* The cursor never passes such a line before the console has it, even when
\* loops overlap and move it back and forth: the line would never be asked for.
NothingSkipped == \A id \in InOrder : id <= cursor => id \in Shown

\* Whatever the loops that share cursor and console do to each other, and
\* however writers overlap, the user sees a growing part of the log without
\* holes but for the overtaken lines (page.tsx, job_log_service.py).
Followed == INSTANCE FollowedLog
    WITH log <- InOrder, shown <- Shown \ overtaken, Ids <- 1..(MaxLines + 1)
FollowSpec == Followed!Spec

\* With the page's own loop only, every line is shown once and in the order in
\* which it was written.
ShownInOrder ==
    \A i, k \in DOMAIN shown : i < k => \A m \in shown[i], n \in shown[k] : m < n

\* Is the answer to the page's last pull still to be taken?
Following == pc[Page] # "stop" /\ ~(seen = "trailing" /\ pc[Page] = "answered")

\* A line that is committed while the page follows the job reaches the console,
\* and so does the run's last one, which is written after the status the page
\* stops polling at.  A line is lost in these ways only: it is overtaken; the
\* request for the job or the last pull fails; the last pull leaves lines beyond
\* the limit; and, for the run's last line, the last pull comes too early.
LinesAreShown ==
    \A id \in 1..(MaxLines + 1) :
        /\ id \in log /\ Following
               ~> id \in Shown \cup overtaken \/ short \ {"early"} # {}
        /\ id \in log /\ id = last
               ~> id \in Shown \cup overtaken \/ short # {}
=============================================================================
