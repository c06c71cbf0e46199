--------------------------- MODULE FollowedLog ---------------------------
(***************************************************************************)
(* What following a job's log promises, without requests, cursors or loops: *)
(* lines appear at the end of the log only, and what the reader has seen is *)
(* the log up to some line, ever more of it and never with a hole           *)
(* (GET /jobs/{id}/logs "returns lines after N",                            *)
(* frontend/app/jobs/[jobId]/page.tsx).                                     *)
(***************************************************************************)
EXTENDS Integers

CONSTANT Ids    \* the ids that lines may have

VARIABLES
    log,        \* the lines that exist
    shown       \* the lines the reader has seen

vars == <<log, shown>>

Init == log = {} /\ shown = {}

Line(n) ==
    /\ \A id \in log : id < n
    /\ log' = log \cup {n}
    /\ UNCHANGED shown

Upto(n) == {id \in log : id <= n}

\* Any number of lines at a time, the oldest first.
Show(n) ==
    /\ shown \subseteq Upto(n)
    /\ shown' = Upto(n)
    /\ UNCHANGED log

Next == (\E n \in Ids : Line(n)) \/ (\E n \in log : Show(n))

Spec == Init /\ [][Next]_vars
=============================================================================
