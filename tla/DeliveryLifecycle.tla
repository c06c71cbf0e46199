------------------------- MODULE DeliveryLifecycle -------------------------
(***************************************************************************)
(* What the application promises about e-mailed reports, without queues,    *)
(* workers or Google.  A request is PENDING until a verdict is recorded     *)
(* (EmailStatus, backend/app/db/models/email_delivery.py), it is mailed at  *)
(* most once, and SENT is said only of a mail that went out; FAILED may be  *)
(* said of one that did, too.  The message of a request may come back to    *)
(* the queue: each return is good for one more mail, and from then on the   *)
(* verdict may be revised.                                                  *)
(***************************************************************************)
EXTENDS Naturals

CONSTANT Deliveries

VARIABLES
    status,     \* status[d]: EmailStatus, "absent" before the row exists
    mails,      \* mails[d]: how many mails went out for d
    returns     \* returns[d]: how often its message came back

vars == <<status, mails, returns>>

Init ==
    /\ status = [d \in Deliveries |-> "absent"]
    /\ mails = [d \in Deliveries |-> 0]
    /\ returns = [d \in Deliveries |-> 0]

Request(d) ==
    /\ status[d] = "absent"
    /\ status' = [status EXCEPT ![d] = "PENDING"]
    /\ UNCHANGED <<mails, returns>>

Return(d) ==
    /\ status[d] # "absent"
    /\ returns' = [returns EXCEPT ![d] = @ + 1]
    /\ UNCHANGED <<status, mails>>

\* Nobody has decided on d, or its message is back.
Undecided(d) == status[d] = "PENDING" \/ (status[d] # "absent" /\ returns[d] > 0)

Mail(d) ==
    /\ Undecided(d)
    /\ mails[d] <= returns[d]
    /\ mails' = [mails EXCEPT ![d] = @ + 1]
    /\ UNCHANGED <<status, returns>>

Succeed(d) ==
    /\ Undecided(d)
    /\ mails[d] > 0
    /\ status' = [status EXCEPT ![d] = "SENT"]
    /\ UNCHANGED <<mails, returns>>

Fail(d) ==
    /\ Undecided(d)
    /\ status' = [status EXCEPT ![d] = "FAILED"]
    /\ UNCHANGED <<mails, returns>>

Next ==
    \E d \in Deliveries : Request(d) \/ Return(d) \/ Mail(d) \/ Succeed(d) \/ Fail(d)

Spec == Init /\ [][Next]_vars
=============================================================================
