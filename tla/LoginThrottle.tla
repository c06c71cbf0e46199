--------------------------- MODULE LoginThrottle ---------------------------
(***************************************************************************)
(* The failure counter of one login identifier in Redis                     *)
(* (backend/app/services/auth_service.py), used by concurrent requests to   *)
(* POST /auth/login (backend/app/api/routes/auth.py).  INCR and EXPIRE are  *)
(* two calls, and the password is checked after both.  A call that fails    *)
(* may have been carried out all the same: only its answer is lost.         *)
(***************************************************************************)
EXTENDS Integers, FiniteSets

CONSTANTS
    Attempts,   \* the login requests that may be in flight
    Limit,      \* LOGIN_RATE_LIMIT_ATTEMPTS, 5 in the code
    Window,     \* LOGIN_RATE_LIMIT_WINDOW_SECONDS, in ticks
    RedisFaults \* the Redis calls that may fail: "incr", "expire", "reset";
                \* "death": the process may end between INCR and EXPIRE

ASSUME ThrottleAssumption ==
    /\ Limit \in Nat \ {0} /\ Window \in Nat \ {0}
    /\ RedisFaults \subseteq {"incr", "expire", "reset", "death"}

VARIABLES
    count,      \* login_attempts:<identifier>; 0: no such key
    ttl,        \* ticks until the key expires; 0: it does not
    step,       \* "idle", "counted" (EXPIRE to come), "password"
    key         \* history: "severed" when the request that was to set the key's
                \* expiry failed between INCR and EXPIRE, else "whole"

throttle == <<count, ttl, step, key>>

ThrottleInit ==
    /\ count = 0 /\ ttl = 0
    /\ step = [a \in Attempts |-> "idle"] /\ key = "whole"

Goes(a, place) == step' = [step EXCEPT ![a] = place]

\* Mutant: the expiry is set by the attempt that reaches the limit.
IncrExpiringLate(a) ==
    /\ step[a] = "idle"
    /\ count' = IF count > Limit THEN count ELSE count + 1
    /\ Goes(a, IF count' = Limit + 1 THEN "counted" ELSE "password")
    /\ UNCHANGED <<ttl, key>>

\* INCR.  Past Limit + 1 the value does not matter and the model stops counting.
Incr(a) ==
    /\ step[a] = "idle"
    /\ count' = IF count > Limit THEN count ELSE count + 1
    /\ Goes(a, IF count' = 1 THEN "counted"
               ELSE IF count' > Limit THEN "idle" ELSE "password")
    /\ UNCHANGED <<ttl, key>>

\* EXPIRE, by the request that found no counter.
Expire(a) ==
    /\ step[a] = "counted"
    /\ ttl' = IF count > 0 THEN Window ELSE 0
    /\ Goes(a, "password")
    /\ key' = "whole"
    /\ UNCHANGED count

\* A failing call lets the request through.  An INCR whose answer is lost has
\* counted, and nobody will know that it began a counter.
FailOpen(a) ==
    /\ Goes(a, "password")
    /\ \/ /\ step[a] = "idle" /\ "incr" \in RedisFaults
          /\ count' \in {count, IF count > Limit THEN count ELSE count + 1}
          /\ key' = IF count = 0 /\ count' = 1 THEN "severed" ELSE key
       \/ /\ step[a] = "counted" /\ "expire" \in RedisFaults
          /\ key' = IF count > 0 THEN "severed" ELSE "whole"
          /\ UNCHANGED count
    /\ UNCHANGED ttl

\* The API process ends and the request with it.
Die(a) ==
    /\ step[a] = "counted" /\ "death" \in RedisFaults
    /\ Goes(a, "idle")
    /\ key' = IF count > 0 THEN "severed" ELSE "whole"
    /\ UNCHANGED <<count, ttl>>

\* authenticate says no.
Reject(a) ==
    /\ step[a] = "password"
    /\ Goes(a, "idle")
    /\ UNCHANGED <<count, ttl, key>>

\* authenticate says yes, and the counter is deleted.
Accept(a) ==
    /\ step[a] = "password"
    /\ Goes(a, "idle")
    /\ \/ count' = 0 /\ ttl' = 0 /\ key' = "whole"
       \/ "reset" \in RedisFaults /\ UNCHANGED <<count, ttl, key>>

\* Time passes for the counter.
Age ==
    /\ ttl' = IF ttl = 0 THEN 0 ELSE ttl - 1
    /\ count' = IF ttl = 1 THEN 0 ELSE count
    /\ key' = IF ttl = 1 THEN "whole" ELSE key
    /\ UNCHANGED step

ThrottleStep(a) == Incr(a) \/ Expire(a) \/ FailOpen(a) \/ Die(a) \/ Reject(a)

ThrottleNext == Age \/ \E a \in Attempts : ThrottleStep(a) \/ Accept(a)

ThrottleSpec == ThrottleInit /\ [][ThrottleNext]_throttle

-----------------------------------------------------------------------------
(* Properties.                                                              *)

ThrottleTypeOK ==
    /\ count \in 0..(Limit + 1)
    /\ ttl \in 0..Window
    /\ step \in [Attempts -> {"idle", "counted", "password"}]
    /\ key \in {"whole", "severed"}

\* A counter without an end would lock its address out for good.  One without a
\* request that is about to give it an end comes from a failure in the one place
\* where INCR and EXPIRE are apart, of the very request that began it; no order of
\* requests, deletions and expiries leaves one behind, nor any other failure
\* (login_rate_limited, reset_login_attempts).
CounterExpires ==
    count > 0 /\ ttl = 0 => key = "severed" \/ \E a \in Attempts : step[a] = "counted"
=============================================================================
