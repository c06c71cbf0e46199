------------------------ MODULE LoginThrottleProofs ------------------------
(***************************************************************************)
(* The failure counter of LoginThrottle for any number of requests, any    *)
(* limit and window, and a Redis that fails, or carries calls out and      *)
(* loses the answers, at any moment.                                       *)
(***************************************************************************)
EXTENDS LoginThrottle, TLAPS

LEMMA ThrottleStarts == ThrottleInit => ThrottleTypeOK /\ CounterExpires
  BY ThrottleAssumption DEF ThrottleInit, ThrottleTypeOK, CounterExpires

LEMMA ThrottleTypeKept ==
    ThrottleTypeOK /\ [ThrottleNext]_throttle => ThrottleTypeOK'
<1> SUFFICES ASSUME ThrottleTypeOK, [ThrottleNext]_throttle PROVE ThrottleTypeOK'
  OBVIOUS
<1> USE ThrottleAssumption DEF ThrottleTypeOK, Goes
<1>1. CASE Age
  BY <1>1 DEF Age
<1>2. ASSUME NEW a \in Attempts, Incr(a) PROVE ThrottleTypeOK'
  BY <1>2 DEF Incr
<1>3. ASSUME NEW a \in Attempts, Expire(a) PROVE ThrottleTypeOK'
  BY <1>3 DEF Expire
<1>4. ASSUME NEW a \in Attempts, FailOpen(a) PROVE ThrottleTypeOK'
  BY <1>4 DEF FailOpen
<1>5. ASSUME NEW a \in Attempts, Reject(a) \/ Die(a) PROVE ThrottleTypeOK'
  BY <1>5 DEF Reject, Die
<1>6. ASSUME NEW a \in Attempts, Accept(a) PROVE ThrottleTypeOK'
  BY <1>6 DEF Accept
<1>7. CASE UNCHANGED throttle
  BY <1>7 DEF throttle
<1> QED
  BY <1>1, <1>2, <1>3, <1>4, <1>5, <1>6, <1>7 DEF ThrottleNext, ThrottleStep

\* The request that found no counter is the one that will set its expiry; it
\* leaves without doing so only by failing, and no other step takes the expiry
\* away without the counter.
LEMMA CounterExpiresKept ==
    ThrottleTypeOK /\ CounterExpires /\ [ThrottleNext]_throttle => CounterExpires'
<1> SUFFICES ASSUME ThrottleTypeOK, CounterExpires, [ThrottleNext]_throttle,
                    count' > 0, ttl' = 0
             PROVE  key' = "severed" \/ \E a \in Attempts : step'[a] = "counted"
  BY DEF CounterExpires
<1> DEFINE Goal == key' = "severed" \/ \E a \in Attempts : step'[a] = "counted"
<1> USE ThrottleAssumption DEF ThrottleTypeOK, CounterExpires, Goes
<1>1. CASE Age
  BY <1>1 DEF Age
<1>2. ASSUME NEW a \in Attempts, Incr(a) PROVE Goal
  <2>1. CASE count = 0
    BY <1>2, <2>1 DEF Incr
  <2>2. CASE count > 0
    BY <1>2, <2>2 DEF Incr
  <2> QED
    BY <2>1, <2>2
<1>3. ASSUME NEW a \in Attempts, Expire(a) PROVE Goal
  BY <1>3 DEF Expire
<1>4. ASSUME NEW a \in Attempts, FailOpen(a) PROVE Goal
  <2>1. CASE step[a] = "idle" /\ count = 0
    BY <1>4, <2>1 DEF FailOpen
  <2>2. CASE step[a] = "idle" /\ count > 0
    BY <1>4, <2>2 DEF FailOpen
  <2>3. CASE step[a] = "counted"
    BY <1>4, <2>3 DEF FailOpen
  <2> QED
    BY <1>4, <2>1, <2>2, <2>3 DEF FailOpen
<1>5. ASSUME NEW a \in Attempts, Reject(a) \/ Accept(a) \/ Die(a) PROVE Goal
  BY <1>5 DEF Reject, Accept, Die
<1>6. CASE UNCHANGED throttle
  BY <1>6 DEF throttle
<1> QED
  BY <1>1, <1>2, <1>3, <1>4, <1>5, <1>6 DEF ThrottleNext, ThrottleStep

\* The counter stays within Limit + 1, its expiry within the window.
THEOREM ThrottleTypeCorrect == ThrottleSpec => []ThrottleTypeOK
<1> QED
  BY ThrottleStarts, ThrottleTypeKept, PTL DEF ThrottleSpec

\* Whatever Redis and the API processes do, a counter without an end is the work
\* of a failure between the INCR and the EXPIRE of one request, for any number of
\* requests, limit and window (login_rate_limited in auth_service.py).
THEOREM CountersExpire == ThrottleSpec => []CounterExpires
<1> QED
  BY ThrottleStarts, ThrottleTypeKept, CounterExpiresKept, PTL DEF ThrottleSpec
=============================================================================
