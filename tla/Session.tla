------------------------------ MODULE Session ------------------------------
(***************************************************************************)
(* One user's session in one browser: the access token in localStorage and  *)
(* the refresh cookie, both shared by the tabs (frontend/lib/auth.ts), the  *)
(* guard every page runs (useAuthGuard.ts), the API calls in flight         *)
(* (api-client.ts), the auth routes (backend/app/api/routes/auth.py) and    *)
(* the denylist in Redis.  Of a login only the answer counts here; the      *)
(* failure counter it goes through is LoginThrottle.                        *)
(*                                                                         *)
(* Time is a step of its own (Tick) that shortens what is left of tokens    *)
(* and keys and lengthens the pages' timers; no clock is kept.  A tick is   *)
(* some minutes: the intervals of open pages run in each, and a call is     *)
(* answered or lost in the tick in which it is sent.  A call is sent,       *)
(* served, its answer's headers arrive, which is when the browser applies   *)
(* Set-Cookie, and the page handles the body, which is when localStorage    *)
(* changes: separate steps, so that other tabs may act in between.  A 401   *)
(* has no cookie to set and is handled as it arrives.  Redis keeps the      *)
(* denylist up, and the seven days of the cookie never end.                 *)
(***************************************************************************)
EXTENDS Integers, FiniteSets

CONSTANTS
    Tabs,         \* the open tabs of the browser
    MaxTokens,    \* bound: access tokens that matter at one time
    MaxCalls,     \* bound: API calls in flight
    AccessLife,   \* ACCESS_TOKEN_EXPIRE_MINUTES
    RefreshEvery, \* REFRESH_EVERY_MS
    IdleAfter,    \* idleTimeoutMin
    None

ASSUME SessionAssumption ==
    /\ MaxTokens \in Nat /\ MaxCalls \in Nat
    /\ AccessLife \in Nat \ {0} /\ RefreshEvery \in Nat \ {0}
    /\ IdleAfter \in Nat \ {0}
    /\ None \notin Nat

Tokens == 1..MaxTokens

VARIABLES
    left,     \* ticks until each access token expires
    deny,     \* ticks until the token's denylist key expires
    stored,   \* the token in localStorage
    cookie,   \* the browser holds the refresh cookie
    page,     \* per tab "login", "open", or "stopped": the idle timer ran out
    idle,     \* per page, ticks since lastActivity
    since,    \* per page, ticks since lastRefresh, counted up to AccessLife
    fired,    \* per page, its timer was due and ran in this tick
    fresh,    \* history: lastRefresh is the time of a refresh, not of a mount
    calls,    \* the API calls in flight
    session   \* history: "in" since a login; "disturbed" from a lost refresh, or
              \* a 401 that took the token for something else, to the next
              \* refresh; "leaving" when a logout has been sent; "out" when it
              \* was answered; "doubtful" when it was lost or crossed an answer
              \* that brings a token, and during a login

tokens == <<left, deny>>
browser == <<stored, cookie>>
pages == <<page, idle, since, fired, fresh>>
vars == <<tokens, browser, pages, calls, session>>

-----------------------------------------------------------------------------
Init ==
    /\ left = [k \in Tokens |-> 0] /\ deny = [k \in Tokens |-> 0]
    /\ stored = None /\ cookie = FALSE
    /\ page = [t \in Tabs |-> "login"]
    /\ idle = [t \in Tabs |-> 0] /\ since = [t \in Tabs |-> 0]
    /\ fired = [t \in Tabs |-> FALSE] /\ fresh = [t \in Tabs |-> FALSE]
    /\ calls = {} /\ session = "out"

\* A jti that no one has seen; one that no one holds any more stands for it.
Unused(k) == stored # k /\ \A c \in calls : k \notin {c.token, c.new}

\* create_access_token.
Issued(k) ==
    /\ Unused(k) /\ \A j \in Tokens : Unused(j) => j >= k
    /\ left' = [left EXCEPT ![k] = AccessLife]
    /\ deny' = [deny EXCEPT ![k] = 0]

\* A call as tab t sends it: refresh reads the cookie alone and login
\* the password, the others the token.
Call(t, kind, token) ==
    [tab |-> t, kind |-> kind,
     token |-> IF kind \in {"refresh", "login"} THEN None ELSE token,
     cookie |-> kind = "refresh" /\ cookie, mounted |-> kind = "refresh",
     result |-> "sent", new |-> None, crossed |-> FALSE]

Send(t, kind) ==
    /\ Cardinality(calls) < MaxCalls
    /\ calls' = calls \cup {Call(t, kind, stored)}

\* The page's effects run: both times start now, and the guard asks /auth/me.
\* The closures of the page before no longer count; the calls kept go on.
Mount(t, token, kept) ==
    /\ Cardinality(kept) < MaxCalls
    /\ page' = [page EXCEPT ![t] = "open"]
    /\ idle' = [idle EXCEPT ![t] = 0]
    /\ since' = [since EXCEPT ![t] = 0]
    /\ fired' = [fired EXCEPT ![t] = FALSE]
    /\ calls' = {[c EXCEPT !.mounted = @ /\ c.tab # t] : c \in kept}
                  \cup {Call(t, "me", token)}

\* The login page waits for an answer.
Waits(t) == \E c \in calls : c.tab = t /\ c.kind = "login"

Lost(call) == call.kind = "logout" /\ session # "out"

\* Each page runs the guard anew: a link keeps the calls of the tab, a reload or
\* the address bar ends them.  Nobody leaves the login page while it waits.
Visit(t) ==
    /\ ~Waits(t)
    /\ \E kept \in {calls, {c \in calls : c.tab # t}} :
          /\ Mount(t, stored, kept)
          /\ session' = IF \E c \in calls \ kept : Lost(c) THEN "doubtful" ELSE session
    /\ fresh' = [fresh EXCEPT ![t] = FALSE]
    /\ UNCHANGED <<tokens, browser>>

Active(t) ==
    /\ page[t] = "open" /\ idle[t] > 0
    /\ idle' = [idle EXCEPT ![t] = 0]
    /\ UNCHANGED <<tokens, browser, page, since, fired, fresh, calls, session>>

\* Any other call of a page.
Fetch(t) ==
    /\ page[t] # "login"
    /\ Send(t, "get")
    /\ UNCHANGED <<tokens, browser, pages, session>>

Disturbed == IF session = "in" THEN "disturbed" ELSE session
Leaving == IF session \in {"in", "disturbed"} THEN "leaving" ELSE session

\* Nav's button.
LogOut(t) ==
    /\ page[t] # "login"
    /\ Send(t, "logout")
    /\ session' = Leaving
    /\ UNCHANGED <<tokens, browser, pages>>

\* The login page's button, disabled while the page waits.
LogIn(t) ==
    /\ page[t] = "login" /\ ~Waits(t)
    /\ Send(t, "login")
    /\ UNCHANGED <<tokens, browser, pages, session>>

-----------------------------------------------------------------------------
(* The guard's interval.                                                    *)

Expired(t) == page[t] = "open" /\ idle[t] >= IdleAfter

\* Mutant: the comparison misses the moment itself.
StaleLater(t) == page[t] = "open" /\ since[t] > RefreshEvery

Stale(t) == page[t] = "open" /\ since[t] >= RefreshEvery

IdleTimer(t) ==
    /\ Expired(t)
    /\ page' = [page EXCEPT ![t] = "stopped"]
    /\ Send(t, "logout")
    /\ session' = Leaving
    /\ UNCHANGED <<tokens, browser, idle, since, fired, fresh>>

\* Mutant: lastRefresh is set before the refresh is answered.
RefreshTimerEarly(t) ==
    /\ Stale(t) /\ ~Expired(t) /\ ~fired[t]
    /\ fired' = [fired EXCEPT ![t] = TRUE]
    /\ Send(t, "refresh")
    /\ since' = [since EXCEPT ![t] = 0]
    /\ UNCHANGED <<tokens, browser, page, idle, fresh, session>>

RefreshTimer(t) ==
    /\ Stale(t) /\ ~Expired(t) /\ ~fired[t]
    /\ fired' = [fired EXCEPT ![t] = TRUE]
    /\ Send(t, "refresh")
    /\ UNCHANGED <<tokens, browser, page, idle, since, fresh, session>>

-----------------------------------------------------------------------------
(* The server.                                                              *)

\* get_current_user: the token is of type access, not expired, not denylisted.
Accepted(token) == token # None /\ left[token] > 0 /\ deny[token] = 0

Served(c, result, new) ==
    calls' = (calls \ {c}) \cup {[c EXCEPT !.result = result, !.new = new]}

\* refresh looks at the cookie alone.
ServeRefresh(c) ==
    /\ c.kind = "refresh"
    /\ IF c.cookie
       THEN \E k \in Tokens : Issued(k) /\ Served(c, "ok", k)
       ELSE Served(c, "refused", None) /\ UNCHANGED tokens
    /\ UNCHANGED session

\* login: a new session, or 401 for a wrong password.  The answer 429 of the
\* counter changes nothing here, like a call that is lost.
ServeLogin(c) ==
    /\ c.kind = "login"
    /\ \/ /\ \E k \in Tokens : Issued(k) /\ Served(c, "ok", k)
          /\ session' = IF session = "out" THEN "doubtful" ELSE session
       \/ Served(c, "refused", None) /\ UNCHANGED <<left, deny, session>>

\* logout denylists a token that has not expired, for int() of what is left.
ServeLogout(c) ==
    /\ c.kind = "logout"
    /\ Served(c, "ok", None)
    /\ IF c.token # None /\ left[c.token] > 0
       THEN \E n \in {left[c.token] - 1, left[c.token]} :
               deny' = [deny EXCEPT ![c.token] = IF n < 1 THEN 1 ELSE n]
       ELSE UNCHANGED deny
    /\ UNCHANGED <<left, session>>

Serve(c) ==
    /\ c.result = "sent"
    /\ ServeRefresh(c) \/ ServeLogin(c) \/ ServeLogout(c)
    /\ UNCHANGED <<browser, pages>>

-----------------------------------------------------------------------------
(* The answers, and calls that fail on the way.  A call that only reads is  *)
(* served in the step in which its answer arrives: within a tick, a token   *)
(* that is refused stays refused.                                           *)

\* What c's headers do to the record of a call whose own came before: a logout
\* and an answer that brings a cookie cross each other.
Passed(b, c) ==
    [b EXCEPT !.crossed =
        @ \/ (b.result = "arrived" /\ ~(b.kind = "logout" <=> c.kind = "logout"))]

\* The headers of an answer: Set-Cookie, or delete_cookie.
Arrive(c) ==
    /\ c.result = "ok"
    /\ \/ c.kind = "logout" /\ cookie' = FALSE
       \/ c.kind # "logout" /\ cookie' = TRUE
    /\ calls' = {Passed(b, c) : b \in calls \ {c}}
                  \cup {[c EXCEPT !.result = "arrived"]}
    /\ UNCHANGED <<tokens, stored, pages, session>>

ToLogin(t) ==
    /\ page' = [page EXCEPT ![t] = "login"]
    /\ idle' = [idle EXCEPT ![t] = 0] /\ since' = [since EXCEPT ![t] = 0]
    /\ fired' = [fired EXCEPT ![t] = FALSE] /\ fresh' = [fresh EXCEPT ![t] = FALSE]

\* Mutant: a refused refresh takes the cookie away.
ReceiveRefusedCookie(c) ==
    /\ IF c.kind \in {"me", "get"} THEN ~Accepted(c.token) ELSE c.result = "refused"
    /\ stored' = None
    /\ session' = IF c.token = stored THEN session ELSE Disturbed
    /\ IF c.kind = "me" THEN ToLogin(c.tab) ELSE UNCHANGED pages
    /\ cookie' = IF c.kind = "refresh" THEN FALSE ELSE cookie
    /\ calls' = calls \ {c}

\* A 401 clears the token that is stored now, whichever the call carried.
ReceiveRefused(c) ==
    /\ IF c.kind \in {"me", "get"} THEN ~Accepted(c.token) ELSE c.result = "refused"
    /\ stored' = None
    /\ session' = IF c.token = stored THEN session ELSE Disturbed
    /\ IF c.kind = "me" THEN ToLogin(c.tab) ELSE UNCHANGED pages
    /\ UNCHANGED cookie
    /\ calls' = calls \ {c}

\* setToken, and lastRefresh = the time of the timer.
ReceiveRefreshed(c) ==
    /\ c.kind = "refresh" /\ c.result = "arrived"
    /\ stored' = c.new
    /\ session' = IF session = "disturbed" THEN "in" ELSE session
    /\ IF c.mounted /\ page[c.tab] = "open"
       THEN /\ since' = [since EXCEPT ![c.tab] = 0]
            /\ fresh' = [fresh EXCEPT ![c.tab] = TRUE]
       ELSE UNCHANGED <<since, fresh>>
    /\ UNCHANGED <<cookie, page, idle, fired>>
    /\ calls' = calls \ {c}

\* setToken, and the dashboard.
ReceiveLoggedIn(c) ==
    /\ c.kind = "login" /\ c.result = "arrived"
    /\ stored' = c.new
    /\ Mount(c.tab, c.new, calls \ {c})
    /\ fresh' = [fresh EXCEPT ![c.tab] = TRUE]
    /\ session' = IF c.crossed THEN "doubtful" ELSE "in"
    /\ UNCHANGED cookie

\* An answer that may still bring a token after the logout cleared it.
Crossing ==
    \E c \in calls :
        \/ c.kind = "refresh" /\ c.cookie /\ c.result # "refused"
        \/ c.kind = "login" /\ c.result \in {"ok", "arrived"}

\* Mutant: the store is not cleared when another tab has put its token there.
ReceiveLoggedOutOwn(c) ==
    /\ c.kind = "logout" /\ c.result = "arrived"
    /\ stored' = IF c.token = stored THEN None ELSE stored
    /\ session' = IF c.crossed \/ Crossing THEN "doubtful" ELSE "out"
    /\ ToLogin(c.tab)
    /\ UNCHANGED cookie
    /\ calls' = calls \ {c}

\* clearToken, after the await.
ReceiveLoggedOut(c) ==
    /\ c.kind = "logout" /\ c.result = "arrived"
    /\ stored' = None
    /\ session' = IF c.crossed \/ Crossing THEN "doubtful" ELSE "out"
    /\ ToLogin(c.tab)
    /\ UNCHANGED cookie
    /\ calls' = calls \ {c}

ReceiveOther(c) ==
    /\ c.kind \in {"me", "get"} /\ Accepted(c.token)
    /\ calls' = calls \ {c}
    /\ UNCHANGED <<browser, pages, session>>

Receive(c) ==
    /\ \/ ReceiveRefused(c) \/ ReceiveRefreshed(c) \/ ReceiveLoggedIn(c)
       \/ ReceiveLoggedOut(c) \/ ReceiveOther(c)
    /\ UNCHANGED tokens

\* fetch throws, or the body does not come: the guard leaves for the login page,
\* logout clears all the same.  A logout that arrived goes on as if answered.
Lose(c) ==
    /\ ~(c.kind = "logout" /\ c.result = "arrived")
    /\ calls' = calls \ {c}
    /\ IF c.kind \in {"me", "logout"} THEN ToLogin(c.tab) ELSE UNCHANGED pages
    /\ stored' = IF c.kind = "logout" THEN None ELSE stored
    /\ session' = CASE Lost(c) -> "doubtful"
                    [] c.kind = "refresh" -> Disturbed
                    [] OTHER -> session
    /\ UNCHANGED <<tokens, cookie>>

-----------------------------------------------------------------------------
Sooner(n) == IF n = 0 THEN 0 ELSE n - 1

\* One tick.  Timers that are due have run and no answer is outstanding, so that
\* only the stored token is still held by anyone.
Tick ==
    /\ \A t \in Tabs : ~Expired(t) /\ (Stale(t) => fired[t])
    /\ calls = {}
    /\ left' = [k \in Tokens |-> IF k = stored THEN Sooner(left[k]) ELSE 0]
    /\ deny' = [k \in Tokens |-> IF k = stored THEN Sooner(deny[k]) ELSE 0]
    /\ idle' = [t \in Tabs |-> IF page[t] = "open" THEN idle[t] + 1 ELSE idle[t]]
    /\ since' = [t \in Tabs |-> IF page[t] = "open" /\ since[t] < AccessLife
                               THEN since[t] + 1 ELSE since[t]]
    /\ fired' = [t \in Tabs |-> FALSE]
    /\ UNCHANGED <<browser, page, fresh, calls, session>>

UserActs(t) == Visit(t) \/ Active(t) \/ Fetch(t) \/ LogOut(t) \/ LogIn(t)
Timers(t) == IdleTimer(t) \/ RefreshTimer(t)

Next ==
    \/ Tick
    \/ \E t \in Tabs : UserActs(t) \/ Timers(t)
    \/ \E c \in calls : Serve(c) \/ Arrive(c) \/ Receive(c) \/ Lose(c)

Spec == Init /\ [][Next]_vars

-----------------------------------------------------------------------------
(* Properties.                                                              *)

Kinds == {"me", "get", "refresh", "logout", "login"}
Results == {"sent", "ok", "refused", "arrived"}

Record ==
    [tab : Tabs, kind : Kinds, token : Tokens \cup {None}, cookie : BOOLEAN,
     result : Results, new : Tokens \cup {None}, mounted : BOOLEAN, crossed : BOOLEAN]

TypeOK ==
    /\ left \in [Tokens -> 0..AccessLife] /\ deny \in [Tokens -> 0..AccessLife]
    /\ stored \in Tokens \cup {None} /\ cookie \in BOOLEAN
    /\ page \in [Tabs -> {"login", "open", "stopped"}]
    /\ idle \in [Tabs -> Nat] /\ since \in [Tabs -> Nat]
    /\ fired \in [Tabs -> BOOLEAN] /\ fresh \in [Tabs -> BOOLEAN]
    /\ calls \subseteq Record
    /\ session \in {"in", "disturbed", "leaving", "out", "doubtful"}

\* Once a logout has been answered, no tab has a token or the cookie until the
\* user signs in again, unless an answer that brings a token was under way when
\* the logout was handled, or its cookie came between the logout's headers and
\* its clearToken (useAuthGuard.ts's two timers, logout and setToken in
\* api-client.ts).
SignedOutStaysOut == session = "out" => stored = None /\ ~cookie

\* Until somebody logs out, the browser keeps the cookie that renews its token,
\* whichever calls were lost or refused and whatever they carried, even calls
\* sent before the login: the next refresh mends what a stray 401 has cleared
\* (request and refreshSession in api-client.ts, refresh in auth.py).  A logout
\* sent before the login takes the cookie at its headers and ends the session
\* when it is handled.
CookieUntilLogout ==
    session \in {"in", "disturbed"}
        /\ (\A c \in calls : ~(c.kind = "logout" /\ c.result = "arrived"))
        => cookie

\* The token in use is never older than the page believes, though any tab may
\* have stored it and answers may arrive in any order (lastRefresh = now in
\* useAuthGuard.ts).
TimerFollowsToken ==
    \A t \in Tabs :
        page[t] = "open" /\ fresh[t] /\ stored # None
            => left[stored] + since[t] >= AccessLife

\* An active page that stays open keeps a valid token until something disturbs
\* the session: a logout from any tab, a lost refresh, or a 401 for another
\* token or for a wrong password, which also clears the store; and it has one
\* again from the next refresh on that any tab gets answered (useAuthGuard.ts,
\* request in api-client.ts).
KeptAlive ==
    \A t \in Tabs :
        page[t] = "open" /\ fresh[t] /\ session = "in"
            => stored # None /\ left[stored] > 0
=============================================================================
