--------------------------- MODULE SessionProofs ---------------------------
(***************************************************************************)
(* The session of Session for any number of tabs, tokens and calls and any *)
(* lifetimes.  The invariant says what a call in flight may still bring (a *)
(* token that is new, whole and held by nobody else), and what the headers *)
(* that arrived last have done to the cookie.                              *)
(***************************************************************************)
EXTENDS Session, TLAPS

\* The answer to this call brings a token.
Brings(c) == c.kind \in {"refresh", "login"} /\ c.result \in {"ok", "arrived"}

\* What it brings.
NewTokens ==
    \A c \in calls : Brings(c) =>
        /\ c.new \in Tokens /\ c.new # stored
        /\ left[c.new] = AccessLife /\ deny[c.new] = 0
        /\ \A b \in calls : b.token # c.new /\ (b.new = c.new => b = c)

\* Unless headers that say otherwise came since, the cookie is as the headers of
\* a call whose body is still to come have left it.
HeadersTold ==
    \A c \in calls : c.result = "arrived" /\ ~c.crossed => (cookie <=> c.kind # "logout")

\* A refresh carries the cookie and a login the password, and no token; a refresh
\* that is answered was sent with the cookie; what only reads has no headers that
\* matter.
Proper(c) ==
    /\ c.kind \in {"refresh", "login"} => c.token = None
    /\ c.kind = "refresh" /\ c.result \in {"ok", "arrived"} => c.cookie
    /\ c.kind \in {"me", "get"} => c.result = "sent"

AllProper == \A c \in calls : Proper(c)

NothingCrosses == session = "out" => ~Crossing

\* While the session is undisturbed, no logout is about to deny its token.
Undenied ==
    session = "in" /\ stored # None =>
        deny[stored] = 0 /\ \A c \in calls : c.kind = "logout" => c.token # stored

\* An active page is in time: its refresh is not due, or not yet sent in this
\* tick, or under way, or the token is of this tick.
InTime(t) ==
    \/ since[t] < RefreshEvery \/ ~fired[t] \/ left[stored] = AccessLife
    \/ \E c \in calls : c.tab = t /\ c.kind = "refresh" /\ c.mounted

Renewed ==
    \A t \in Tabs : page[t] = "open" /\ fresh[t] /\ session = "in" =>
        stored # None /\ left[stored] >= AccessLife - RefreshEvery /\ InTime(t)

\* The keep-alive comes before the token's end.
RenewsInTime == RefreshEvery < AccessLife

-----------------------------------------------------------------------------
(* Calls.                                                                   *)

LEMMA CallFields ==
    ASSUME TypeOK, NEW t \in Tabs, NEW kind \in Kinds, NEW token \in Tokens \cup {None}
    PROVE  LET c == Call(t, kind, token) IN
           /\ c \in Record
           /\ c.tab = t /\ c.kind = kind /\ c.result = "sent" /\ c.new = None
           /\ c.token \in {None, token}
           /\ kind \in {"refresh", "login"} => c.token = None
           /\ kind = "refresh" => (c.cookie <=> cookie) /\ c.mounted
  BY DEF Call, Record, TypeOK, Results

\* The call once it is served, once its headers are here, when other headers
\* come, and when its page is left.
Answered(c, result, new) == [c EXCEPT !.result = result, !.new = new]
Arrived(c) == [c EXCEPT !.result = "arrived"]
Left(c, t) == [c EXCEPT !.mounted = @ /\ c.tab # t]

\* What none of these changes.
Same(d, c) ==
    /\ d.tab = c.tab /\ d.kind = c.kind /\ d.token = c.token /\ d.cookie = c.cookie

LEMMA ServedFields ==
    ASSUME NEW c \in Record, NEW result \in Results, NEW new \in Tokens \cup {None}
    PROVE  LET d == Answered(c, result, new) IN
           /\ d \in Record /\ Same(d, c)
           /\ d.mounted = c.mounted /\ d.result = result /\ d.new = new
  BY DEF Record, Answered, Same

LEMMA RefusedFields ==
    ASSUME NEW c \in Record
    PROVE  LET d == Answered(c, "refused", None) IN
           /\ d \in Record /\ Same(d, c)
           /\ d.mounted = c.mounted /\ d.result = "refused" /\ d.new = None
  BY ServedFields DEF Results

LEMMA ArrivedFields ==
    ASSUME NEW c \in Record
    PROVE  LET d == Arrived(c) IN
           /\ d \in Record /\ Same(d, c)
           /\ d.mounted = c.mounted /\ d.new = c.new /\ d.result = "arrived"
  BY DEF Record, Arrived, Same, Results

LEMMA PassedFields ==
    ASSUME NEW b \in Record, NEW c \in Record
    PROVE  LET d == Passed(b, c) IN
           /\ d \in Record /\ Same(d, b)
           /\ d.mounted = b.mounted /\ d.new = b.new /\ d.result = b.result
           /\ ~d.crossed => /\ ~b.crossed
                            /\ b.result = "arrived" =>
                                  (b.kind = "logout" <=> c.kind = "logout")
  BY DEF Record, Passed, Same

LEMMA LeavingFields ==
    ASSUME NEW c \in Record, NEW t \in Tabs
    PROVE  LET d == Left(c, t) IN
           /\ d \in Record /\ Same(d, c)
           /\ d.result = c.result /\ d.new = c.new /\ d.crossed = c.crossed
           /\ c.tab # t => d.mounted = c.mounted
  BY DEF Record, Left, Same

\* A new token is nobody's.
LEMMA IssuedIsNew ==
    ASSUME TypeOK, NEW k \in Tokens, Issued(k)
    PROVE  /\ k # stored /\ k # None
           /\ \A c \in calls : c.token # k /\ c.new # k
           /\ left' \in [Tokens -> 0..AccessLife] /\ deny' \in [Tokens -> 0..AccessLife]
           /\ left'[k] = AccessLife /\ deny'[k] = 0
           /\ \A j \in Tokens : j # k => left'[j] = left[j] /\ deny'[j] = deny[j]
  BY SessionAssumption DEF Issued, Unused, TypeOK, Tokens

LEMMA NoneIsNoToken == None \notin Tokens
  BY SessionAssumption DEF Tokens

-----------------------------------------------------------------------------
(* What each kind of step does to the calls.                                *)

\* Sending adds a call.
LEMMA SendAdds ==
    ASSUME TypeOK, NEW t \in Tabs, NEW kind \in Kinds, Send(t, kind)
    PROVE  \E n \in Record :
              /\ calls' = calls \cup {n}
              /\ n.tab = t /\ n.kind = kind /\ n.result = "sent" /\ n.new = None
              /\ n.token \in {None, stored}
              /\ kind \in {"refresh", "login"} => n.token = None
              /\ kind = "refresh" => (n.cookie <=> cookie) /\ n.mounted
<1>1. stored \in Tokens \cup {None}
  BY DEF TypeOK
<1>2. calls' = calls \cup {Call(t, kind, stored)}
  BY DEF Send
<1> QED
  BY <1>1, <1>2, CallFields

\* A page that mounts adds its call for /auth/me; the others may cease to count.
LEMMA MountMoves ==
    ASSUME TypeOK, NEW t \in Tabs, NEW token \in Tokens \cup {None},
           NEW kept \in SUBSET calls, Mount(t, token, kept)
    PROVE  \E n \in Record :
              /\ calls' = {Left(c, t) : c \in kept} \cup {n}
              /\ n.tab = t /\ n.kind = "me" /\ n.result = "sent" /\ n.new = None
              /\ n.token \in {None, token}
              /\ \A c \in kept : LET d == Left(c, t) IN
                    /\ d \in Record /\ Same(d, c)
                    /\ d.result = c.result /\ d.new = c.new /\ d.crossed = c.crossed
                    /\ c.tab # t => d.mounted = c.mounted
<1>1. calls' = {Left(c, t) : c \in kept} \cup {Call(t, "me", token)}
  BY DEF Mount, Left
<1>2. \A c \in kept : c \in Record
  BY DEF TypeOK
<1> QED
  BY <1>1, <1>2, CallFields, LeavingFields DEF Kinds

\* Serving replaces a call by its answer.
LEMMA ServeReplaces ==
    ASSUME TypeOK, NEW c \in calls, Serve(c)
    PROVE  \E d \in Record :
              /\ calls' = (calls \ {c}) \cup {d}
              /\ Same(d, c) /\ d.mounted = c.mounted
              /\ d.result \in {"ok", "refused"}
              /\ \/ /\ ~Brings(d) /\ d.new = None
                    /\ left' = left /\ session' = session
                 \/ /\ c.kind = "refresh" => c.cookie
                    /\ c.kind \in {"refresh", "login"}
                    /\ d.new \in Tokens /\ Issued(d.new)
                    /\ session' = IF c.kind = "login" /\ session = "out"
                                  THEN "doubtful" ELSE session
<1>1. c \in Record
  BY DEF TypeOK
<1> DEFINE Brought(k) ==
      /\ Issued(k) /\ Served(c, "ok", k)
      /\ \/ ServeRefresh(c) /\ c.cookie
         \/ ServeLogin(c) /\ session' = IF session = "out" THEN "doubtful" ELSE session
<1>2. ASSUME NEW k \in Tokens, Brought(k)
      PROVE  \E d \in Record :
                /\ calls' = (calls \ {c}) \cup {d}
                /\ Same(d, c) /\ d.mounted = c.mounted /\ d.result = "ok"
                /\ c.kind = "refresh" => c.cookie
                /\ c.kind \in {"refresh", "login"}
                /\ d.new \in Tokens /\ Issued(d.new)
                /\ session' = IF c.kind = "login" /\ session = "out"
                              THEN "doubtful" ELSE session
  <2>1. calls' = (calls \ {c}) \cup {Answered(c, "ok", k)}
    BY <1>2 DEF Served, Answered
  <2>2. LET d == Answered(c, "ok", k) IN
        d \in Record /\ Same(d, c) /\ d.mounted = c.mounted /\ d.result = "ok" /\ d.new = k
    BY <1>1, ServedFields DEF Results
  <2>3. /\ c.kind = "refresh" => c.cookie
        /\ c.kind \in {"refresh", "login"}
        /\ session' = IF c.kind = "login" /\ session = "out" THEN "doubtful" ELSE session
    BY <1>2 DEF ServeRefresh, ServeLogin
  <2> QED
    BY <1>2, <2>1, <2>2, <2>3
<1>3. ASSUME Served(c, "refused", None), UNCHANGED <<left, session>>
      PROVE  \E d \in Record :
                /\ calls' = (calls \ {c}) \cup {d}
                /\ Same(d, c) /\ d.mounted = c.mounted /\ d.result = "refused"
                /\ d.new = None /\ left' = left /\ session' = session
  <2>1. calls' = (calls \ {c}) \cup {Answered(c, "refused", None)}
    BY <1>3 DEF Served, Answered
  <2> QED
    BY <1>1, <1>3, <2>1, RefusedFields
<1>4. ASSUME ServeLogout(c)
      PROVE  \E d \in Record :
                /\ calls' = (calls \ {c}) \cup {d}
                /\ Same(d, c) /\ d.mounted = c.mounted /\ d.result = "ok"
                /\ d.kind = "logout" /\ d.new = None /\ left' = left /\ session' = session
  <2>1. calls' = (calls \ {c}) \cup {Answered(c, "ok", None)}
    BY <1>4 DEF ServeLogout, Served, Answered
  <2>2. LET d == Answered(c, "ok", None) IN
        d \in Record /\ Same(d, c) /\ d.mounted = c.mounted /\ d.result = "ok" /\ d.new = None
    BY <1>1, ServedFields DEF Results
  <2>3. c.kind = "logout" /\ UNCHANGED <<left, session>>
    BY <1>4 DEF ServeLogout
  <2> QED
    BY <2>1, <2>2, <2>3 DEF Same
<1>5. \/ \E k \in Tokens : Brought(k)
      \/ Served(c, "refused", None) /\ UNCHANGED <<left, session>>
      \/ ServeLogout(c)
  BY DEF Serve, ServeRefresh, ServeLogin, tokens
<1> HIDE DEF Brought
<1>6. CASE \E k \in Tokens : Brought(k)
  BY <1>2, <1>6
<1>7. CASE Served(c, "refused", None) /\ UNCHANGED <<left, session>>
  BY <1>3, <1>7 DEF Brings
<1>8. CASE ServeLogout(c)
  BY <1>4, <1>8 DEF Brings
<1> QED
  BY <1>5, <1>6, <1>7, <1>8

\* Headers move one call on and tell those that arrived before.
LEMMA ArriveMoves ==
    ASSUME TypeOK, NEW c \in calls, Arrive(c)
    PROVE  /\ calls' = {Passed(b, c) : b \in calls \ {c}} \cup {Arrived(c)}
           /\ LET d == Arrived(c) IN
              /\ d \in Record /\ Same(d, c)
              /\ d.mounted = c.mounted /\ d.new = c.new /\ d.result = "arrived"
           /\ \A b \in calls : LET d == Passed(b, c) IN
              /\ d \in Record /\ Same(d, b)
              /\ d.mounted = b.mounted /\ d.new = b.new /\ d.result = b.result
              /\ ~d.crossed => /\ ~b.crossed
                               /\ b.result = "arrived" =>
                                     (b.kind = "logout" <=> c.kind = "logout")
<1>1. calls \subseteq Record
  BY DEF TypeOK
<1>2. calls' = {Passed(b, c) : b \in calls \ {c}} \cup {Arrived(c)}
  BY DEF Arrive, Arrived
<1> QED
  BY <1>1, <1>2, ArrivedFields, PassedFields

\* An answer that is handled or lost is no longer in flight.
LEMMA ReceiveEnds ==
    ASSUME NEW c \in calls, Receive(c) \/ Lose(c), ~ReceiveLoggedIn(c)
    PROVE  calls' = calls \ {c}
  BY DEF Receive, Lose, ReceiveRefused, ReceiveRefreshed, ReceiveLoggedOut, ReceiveOther

\* A call of the next state is new, or one of this state that has moved on.
New(d) ==
    /\ d.result = "sent" /\ d.new = None /\ d.token \in {None, stored'}
    /\ d.kind \in {"refresh", "login"} => d.token = None
    /\ d.kind = "refresh" => (d.cookie <=> cookie)
    /\ d.kind = "logout" => session' \notin {"in", "disturbed"}

Old(d, c) ==
    /\ Same(d, c)
    /\ \/ d.result = c.result /\ d.new = c.new /\ (~d.crossed => ~c.crossed)
       \/ /\ c.result = "sent" /\ d.result \in {"ok", "refused"}
          /\ c.kind \notin {"me", "get"}
          /\ c.kind = "refresh" /\ d.result = "ok" => c.cookie
          /\ c.kind = "login" /\ d.result = "ok" => session' # "out"
       \/ c.result = "ok" /\ d.result = "arrived" /\ d.new = c.new /\ Arrive(c)

Comes(d) == d \in Record /\ (New(d) \/ \E c \in calls : Old(d, c))

LEMMA SendsCome ==
    ASSUME TypeOK, NEW t \in Tabs, NEW kind \in Kinds, Send(t, kind), stored' = stored,
           kind = "logout" => session' \notin {"in", "disturbed"}
    PROVE  \A d \in calls' : Comes(d)
<1>1. PICK n \in Record :
         /\ calls' = calls \cup {n}
         /\ n.kind = kind /\ n.result = "sent" /\ n.new = None
         /\ n.token \in {None, stored}
         /\ kind \in {"refresh", "login"} => n.token = None
         /\ kind = "refresh" => (n.cookie <=> cookie)
  BY SendAdds
<1>2. New(n)
  BY <1>1 DEF New
<1>3. \A d \in calls : d \in Record /\ Old(d, d)
  BY DEF Old, Same, TypeOK
<1> QED
  BY <1>1, <1>2, <1>3 DEF Comes

LEMMA UserCallsCome ==
    ASSUME TypeOK, NEW t \in Tabs, UserActs(t) \/ Timers(t)
    PROVE  \A d \in calls' : Comes(d)
<1>1. CASE Visit(t)
  <2>1. PICK kept \in SUBSET calls : Mount(t, stored, kept)
    BY <1>1 DEF Visit
  <2>2. stored \in Tokens \cup {None} /\ stored' = stored
    BY <1>1 DEF TypeOK, Visit, browser
  <2>3. PICK n \in Record :
           /\ calls' = {Left(c, t) : c \in kept} \cup {n}
           /\ n.kind = "me" /\ n.result = "sent" /\ n.new = None
           /\ n.token \in {None, stored}
           /\ \A c \in kept : LET d == Left(c, t) IN
                 /\ d \in Record /\ Same(d, c)
                 /\ d.result = c.result /\ d.new = c.new /\ d.crossed = c.crossed
    BY <2>1, <2>2, MountMoves
  <2>4. New(n)
    BY <2>2, <2>3 DEF New
  <2>5. \A c \in kept : Left(c, t) \in Record /\ Old(Left(c, t), c)
    BY <2>3 DEF Old
  <2> QED
    BY <2>3, <2>4, <2>5 DEF Comes
<1>2. CASE Active(t)
  BY <1>2 DEF Active, Comes, Old, Same, TypeOK
<1>3. CASE Fetch(t)
  BY <1>3, SendsCome DEF Fetch, Kinds, browser
<1>4. CASE LogOut(t)
  BY <1>4, SendsCome DEF LogOut, Leaving, Kinds, browser
<1>5. CASE IdleTimer(t)
  BY <1>5, SendsCome DEF IdleTimer, Leaving, Kinds, browser
<1>6. CASE RefreshTimer(t)
  BY <1>6, SendsCome DEF RefreshTimer, Kinds, browser
<1>7. CASE LogIn(t)
  BY <1>7, SendsCome DEF LogIn, Kinds, browser
<1> QED
  BY <1>1, <1>2, <1>3, <1>4, <1>5, <1>6, <1>7 DEF UserActs, Timers

LEMMA CallsCome ==
    ASSUME TypeOK, [Next]_vars PROVE \A d \in calls' : Comes(d)
<1>1. \A d \in calls : d \in Record /\ Old(d, d)
  BY DEF Old, Same, TypeOK
<1>2. ASSUME NEW c \in calls, Serve(c) PROVE \A d \in calls' : Comes(d)
  <2>1. PICK d \in Record :
           /\ calls' = (calls \ {c}) \cup {d}
           /\ Same(d, c)
           /\ d.result \in {"ok", "refused"}
           /\ \/ ~Brings(d)
              \/ /\ c.kind = "refresh" => c.cookie
                 /\ session' = IF c.kind = "login" /\ session = "out"
                               THEN "doubtful" ELSE session
    BY <1>2, ServeReplaces
  <2>2. c.result = "sent" /\ c.kind \notin {"me", "get"}
    BY <1>2 DEF Serve, ServeRefresh, ServeLogin, ServeLogout
  <2>3. Old(d, c)
    BY <2>1, <2>2 DEF Old, Brings, Same
  <2> QED
    BY <1>1, <2>1, <2>3 DEF Comes
<1>3. ASSUME NEW c \in calls, Arrive(c) PROVE \A d \in calls' : Comes(d)
  <2>1. c.result = "ok"
    BY <1>3 DEF Arrive
  <2>2. Arrived(c) \in Record /\ Old(Arrived(c), c)
    BY <1>3, <2>1, ArriveMoves DEF Old, Same
  <2>3. \A b \in calls : Passed(b, c) \in Record /\ Old(Passed(b, c), b)
    BY <1>3, ArriveMoves DEF Old
  <2> QED
    BY <1>3, <2>2, <2>3, ArriveMoves DEF Comes
<1>4. ASSUME NEW c \in calls, Receive(c) \/ Lose(c) PROVE \A d \in calls' : Comes(d)
  <2>1. CASE ReceiveLoggedIn(c)
    <3>1. Mount(c.tab, c.new, calls \ {c}) /\ stored' = c.new
          /\ c.tab \in Tabs /\ c.new \in Tokens \cup {None}
      BY <2>1 DEF ReceiveLoggedIn, TypeOK, Record
    <3>2. PICK n \in Record :
             /\ calls' = {Left(b, c.tab) : b \in calls \ {c}} \cup {n}
             /\ n.kind = "me" /\ n.result = "sent" /\ n.new = None
             /\ n.token \in {None, c.new}
             /\ \A b \in calls \ {c} : LET d == Left(b, c.tab) IN
                   /\ d \in Record /\ Same(d, b)
                   /\ d.result = b.result /\ d.new = b.new /\ d.crossed = b.crossed
      BY <3>1, MountMoves
    <3>3. New(n)
      BY <3>1, <3>2 DEF New
    <3>4. \A b \in calls \ {c} : Left(b, c.tab) \in Record /\ Old(Left(b, c.tab), b)
      BY <3>2 DEF Old
    <3> QED
      BY <3>2, <3>3, <3>4 DEF Comes
  <2>2. CASE ~ReceiveLoggedIn(c)
    BY <1>1, <1>4, <2>2, ReceiveEnds DEF Comes
  <2> QED
    BY <2>1, <2>2
<1>5. CASE Tick \/ UNCHANGED vars
  BY <1>1, <1>5 DEF Tick, vars, Comes
<1> QED
  BY <1>2, <1>3, <1>4, <1>5, UserCallsCome DEF Next

-----------------------------------------------------------------------------
(* Types.                                                                   *)

LEMMA TypeStarts == Init => TypeOK
<1> SUFFICES ASSUME Init PROVE TypeOK
  OBVIOUS
<1>1. left \in [Tokens -> 0..AccessLife] /\ deny \in [Tokens -> 0..AccessLife]
  BY SessionAssumption DEF Init
<1> QED
  BY <1>1 DEF Init, TypeOK

LEMMA MountTyped ==
    ASSUME TypeOK, NEW t \in Tabs, NEW token, NEW kept, Mount(t, token, kept)
    PROVE  /\ page' \in [Tabs -> {"login", "open", "stopped"}]
           /\ idle' \in [Tabs -> Nat] /\ since' \in [Tabs -> Nat]
           /\ fired' \in [Tabs -> BOOLEAN]
  BY DEF Mount, TypeOK

LEMMA TypeUser ==
    ASSUME TypeOK, NEW t \in Tabs, UserActs(t) \/ Timers(t), calls' \subseteq Record
    PROVE  TypeOK'
<1>1. CASE Visit(t)
  <2>1. session' \in {"in", "disturbed", "leaving", "out", "doubtful"}
    BY <1>1 DEF Visit, TypeOK
  <2>2. fresh' \in [Tabs -> BOOLEAN]
    BY <1>1 DEF Visit, TypeOK
  <2> QED
    BY <1>1, <2>1, <2>2, MountTyped DEF Visit, TypeOK, tokens, browser
<1>2. CASE Active(t)
  BY <1>2 DEF Active, TypeOK, tokens, browser
<1>3. CASE Fetch(t) \/ LogIn(t)
  BY <1>3 DEF Fetch, LogIn, TypeOK, tokens, browser, pages
<1>4. CASE LogOut(t)
  BY <1>4 DEF LogOut, Leaving, TypeOK, tokens, browser, pages
<1>5. CASE IdleTimer(t)
  BY <1>5 DEF IdleTimer, Leaving, TypeOK, tokens, browser
<1>6. CASE RefreshTimer(t)
  BY <1>6 DEF RefreshTimer, TypeOK, tokens, browser
<1> QED
  BY <1>1, <1>2, <1>3, <1>4, <1>5, <1>6 DEF UserActs, Timers

LEMMA TypeServe ==
    ASSUME TypeOK, NEW c \in calls, Serve(c), calls' \subseteq Record PROVE TypeOK'
<1>1. c \in Record /\ session \in {"in", "disturbed", "leaving", "out", "doubtful"}
  BY DEF TypeOK
<1>2. left' \in [Tokens -> 0..AccessLife] /\ deny' \in [Tokens -> 0..AccessLife]
  <2>1. CASE \E k \in Tokens : Issued(k)
    BY <2>1, IssuedIsNew
  <2>2. CASE ~\E k \in Tokens : Issued(k)
    <3>1. CASE ServeLogout(c)
      BY <1>1, <3>1, SessionAssumption DEF ServeLogout, TypeOK, Record
    <3>2. CASE ~ServeLogout(c)
      BY <2>2, <3>2 DEF Serve, ServeRefresh, ServeLogin, tokens, TypeOK
    <3> QED
      BY <3>1, <3>2
  <2> QED
    BY <2>1, <2>2
<1>3. session' \in {session, "doubtful"}
  BY DEF Serve, ServeRefresh, ServeLogin, ServeLogout
<1> QED
  BY <1>1, <1>2, <1>3 DEF Serve, TypeOK, browser, pages

LEMMA LeavingTyped ==
    ASSUME TypeOK, NEW c \in calls, ToLogin(c.tab) \/ UNCHANGED pages
    PROVE  /\ page' \in [Tabs -> {"login", "open", "stopped"}]
           /\ idle' \in [Tabs -> Nat] /\ since' \in [Tabs -> Nat]
           /\ fired' \in [Tabs -> BOOLEAN] /\ fresh' \in [Tabs -> BOOLEAN]
<1>1. CASE ToLogin(c.tab)
  BY <1>1 DEF ToLogin, TypeOK
<1>2. CASE UNCHANGED pages
  BY <1>2 DEF pages, TypeOK
<1> QED
  BY <1>1, <1>2

LEMMA TypeReceive ==
    ASSUME TypeOK, NEW c \in calls, Receive(c) \/ Lose(c), calls' \subseteq Record
    PROVE  TypeOK'
<1>1. /\ c \in Record /\ c.tab \in Tabs /\ c.new \in Tokens \cup {None}
      /\ c.mounted \in BOOLEAN
  BY DEF TypeOK, Record
<1>2. UNCHANGED tokens /\ cookie' = cookie
  BY DEF Receive, Lose, ReceiveRefused, ReceiveRefreshed, ReceiveLoggedIn,
     ReceiveLoggedOut, ReceiveOther, browser
<1>3. /\ stored' \in Tokens \cup {None}
      /\ session' \in {"in", "disturbed", "leaving", "out", "doubtful"}
  BY <1>1 DEF Receive, Lose, ReceiveRefused, ReceiveRefreshed, ReceiveLoggedIn,
     ReceiveLoggedOut, ReceiveOther, browser, Disturbed, TypeOK
<1>4. CASE Lose(c) \/ ReceiveRefused(c) \/ ReceiveLoggedOut(c) \/ ReceiveOther(c)
  <2>1. ToLogin(c.tab) \/ UNCHANGED pages
    BY <1>4 DEF Lose, ReceiveRefused, ReceiveLoggedOut, ReceiveOther
  <2> QED
    BY <1>2, <1>3, <2>1, LeavingTyped DEF TypeOK, tokens
<1>5. CASE ReceiveRefreshed(c)
  <2>1. since' \in [Tabs -> Nat] /\ fresh' \in [Tabs -> BOOLEAN]
    <3>1. CASE c.mounted /\ page[c.tab] = "open"
      <4>1. /\ since' = [since EXCEPT ![c.tab] = 0]
            /\ fresh' = [fresh EXCEPT ![c.tab] = TRUE]
        BY <1>5, <3>1 DEF ReceiveRefreshed
      <4>2. since' \in [Tabs -> Nat]
        BY <1>1, <4>1 DEF TypeOK
      <4>3. fresh' \in [Tabs -> BOOLEAN]
        BY <1>1, <4>1 DEF TypeOK
      <4> QED
        BY <4>2, <4>3
    <3>2. CASE ~(c.mounted /\ page[c.tab] = "open")
      BY <1>5, <3>2 DEF ReceiveRefreshed, TypeOK
    <3> QED
      BY <3>1, <3>2
  <2> QED
    BY <1>2, <1>3, <1>5, <2>1 DEF ReceiveRefreshed, TypeOK, tokens
<1>6. CASE ReceiveLoggedIn(c)
  <2>1. Mount(c.tab, c.new, calls \ {c}) /\ fresh' \in [Tabs -> BOOLEAN]
    BY <1>6 DEF ReceiveLoggedIn, TypeOK
  <2> QED
    BY <1>1, <1>2, <1>3, <2>1, MountTyped DEF TypeOK, tokens
<1> QED
  BY <1>4, <1>5, <1>6 DEF Receive

LEMMA TypeTick == ASSUME TypeOK, Tick PROVE TypeOK'
<1>1. left' \in [Tokens -> 0..AccessLife] /\ deny' \in [Tokens -> 0..AccessLife]
  BY SessionAssumption DEF Tick, Sooner, TypeOK
<1>2. idle' \in [Tabs -> Nat] /\ since' \in [Tabs -> Nat] /\ fired' \in [Tabs -> BOOLEAN]
  BY SessionAssumption DEF Tick, TypeOK
<1> QED
  BY <1>1, <1>2 DEF Tick, TypeOK, browser

LEMMA TypeKept == TypeOK /\ [Next]_vars => TypeOK'
<1> SUFFICES ASSUME TypeOK, [Next]_vars PROVE TypeOK'
  OBVIOUS
<1>1. calls' \subseteq Record
  BY CallsCome DEF Comes
<1>2. ASSUME NEW c \in calls, Arrive(c) PROVE TypeOK'
  BY <1>1, <1>2 DEF Arrive, TypeOK, tokens, pages
<1>3. CASE UNCHANGED vars
  BY <1>3 DEF vars, tokens, browser, pages, TypeOK
<1> QED
  BY <1>1, <1>2, <1>3, TypeTick, TypeUser, TypeServe, TypeReceive DEF Next

-----------------------------------------------------------------------------
(* What is under way.                                                       *)

LEMMA ProperKept == TypeOK /\ AllProper /\ [Next]_vars => AllProper'
<1> SUFFICES ASSUME TypeOK, AllProper, [Next]_vars, NEW d \in calls' PROVE Proper(d)
  BY DEF AllProper
<1>1. d \in Record /\ (New(d) \/ \E c \in calls : Old(d, c))
  BY CallsCome DEF Comes
<1>2. CASE New(d)
  BY <1>2 DEF New, Proper
<1>3. ASSUME NEW c \in calls, Old(d, c) PROVE Proper(d)
  <2>1. Proper(c) /\ d.kind = c.kind /\ d.token = c.token /\ d.cookie = c.cookie
    BY <1>3 DEF AllProper, Old, Same
  <2> QED
    BY <1>3, <2>1 DEF Proper, Old
<1> QED
  BY <1>1, <1>2, <1>3

\* The calls of K move on to F[c] and bring what they brought; other calls bring
\* nothing.
Moves(K, F) ==
    /\ K \subseteq calls
    /\ \A c \in K : /\ F[c].token = c.token /\ F[c].new \in {c.new, None}
                    /\ Brings(F[c]) => Brings(c) /\ F[c].new = c.new
    /\ \A d \in calls' :
          \/ \E c \in K : d = F[c]
          \/ ~Brings(d) /\ d.new = None /\ d.token \in {None, stored'}
    /\ \A c \in K : Brings(c) =>
          /\ c.new # stored'
          /\ left'[c.new] = left[c.new] /\ deny'[c.new] = deny[c.new]

LEMMA MovedKeepNew == ASSUME NewTokens, NEW K, NEW F, Moves(K, F) PROVE NewTokens'
<1> USE DEF Moves
<1> SUFFICES ASSUME NEW e \in calls', Brings(e)
             PROVE  /\ e.new \in Tokens /\ e.new # stored'
                    /\ left'[e.new] = AccessLife /\ deny'[e.new] = 0
                    /\ \A b \in calls' : b.token # e.new /\ (b.new = e.new => b = e)
  BY DEF NewTokens, Brings
<1>1. PICK c \in K : e = F[c]
  OBVIOUS
<1>2. Brings(c) /\ e.new = c.new
  BY <1>1
<1>3. /\ e.new \in Tokens /\ e.new # stored' /\ e.new # None
      /\ left'[e.new] = AccessLife /\ deny'[e.new] = 0
  BY <1>2, NoneIsNoToken DEF NewTokens
<1>4. ASSUME NEW b \in calls' PROVE b.token # e.new /\ (b.new = e.new => b = e)
  <2>1. CASE b.new = None /\ b.token \in {None, stored'}
    BY <1>3, <2>1
  <2>2. ASSUME NEW a \in K, b = F[a]
        PROVE  b.token # e.new /\ (b.new = e.new => b = e)
    <3>1. a.token # c.new /\ (a.new = c.new => a = c)
      BY <1>2 DEF NewTokens
    <3>2. b.token = a.token /\ b.new \in {a.new, None}
      BY <2>2
    <3> QED
      BY <1>1, <1>2, <1>3, <2>2, <3>1, <3>2
  <2> QED
    BY <2>1, <2>2
<1> QED
  BY <1>3, <1>4

LEMMA SendKeepsNew ==
    ASSUME TypeOK, NewTokens, NEW t \in Tabs, NEW kind \in Kinds, Send(t, kind),
           UNCHANGED <<tokens, stored>>
    PROVE  NewTokens'
<1>1. PICK n \in Record :
         /\ calls' = calls \cup {n}
         /\ n.result = "sent" /\ n.new = None /\ n.token \in {None, stored}
  BY SendAdds
<1> DEFINE F == [c \in calls |-> c]
<1>2. \A c \in calls : F[c] = c
  OBVIOUS
<1>3. ~Brings(n)
  BY <1>1 DEF Brings
<1> HIDE DEF F
<1> QED
  <2>1. Moves(calls, F)
    BY <1>1, <1>2, <1>3 DEF Moves, NewTokens, tokens
  <2> QED
    BY <2>1, MovedKeepNew

LEMMA MountKeepsNew ==
    ASSUME TypeOK, NewTokens, NEW t \in Tabs, NEW kept \in SUBSET calls,
           Mount(t, stored', kept), stored' \in Tokens \cup {None}, UNCHANGED tokens,
           \A c \in kept : Brings(c) => c.new # stored'
    PROVE  NewTokens'
<1>1. PICK n \in Record :
         /\ calls' = {Left(c, t) : c \in kept} \cup {n}
         /\ n.result = "sent" /\ n.new = None /\ n.token \in {None, stored'}
         /\ \A c \in kept : LET d == Left(c, t) IN
               Same(d, c) /\ d.result = c.result /\ d.new = c.new
  BY MountMoves
<1> DEFINE F == [c \in kept |-> Left(c, t)]
<1>2. \A c \in kept : F[c] = Left(c, t)
  OBVIOUS
<1>3. ~Brings(n)
  BY <1>1 DEF Brings
<1> HIDE DEF F
<1>4. \A c \in kept : /\ F[c].token = c.token /\ F[c].new = c.new
                      /\ Brings(F[c]) => Brings(c)
  BY <1>1, <1>2 DEF Same, Brings
<1> QED
  <2>1. Moves(kept, F)
    BY <1>1, <1>2, <1>3, <1>4 DEF Moves, tokens
  <2> QED
    BY <2>1, MovedKeepNew

LEMMA IssueKeepsNew ==
    ASSUME TypeOK, NewTokens, NEW c \in calls, NEW d \in Record,
           calls' = (calls \ {c}) \cup {d}, Same(d, c), stored' = stored,
           d.new \in Tokens, Issued(d.new)
    PROVE  NewTokens'
<1>1. /\ d.new # stored /\ \A b \in calls : b.token # d.new /\ b.new # d.new
      /\ left'[d.new] = AccessLife /\ deny'[d.new] = 0
      /\ \A j \in Tokens : j # d.new => left'[j] = left[j] /\ deny'[j] = deny[j]
  BY IssuedIsNew
<1>2. d.token = c.token
  BY DEF Same
<1>3. \A b \in calls' : b.token # d.new /\ (b.new = d.new => b = d)
  BY <1>1, <1>2
<1>4. ASSUME NEW e \in calls, e # c, Brings(e)
      PROVE  /\ e.new \in Tokens /\ e.new # stored
             /\ left'[e.new] = AccessLife /\ deny'[e.new] = 0
             /\ \A b \in calls' : b.token # e.new /\ (b.new = e.new => b = e)
  <2>1. /\ e.new \in Tokens /\ e.new # stored /\ e.new # d.new
        /\ left[e.new] = AccessLife /\ deny[e.new] = 0
    BY <1>1, <1>4 DEF NewTokens
  <2>2. \A b \in calls : b.token # e.new /\ (b.new = e.new => b = e)
    BY <1>4 DEF NewTokens
  <2> QED
    BY <1>1, <1>2, <2>1, <2>2
<1>5. \A e \in calls' : e = d \/ (e \in calls /\ e # c)
  OBVIOUS
<1> QED
  BY <1>1, <1>3, <1>4, <1>5 DEF NewTokens, Brings

LEMMA ServeKeepsNew ==
    ASSUME TypeOK, NewTokens, NEW c \in calls, Serve(c) PROVE NewTokens'
<1>1. PICK d \in Record :
         /\ calls' = (calls \ {c}) \cup {d} /\ Same(d, c)
         /\ \/ ~Brings(d) /\ d.new = None /\ left' = left
            \/ d.new \in Tokens /\ Issued(d.new)
  BY ServeReplaces
<1>2. stored' = stored
  BY DEF Serve, browser
<1>3. CASE ~Brings(d) /\ d.new = None /\ left' = left /\ ~\E k \in Tokens : Issued(k)
  <2>1. \A j \in Tokens : j # c.token => deny'[j] = deny[j]
    BY <1>3 DEF Serve, ServeRefresh, ServeLogin, ServeLogout, TypeOK, tokens
  <2> DEFINE F == [b \in calls |-> IF b = c THEN d ELSE b]
  <2>2. \A b \in calls : F[b] = IF b = c THEN d ELSE b
    OBVIOUS
  <2> HIDE DEF F
  <2>3. \A b \in calls : /\ F[b].token = b.token /\ F[b].new \in {b.new, None}
                         /\ Brings(F[b]) => Brings(b) /\ F[b].new = b.new
    BY <1>1, <1>3, <2>2 DEF Same
  <2>4. \A e \in calls' : \E b \in calls : e = F[b]
    BY <1>1, <2>2
  <2>5. \A b \in calls : Brings(b) =>
           b.new # stored' /\ left'[b.new] = left[b.new] /\ deny'[b.new] = deny[b.new]
    BY <1>2, <1>3, <2>1 DEF NewTokens
  <2> QED
    <3>1. Moves(calls, F)
      BY <2>3, <2>4, <2>5 DEF Moves
    <3> QED
      BY <3>1, MovedKeepNew
<1>4. CASE d.new \in Tokens /\ Issued(d.new)
  BY <1>1, <1>2, <1>4, IssueKeepsNew
<1>5. ASSUME NEW k \in Tokens, Issued(k), ~Brings(d), d.new = None PROVE NewTokens'
  <2>1. \A b \in calls : b.new # k
    BY <1>5, IssuedIsNew
  <2>2. \A j \in Tokens : j # k => left'[j] = left[j] /\ deny'[j] = deny[j]
    BY <1>5, IssuedIsNew
  <2> DEFINE F == [b \in calls |-> IF b = c THEN d ELSE b]
  <2>3. \A b \in calls : F[b] = IF b = c THEN d ELSE b
    OBVIOUS
  <2> HIDE DEF F
  <2>4. \A b \in calls : /\ F[b].token = b.token /\ F[b].new \in {b.new, None}
                         /\ Brings(F[b]) => Brings(b) /\ F[b].new = b.new
    BY <1>1, <1>5, <2>3 DEF Same
  <2>5. \A e \in calls' : \E b \in calls : e = F[b]
    BY <1>1, <2>3
  <2>6. \A b \in calls : Brings(b) =>
           b.new # stored' /\ left'[b.new] = left[b.new] /\ deny'[b.new] = deny[b.new]
    BY <1>2, <2>1, <2>2 DEF NewTokens
  <2> QED
    <3>1. Moves(calls, F)
      BY <2>4, <2>5, <2>6 DEF Moves
    <3> QED
      BY <3>1, MovedKeepNew
<1> QED
  BY <1>1, <1>3, <1>4, <1>5

LEMMA ArriveKeepsNew ==
    ASSUME TypeOK, NewTokens, NEW c \in calls, Arrive(c) PROVE NewTokens'
<1> DEFINE F == [b \in calls |-> IF b = c THEN Arrived(c) ELSE Passed(b, c)]
<1>1. \A b \in calls : F[b] = IF b = c THEN Arrived(c) ELSE Passed(b, c)
  OBVIOUS
<1>2. calls' = {Passed(b, c) : b \in calls \ {c}} \cup {Arrived(c)}
  BY ArriveMoves
<1>3. c.result = "ok" /\ UNCHANGED <<left, deny, stored>>
  BY DEF Arrive, tokens
<1> HIDE DEF F
<1>4. \A b \in calls : /\ F[b].token = b.token /\ F[b].new = b.new
                       /\ Brings(F[b]) => Brings(b)
  BY <1>1, <1>3, ArriveMoves DEF Same, Brings
<1>5. Moves(calls, F)
  BY <1>1, <1>2, <1>3, <1>4 DEF Moves, NewTokens
<1> QED
  BY <1>5, MovedKeepNew

\* No token goes into the store but one that a call brought.
LEMMA AnswerKeepsNew ==
    ASSUME TypeOK, NewTokens, NEW c \in calls, Receive(c) \/ Lose(c) PROVE NewTokens'
<1>1. UNCHANGED tokens
  BY DEF Receive, Lose
<1>2. CASE ReceiveLoggedIn(c)
  <2>1. /\ stored' = c.new /\ Mount(c.tab, stored', calls \ {c}) /\ Brings(c)
        /\ c.tab \in Tabs /\ stored' \in Tokens \cup {None}
    BY <1>2 DEF ReceiveLoggedIn, Brings, TypeOK, Record
  <2>2. \A b \in calls \ {c} : Brings(b) => b.new # stored'
    BY <2>1 DEF NewTokens
  <2> QED
    BY <1>1, <2>1, <2>2, MountKeepsNew
<1>3. CASE ~ReceiveLoggedIn(c)
  <2>1. calls' = calls \ {c}
    BY <1>3, ReceiveEnds
  <2>2. stored' \in {stored, None} \/ (Brings(c) /\ stored' = c.new)
    BY <1>3 DEF Receive, Lose, ReceiveRefused, ReceiveRefreshed, ReceiveLoggedOut,
       ReceiveOther, Brings, browser
  <2> QED
    BY <1>1, <2>1, <2>2, NoneIsNoToken DEF NewTokens, Brings, tokens
<1> QED
  BY <1>2, <1>3

LEMMA NewTokensKept ==
    TypeOK /\ NewTokens /\ [Next]_vars => NewTokens'
<1> SUFFICES ASSUME TypeOK, NewTokens, [Next]_vars PROVE NewTokens'
  OBVIOUS
<1>1. ASSUME NEW t \in Tabs, UserActs(t) \/ Timers(t) PROVE NewTokens'
  <2>1. CASE Visit(t)
    <3>1. PICK kept \in SUBSET calls : Mount(t, stored', kept)
      BY <2>1 DEF Visit, browser
    <3>2. stored' \in Tokens \cup {None} /\ stored' = stored /\ UNCHANGED tokens
      BY <2>1 DEF Visit, browser, TypeOK
    <3>3. \A c \in kept : Brings(c) => c.new # stored'
      BY <3>2 DEF NewTokens
    <3> QED
      BY <3>1, <3>2, <3>3, MountKeepsNew
  <2>2. CASE Active(t)
    BY <2>2 DEF Active, NewTokens, Brings, tokens, browser
  <2>3. CASE Fetch(t) \/ LogOut(t) \/ LogIn(t) \/ IdleTimer(t) \/ RefreshTimer(t)
    BY <2>3, SendKeepsNew
       DEF Fetch, LogOut, LogIn, IdleTimer, RefreshTimer, browser, Kinds
  <2> QED
    BY <1>1, <2>1, <2>2, <2>3 DEF UserActs, Timers
<1>2. CASE Tick
  BY <1>2 DEF Tick, NewTokens
<1>3. CASE UNCHANGED vars
  BY <1>3 DEF vars, tokens, browser, NewTokens, Brings
<1> QED
  BY <1>1, <1>2, <1>3, ServeKeepsNew, ArriveKeepsNew, AnswerKeepsNew DEF Next

-----------------------------------------------------------------------------
(* The cookie and the end of a session.                                     *)

\* Only headers change the cookie.
LEMMA OnlyHeaders ==
    ASSUME [Next]_vars, ~\E c \in calls : Arrive(c) PROVE cookie' = cookie
<1>1. ASSUME NEW t \in Tabs, UserActs(t) \/ Timers(t) PROVE cookie' = cookie
  BY <1>1 DEF UserActs, Timers, Visit, Active, Fetch, LogOut, LogIn, IdleTimer,
     RefreshTimer, browser
<1>2. ASSUME NEW c \in calls, Serve(c) PROVE cookie' = cookie
  BY <1>2 DEF Serve, browser
<1>3. ASSUME NEW c \in calls, Receive(c) \/ Lose(c) PROVE cookie' = cookie
  BY <1>3 DEF Receive, Lose, ReceiveRefused, ReceiveRefreshed, ReceiveLoggedIn,
     ReceiveLoggedOut, ReceiveOther, browser
<1>4. CASE Tick \/ UNCHANGED vars
  BY <1>4 DEF Tick, vars, browser
<1> QED
  BY <1>1, <1>2, <1>3, <1>4 DEF Next

LEMMA HeadersKept == TypeOK /\ HeadersTold /\ [Next]_vars => HeadersTold'
<1> SUFFICES ASSUME TypeOK, HeadersTold, [Next]_vars,
                    NEW d \in calls', d.result = "arrived", ~d.crossed
             PROVE  cookie' <=> d.kind # "logout"
  BY DEF HeadersTold
<1>1. ASSUME NEW c \in calls, Arrive(c) PROVE cookie' <=> d.kind # "logout"
  <2>1. cookie' <=> c.kind # "logout"
    BY <1>1 DEF Arrive
  <2>2. CASE d = Arrived(c)
    BY <1>1, <2>1, <2>2, ArriveMoves DEF Same
  <2>3. ASSUME NEW b \in calls, d = Passed(b, c) PROVE cookie' <=> d.kind # "logout"
    <3>1. b.result = "arrived" /\ d.kind = b.kind /\ (b.kind = "logout" <=> c.kind = "logout")
      BY <1>1, <2>3, ArriveMoves DEF Same
    <3> QED
      BY <2>1, <3>1
  <2> QED
    BY <1>1, <2>2, <2>3, ArriveMoves
<1>2. CASE ~\E c \in calls : Arrive(c)
  <2>1. PICK c \in calls : Old(d, c)
    BY CallsCome DEF Comes, New
  <2>2. c.result = "arrived" /\ ~c.crossed /\ c.kind = d.kind
    BY <1>2, <2>1 DEF Old, Same
  <2> QED
    BY <1>2, <2>2, OnlyHeaders DEF HeadersTold
<1> QED
  BY <1>1, <1>2

\* The headers of a logout that is not handled yet have arrived.
LoggingOut == \E c \in calls : c.kind = "logout" /\ c.result = "arrived"
InSession == session \in {"in", "disturbed"}

\* They are forgotten only with the session.
LEMMA LoggingOutEndsSession ==
    ASSUME TypeOK, [Next]_vars, InSession', ~LoggingOut',
           ~\E c \in calls : ReceiveLoggedIn(c) \/ Arrive(c)
    PROVE  InSession /\ ~LoggingOut
<1>1. ASSUME NEW t \in Tabs, UserActs(t) \/ Timers(t) PROVE InSession /\ ~LoggingOut
  <2>1. CASE Visit(t)
    <3>1. PICK kept \in SUBSET calls :
             /\ Mount(t, stored, kept)
             /\ session' = IF \E c \in calls \ kept : Lost(c) THEN "doubtful" ELSE session
      BY <2>1 DEF Visit
    <3>2. InSession /\ ~\E c \in calls \ kept : c.kind = "logout"
      BY <3>1 DEF InSession, Lost
    <3>3. \A c \in kept : /\ Left(c, t) \in calls' /\ Same(Left(c, t), c)
                          /\ Left(c, t).result = c.result
      <4>1. stored \in Tokens \cup {None}
        BY DEF TypeOK
      <4> QED
        BY <3>1, <4>1, MountMoves
    <3> QED
      BY <3>2, <3>3 DEF LoggingOut, Same
  <2>2. CASE Active(t)
    BY <2>2 DEF Active, InSession, LoggingOut
  <2>3. CASE Fetch(t) \/ LogIn(t) \/ RefreshTimer(t)
    BY <2>3 DEF Fetch, LogIn, RefreshTimer, Send, InSession, LoggingOut
  <2>4. CASE LogOut(t) \/ IdleTimer(t)
    BY <2>4 DEF LogOut, IdleTimer, Leaving, InSession
  <2> QED
    BY <1>1, <2>1, <2>2, <2>3, <2>4 DEF UserActs, Timers
<1>2. ASSUME NEW c \in calls, Serve(c) PROVE InSession /\ ~LoggingOut
  <2>1. c.result = "sent" /\ \A b \in calls : b # c => b \in calls'
    BY <1>2, ServeReplaces DEF Serve
  <2>2. session' \in {session, "doubtful"}
    BY <1>2 DEF Serve, ServeRefresh, ServeLogin, ServeLogout
  <2> QED
    BY <2>1, <2>2 DEF InSession, LoggingOut
<1>3. ASSUME NEW c \in calls, Receive(c) \/ Lose(c), ~ReceiveLoggedIn(c)
      PROVE  InSession /\ ~LoggingOut
  <2>1. calls' = calls \ {c}
    BY <1>3, ReceiveEnds
  <2>2. InSession /\ ~(c.kind = "logout" /\ c.result = "arrived")
    BY <1>3 DEF Receive, Lose, ReceiveRefused, ReceiveRefreshed, ReceiveLoggedOut,
       ReceiveOther, Disturbed, Lost, InSession
  <2> QED
    BY <2>1, <2>2 DEF LoggingOut
<1>4. CASE Tick \/ UNCHANGED vars
  BY <1>4 DEF Tick, vars, InSession, LoggingOut
<1> QED
  BY <1>1, <1>2, <1>3, <1>4 DEF Next

LEMMA CookieKept ==
    TypeOK /\ HeadersTold /\ CookieUntilLogout /\ [Next]_vars => CookieUntilLogout'
<1> SUFFICES ASSUME TypeOK, HeadersTold, CookieUntilLogout, [Next]_vars,
                    InSession', ~LoggingOut'
             PROVE  cookie'
  BY DEF CookieUntilLogout, InSession, LoggingOut
<1>1. ASSUME NEW c \in calls, Arrive(c) PROVE cookie'
  <2>1. Arrived(c) \in calls' /\ Arrived(c).kind = c.kind /\ Arrived(c).result = "arrived"
    BY <1>1, ArriveMoves DEF Same
  <2>2. c.kind # "logout"
    BY <2>1 DEF LoggingOut
  <2> QED
    BY <1>1, <2>2 DEF Arrive
<1>2. ASSUME NEW c \in calls, ReceiveLoggedIn(c) PROVE cookie'
  <2>1. c.kind = "login" /\ c.result = "arrived" /\ cookie' = cookie /\ ~c.crossed
    BY <1>2 DEF ReceiveLoggedIn, InSession
  <2> QED
    BY <2>1 DEF HeadersTold
<1>3. CASE ~\E c \in calls : ReceiveLoggedIn(c) \/ Arrive(c)
  <2>1. InSession /\ ~LoggingOut
    BY <1>3, LoggingOutEndsSession
  <2> QED
    BY <1>3, <2>1, OnlyHeaders DEF CookieUntilLogout, InSession, LoggingOut
<1> QED
  BY <1>1, <1>2, <1>3

SignedOut == SignedOutStaysOut /\ NothingCrosses

\* After the logout no call that could bring a token comes up: a refresh is sent
\* without the cookie, and with a login that succeeds the session is in doubt.
LEMMA NothingComesToCross ==
    ASSUME TypeOK, AllProper, ~cookie, ~Crossing, [Next]_vars, session' = "out"
    PROVE  ~Crossing'
<1> SUFFICES ASSUME NEW d \in calls',
                    \/ d.kind = "refresh" /\ d.cookie /\ d.result # "refused"
                    \/ d.kind = "login" /\ d.result \in {"ok", "arrived"}
             PROVE  FALSE
  BY DEF Crossing
<1>1. CASE New(d)
  BY <1>1 DEF New
<1>2. ASSUME NEW c \in calls, Old(d, c) PROVE FALSE
  BY <1>2 DEF Old, Same, Crossing
<1> QED
  BY <1>1, <1>2, CallsCome DEF Comes

LEMMA SignedOutKept ==
    TypeOK /\ AllProper /\ HeadersTold /\ SignedOut /\ [Next]_vars => SignedOut'
<1> SUFFICES ASSUME TypeOK, AllProper, HeadersTold, SignedOut, [Next]_vars, session' = "out"
             PROVE  stored' = None /\ ~cookie' /\ ~Crossing'
  BY DEF SignedOut, SignedOutStaysOut, NothingCrosses
<1>1. ASSUME NEW c \in calls, ReceiveLoggedOut(c)
      PROVE  stored' = None /\ ~cookie' /\ ~Crossing'
  <2>1. /\ c.kind = "logout" /\ c.result = "arrived" /\ ~c.crossed /\ ~Crossing
        /\ stored' = None /\ cookie' = cookie /\ calls' = calls \ {c}
    BY <1>1 DEF ReceiveLoggedOut
  <2> QED
    BY <2>1 DEF HeadersTold, Crossing
<1>2. CASE ~\E c \in calls : ReceiveLoggedOut(c)
  <2>1. session = "out"
    BY <1>2 DEF Next, UserActs, Timers, Visit, Active, Fetch, LogOut, LogIn, IdleTimer,
       RefreshTimer, Leaving, Serve, ServeRefresh, ServeLogin, ServeLogout, Arrive, Receive,
       ReceiveRefused, ReceiveRefreshed, ReceiveLoggedIn, ReceiveOther, Lose, Disturbed,
       Tick, vars
  <2>2. stored = None /\ ~cookie /\ ~Crossing
    BY <2>1 DEF SignedOut, SignedOutStaysOut, NothingCrosses
  <2>3. ~Crossing'
    BY <2>2, NothingComesToCross
  <2>4. \A c \in calls : c.kind = "refresh" => c.result \notin {"ok", "arrived"}
    BY <2>2 DEF AllProper, Proper, Crossing
  <2>5. \A c \in calls : ~ReceiveRefreshed(c) /\ ~ReceiveLoggedIn(c)
    BY <2>2, <2>4 DEF ReceiveRefreshed, ReceiveLoggedIn, Crossing
  <2>6. stored' = None
    BY <1>2, <2>2, <2>5 DEF Next, UserActs, Timers, Visit, Active, Fetch, LogOut, LogIn,
       IdleTimer, RefreshTimer, Serve, Arrive, Receive, ReceiveRefused, ReceiveOther, Lose,
       Tick, vars, browser
  <2>7. ASSUME NEW c \in calls, Arrive(c) PROVE ~cookie'
    <3>1. c.result = "ok" /\ c.kind \in Kinds
      BY <2>7 DEF Arrive, TypeOK, Record
    <3>2. c.kind = "logout"
      BY <2>2, <2>4, <3>1 DEF Kinds, Crossing, AllProper, Proper
    <3> QED
      BY <2>7, <3>2 DEF Arrive
  <2> QED
    BY <2>2, <2>3, <2>6, <2>7, OnlyHeaders
<1> QED
  BY <1>1, <1>2

-----------------------------------------------------------------------------
(* The pages' timers.                                                       *)

\* What the server does leaves the stored token's time alone.
LEMMA ServeKeepsStored ==
    ASSUME TypeOK, NEW c \in calls, Serve(c), stored # None
    PROVE  stored' = stored /\ left'[stored] = left[stored]
<1>1. stored' = stored /\ stored \in Tokens
  BY DEF Serve, browser, TypeOK
<1>2. CASE \E k \in Tokens : Issued(k)
  BY <1>1, <1>2, IssuedIsNew
<1>3. CASE ~\E k \in Tokens : Issued(k)
  BY <1>1, <1>3 DEF Serve, ServeRefresh, ServeLogin, ServeLogout, tokens
<1> QED
  BY <1>2, <1>3

LEMMA TimerTicks ==
    ASSUME TypeOK, TimerFollowsToken, Tick PROVE TimerFollowsToken'
<1> SUFFICES ASSUME NEW t \in Tabs, page'[t] = "open", fresh'[t], stored' # None
             PROVE  left'[stored'] + since'[t] >= AccessLife
  BY DEF TimerFollowsToken
<1>1. page[t] = "open" /\ fresh[t] /\ stored' = stored /\ stored \in Tokens
  BY DEF Tick, browser, TypeOK
<1>2. left[stored] + since[t] >= AccessLife
  BY <1>1 DEF TimerFollowsToken
<1>3. left[stored] \in Nat /\ since[t] \in Nat
  BY <1>1, SessionAssumption DEF TypeOK
<1>4. left'[stored] = Sooner(left[stored])
  BY <1>1 DEF Tick
<1>5. since'[t] = IF since[t] < AccessLife THEN since[t] + 1 ELSE since[t]
  BY <1>1 DEF Tick
<1>6. left'[stored] >= 0 /\ left'[stored] >= left[stored] - 1 /\ left'[stored] \in Nat
  BY <1>3, <1>4 DEF Sooner
<1> QED
  BY <1>1, <1>2, <1>3, <1>5, <1>6, SessionAssumption

\* A new token goes into the store with its whole life.
LEMMA BroughtIsWhole ==
    ASSUME TypeOK, NewTokens, NEW c \in calls, ReceiveRefreshed(c) \/ ReceiveLoggedIn(c),
           UNCHANGED tokens
    PROVE  /\ stored' = c.new /\ c.new \in Tokens
           /\ left'[stored'] = AccessLife /\ deny'[stored'] = 0
           /\ \A b \in calls : b.token # stored'
  BY DEF ReceiveRefreshed, ReceiveLoggedIn, NewTokens, Brings, tokens

LEMMA TimerKept ==
    TypeOK /\ NewTokens /\ TimerFollowsToken /\ [Next]_vars => TimerFollowsToken'
<1> SUFFICES ASSUME TypeOK, NewTokens, TimerFollowsToken, [Next]_vars
             PROVE  TimerFollowsToken'
  OBVIOUS
<1>1. ASSUME NEW t \in Tabs, UserActs(t) \/ Timers(t) PROVE TimerFollowsToken'
  <2>1. CASE Visit(t)
    BY <2>1 DEF Visit, Mount, TimerFollowsToken, TypeOK, tokens, browser
  <2>2. CASE Active(t) \/ Fetch(t) \/ LogOut(t) \/ LogIn(t) \/ RefreshTimer(t)
    BY <2>2 DEF Active, Fetch, LogOut, LogIn, RefreshTimer, TimerFollowsToken, tokens,
       browser, pages
  <2>3. CASE IdleTimer(t)
    BY <2>3 DEF IdleTimer, TimerFollowsToken, TypeOK, tokens, browser
  <2> QED
    BY <1>1, <2>1, <2>2, <2>3 DEF UserActs, Timers
<1>2. ASSUME NEW c \in calls, Serve(c) PROVE TimerFollowsToken'
  BY <1>2, ServeKeepsStored DEF Serve, TimerFollowsToken, browser, pages
<1>3. ASSUME NEW c \in calls, Arrive(c) PROVE TimerFollowsToken'
  BY <1>3 DEF Arrive, TimerFollowsToken, tokens, pages
<1>4. ASSUME NEW c \in calls, Receive(c) \/ Lose(c) PROVE TimerFollowsToken'
  <2>1. UNCHANGED tokens /\ left' = left
    BY <1>4 DEF Receive, Lose, tokens
  <2>2. CASE stored' = None
    BY <2>2 DEF TimerFollowsToken
  <2>3. CASE ReceiveRefreshed(c) \/ ReceiveLoggedIn(c)
    <3>1. left'[stored'] = AccessLife
      BY <2>1, <2>3, BroughtIsWhole
    <3>2. since' \in [Tabs -> Nat]
      <4>1. TypeOK'
        BY TypeKept
      <4> QED
        BY <4>1 DEF TypeOK
    <3> QED
      BY <3>1, <3>2, SessionAssumption DEF TimerFollowsToken
  <2>4. CASE stored' = stored /\ UNCHANGED pages
    BY <2>1, <2>4 DEF TimerFollowsToken, pages
  <2>5. CASE stored' = stored /\ ToLogin(c.tab)
    BY <2>1, <2>5 DEF TimerFollowsToken, ToLogin, TypeOK
  <2> QED
    BY <1>4, <2>2, <2>3, <2>4, <2>5
       DEF Receive, Lose, ReceiveRefused, ReceiveLoggedOut, ReceiveOther, browser
<1>5. CASE UNCHANGED vars
  BY <1>5 DEF vars, tokens, browser, pages, TimerFollowsToken
<1> QED
  BY <1>1, <1>2, <1>3, <1>4, <1>5, TimerTicks DEF Next

-----------------------------------------------------------------------------
(* An undisturbed session.                                                  *)

\* No logout takes up a token that no call carried and that is stored now.
LEMMA NoLogoutComes ==
    ASSUME TypeOK, [Next]_vars, session' = "in",
           \A c \in calls : c.kind = "logout" => c.token # stored'
    PROVE  \A d \in calls' : d.kind = "logout" => d.token # stored'
<1> SUFFICES ASSUME NEW d \in calls', d.kind = "logout" PROVE d.token # stored'
  OBVIOUS
<1>1. CASE New(d)
  BY <1>1 DEF New
<1>2. ASSUME NEW c \in calls, Old(d, c) PROVE d.token # stored'
  BY <1>2 DEF Old, Same
<1> QED
  BY <1>1, <1>2, CallsCome DEF Comes

LEMMA ServeDeniesNotStored ==
    ASSUME TypeOK, Undenied, session = "in", stored # None, NEW c \in calls, Serve(c)
    PROVE  deny'[stored] = 0
<1>1. /\ deny[stored] = 0 /\ stored \in Tokens
      /\ \A e \in calls : e.kind = "logout" => e.token # stored
  BY DEF Undenied, TypeOK
<1>2. CASE \E k \in Tokens : Issued(k)
  BY <1>1, <1>2, IssuedIsNew
<1>3. CASE ~\E k \in Tokens : Issued(k)
  <2>1. CASE ServeLogout(c)
    BY <1>1, <2>1 DEF ServeLogout, TypeOK
  <2>2. CASE ~ServeLogout(c)
    BY <1>1, <1>3, <2>2 DEF Serve, ServeRefresh, ServeLogin, tokens
  <2> QED
    BY <2>1, <2>2
<1> QED
  BY <1>2, <1>3

LEMMA UndeniedKept ==
    TypeOK /\ NewTokens /\ Undenied /\ [Next]_vars => Undenied'
<1> SUFFICES ASSUME TypeOK, NewTokens, Undenied, [Next]_vars,
                    session' = "in", stored' # None
             PROVE  /\ deny'[stored'] = 0
                    /\ \A d \in calls' : d.kind = "logout" => d.token # stored'
  BY DEF Undenied
<1> DEFINE Goal == /\ deny'[stored'] = 0
                   /\ \A d \in calls : d.kind = "logout" => d.token # stored'
<1>1. ASSUME session = "in", stored' = stored, deny' = deny PROVE Goal
  BY <1>1 DEF Undenied
<1>2. ASSUME NEW t \in Tabs, UserActs(t) \/ Timers(t) PROVE Goal
  <2>1. session = "in"
    BY <1>2 DEF UserActs, Timers, Visit, Active, Fetch, LogOut, LogIn, IdleTimer,
       RefreshTimer, Leaving
  <2>2. stored' = stored /\ deny' = deny
    BY <1>2 DEF UserActs, Timers, Visit, Active, Fetch, LogOut, LogIn, IdleTimer,
       RefreshTimer, tokens, browser
  <2> QED
    BY <1>1, <2>1, <2>2
<1>3. ASSUME NEW c \in calls, Serve(c) PROVE Goal
  <2>1. session = "in" /\ stored' = stored
    BY <1>3 DEF Serve, ServeRefresh, ServeLogin, ServeLogout, browser
  <2> QED
    BY <1>3, <2>1, ServeDeniesNotStored DEF Undenied
<1>4. ASSUME NEW c \in calls, Arrive(c) PROVE Goal
  BY <1>1, <1>4 DEF Arrive, tokens
<1>5. ASSUME NEW c \in calls, Receive(c) \/ Lose(c) PROVE Goal
  <2>1. UNCHANGED tokens /\ deny' = deny
    BY <1>5 DEF Receive, Lose, tokens
  <2>2. CASE ReceiveRefreshed(c) \/ ReceiveLoggedIn(c)
    BY <2>1, <2>2, BroughtIsWhole
  <2>3. CASE ~(ReceiveRefreshed(c) \/ ReceiveLoggedIn(c))
    <3>1. stored' = stored /\ session = "in"
      BY <1>5, <2>3 DEF Receive, Lose, ReceiveRefused, ReceiveLoggedOut, ReceiveOther,
         browser, Disturbed
    <3> QED
      BY <1>1, <2>1, <3>1
  <2> QED
    BY <2>2, <2>3
<1>6. ASSUME Tick PROVE Goal
  <2>1. stored' = stored /\ session = "in" /\ stored \in Tokens
    BY <1>6 DEF Tick, browser, TypeOK
  <2>2. deny'[stored] = Sooner(deny[stored]) /\ deny[stored] = 0
    BY <1>6, <2>1 DEF Tick, Undenied
  <2>3. \A c \in calls : c.kind = "logout" => c.token # stored'
    BY <2>1 DEF Undenied
  <2> QED
    BY <2>1, <2>2, <2>3 DEF Sooner
<1>7. ASSUME UNCHANGED vars PROVE Goal
  BY <1>1, <1>7 DEF vars, tokens, browser
<1> HIDE DEF Goal
<1>8. Goal
  BY <1>2, <1>3, <1>4, <1>5, <1>6, <1>7 DEF Next
<1> QED
  BY <1>8, NoLogoutComes DEF Goal

\* An open page's time is taken from it by nobody else.
LEMMA LeavingAPage ==
    ASSUME TypeOK, NEW c \in calls, ToLogin(c.tab) \/ UNCHANGED pages,
           NEW t \in Tabs, page'[t] = "open", fresh'[t]
    PROVE  page[t] = "open" /\ fresh[t] /\ since'[t] = since[t] /\ fired'[t] = fired[t]
  BY DEF ToLogin, pages, TypeOK

RefreshUnderWay(t) == \E c \in calls : c.tab = t /\ c.kind = "refresh" /\ c.mounted

\* Enough for a page that was in time.
LEMMA StaysRenewed ==
    ASSUME Renewed, stored' = stored,
           stored # None => left'[stored] = left[stored],
           \A t \in Tabs : page'[t] = "open" /\ fresh'[t] /\ session' = "in" =>
               /\ page[t] = "open" /\ fresh[t] /\ session = "in"
               /\ since'[t] = since[t] /\ fired'[t] = fired[t]
               /\ RefreshUnderWay(t) => RefreshUnderWay(t)'
    PROVE  Renewed'
  BY DEF Renewed, InTime, RefreshUnderWay

LEMMA RenewedTicks ==
    ASSUME RenewsInTime, TypeOK, TimerFollowsToken, Renewed, Tick PROVE Renewed'
<1> SUFFICES ASSUME NEW t \in Tabs, page'[t] = "open", fresh'[t], session' = "in"
             PROVE  /\ stored' # None /\ left'[stored'] >= AccessLife - RefreshEvery
                    /\ ~fired'[t]
  BY DEF Renewed, InTime
<1>1. /\ page[t] = "open" /\ fresh[t] /\ session = "in" /\ stored' = stored
      /\ calls = {} /\ ~fired'[t]
  BY DEF Tick, browser
<1>2. /\ stored # None /\ left[stored] >= AccessLife - RefreshEvery /\ InTime(t)
      /\ left[stored] + since[t] >= AccessLife
  BY <1>1 DEF Renewed, TimerFollowsToken
<1>3. stored \in Tokens /\ left[stored] \in Nat /\ since[t] \in Nat
  BY <1>2, SessionAssumption DEF TypeOK
<1>4. left'[stored] = Sooner(left[stored])
  BY <1>3 DEF Tick
<1>5. since[t] < RefreshEvery \/ left[stored] = AccessLife
  BY <1>1, <1>2, <1>3, SessionAssumption DEF InTime, Tick, Stale
<1>6. left[stored] >= AccessLife - RefreshEvery + 1
  BY <1>2, <1>3, <1>5, SessionAssumption
<1>7. left'[stored] >= left[stored] - 1
  BY <1>3, <1>4 DEF Sooner
<1>8. left'[stored] \in Nat
  BY <1>3, <1>4 DEF Sooner
<1> QED
  BY <1>1, <1>2, <1>3, <1>6, <1>7, <1>8, SessionAssumption

LEMMA RenewedByUser ==
    ASSUME TypeOK, Renewed, NEW u \in Tabs, UserActs(u) \/ Timers(u) PROVE Renewed'
<1>1. CASE session' # "in"
  BY <1>1 DEF Renewed
<1>2. CASE Visit(u) /\ session' = "in"
  <2>1. PICK kept \in SUBSET calls :
           Mount(u, stored, kept) /\ {c \in calls : c.tab # u} \subseteq kept
    BY <1>2 DEF Visit
  <2>2. session = "in" /\ stored' = stored /\ left' = left
    BY <1>2 DEF Visit, tokens, browser
  <2>3. \A c \in kept : /\ Left(c, u) \in calls' /\ Same(Left(c, u), c)
                        /\ c.tab # u => Left(c, u).mounted = c.mounted
    <3>1. stored \in Tokens \cup {None}
      BY DEF TypeOK
    <3> QED
      BY <2>1, <3>1, MountMoves
  <2>4. ASSUME NEW t \in Tabs, page'[t] = "open", fresh'[t]
        PROVE  /\ page[t] = "open" /\ fresh[t]
               /\ since'[t] = since[t] /\ fired'[t] = fired[t]
               /\ RefreshUnderWay(t) => RefreshUnderWay(t)'
    <3>1. t # u
      BY <1>2, <2>4 DEF Visit, TypeOK
    <3>2. RefreshUnderWay(t) => RefreshUnderWay(t)'
      BY <2>1, <2>3, <3>1 DEF RefreshUnderWay, Same
    <3> QED
      BY <1>2, <2>1, <2>4, <3>1, <3>2 DEF Visit, Mount, TypeOK
  <2> QED
    BY <2>2, <2>4, StaysRenewed
<1>3. CASE Active(u)
  BY <1>3 DEF Active, Renewed, InTime, tokens, browser
<1>4. CASE Fetch(u) \/ LogIn(u)
  BY <1>4 DEF Fetch, LogIn, Send, Renewed, InTime, tokens, browser, pages
<1>5. CASE RefreshTimer(u)
  <2> DEFINE n == Call(u, "refresh", stored)
  <2>1. n.tab = u /\ n.kind = "refresh" /\ n.mounted
    BY DEF Call
  <2>2. calls' = calls \cup {n}
    BY <1>5 DEF RefreshTimer, Send
  <2> HIDE DEF n
  <2> SUFFICES ASSUME NEW t \in Tabs, page'[t] = "open", fresh'[t], session' = "in"
               PROVE  /\ stored' # None /\ left'[stored'] >= AccessLife - RefreshEvery
                      /\ InTime(t)'
    BY DEF Renewed
  <2>3. /\ page[t] = "open" /\ fresh[t] /\ session = "in" /\ stored' = stored
        /\ left' = left /\ since' = since
    BY <1>5 DEF RefreshTimer, tokens, browser
  <2>4. CASE t = u
    BY <2>1, <2>2, <2>3, <2>4 DEF Renewed, InTime
  <2>5. CASE t # u
    <3>1. fired'[t] = fired[t]
      BY <1>5, <2>5 DEF RefreshTimer, TypeOK
    <3> QED
      BY <2>2, <2>3, <3>1 DEF Renewed, InTime
  <2> QED
    BY <2>4, <2>5
<1>6. CASE LogOut(u) \/ IdleTimer(u)
  BY <1>1, <1>6 DEF LogOut, IdleTimer, Leaving
<1> QED
  BY <1>1, <1>2, <1>3, <1>4, <1>5, <1>6 DEF UserActs, Timers

LEMMA RenewedByServer ==
    ASSUME TypeOK, Renewed, NEW c \in calls, Serve(c) PROVE Renewed'
<1>1. stored' = stored /\ UNCHANGED pages /\ (session' = "in" => session = "in")
  BY DEF Serve, ServeRefresh, ServeLogin, ServeLogout, browser
<1>2. PICK d \in Record :
         calls' = (calls \ {c}) \cup {d} /\ Same(d, c) /\ d.mounted = c.mounted
  BY ServeReplaces
<1>3. ASSUME NEW t \in Tabs PROVE RefreshUnderWay(t) => RefreshUnderWay(t)'
  BY <1>2 DEF RefreshUnderWay, Same
<1>4. stored # None => left'[stored] = left[stored]
  BY ServeKeepsStored
<1> QED
  BY <1>1, <1>3, <1>4, StaysRenewed DEF pages

LEMMA RenewedByHeaders ==
    ASSUME TypeOK, Renewed, NEW c \in calls, Arrive(c) PROVE Renewed'
<1>1. stored' = stored /\ left' = left /\ UNCHANGED <<pages, session>>
  BY DEF Arrive, tokens
<1>2. ASSUME NEW t \in Tabs, RefreshUnderWay(t) PROVE RefreshUnderWay(t)'
  <2>1. PICK b \in calls : b.tab = t /\ b.kind = "refresh" /\ b.mounted
    BY <1>2 DEF RefreshUnderWay
  <2>2. CASE b = c
    <3>1. /\ Arrived(c) \in calls' /\ Same(Arrived(c), c)
          /\ Arrived(c).mounted = c.mounted
      BY ArriveMoves
    <3> QED
      BY <2>1, <2>2, <3>1 DEF RefreshUnderWay, Same
  <2>3. CASE b # c
    <3>1. /\ Passed(b, c) \in calls' /\ Same(Passed(b, c), b)
          /\ Passed(b, c).mounted = b.mounted
      BY <2>3, ArriveMoves
    <3> QED
      BY <2>1, <3>1 DEF RefreshUnderWay, Same
  <2> QED
    BY <2>2, <2>3
<1> QED
  BY <1>1, <1>2, StaysRenewed DEF pages

LEMMA RenewedByAnswer ==
    ASSUME RenewsInTime, TypeOK, NewTokens, AllProper, Undenied, Renewed,
           NEW c \in calls, Receive(c) \/ Lose(c)
    PROVE  Renewed'
<1>1. left' = left /\ UNCHANGED tokens
  BY DEF Receive, Lose, tokens
<1>2. c \in Record /\ c.tab \in Tabs
  BY DEF TypeOK, Record
<1>3. CASE session' # "in"
  BY <1>3 DEF Renewed
<1>4. CASE ReceiveRefused(c) /\ session' = "in"
  <2>1. session = "in" /\ c.token = stored
    BY <1>4 DEF ReceiveRefused, Disturbed
  <2>2. ToLogin(c.tab) \/ UNCHANGED pages
    BY <1>4 DEF ReceiveRefused
  <2> SUFFICES ASSUME NEW t \in Tabs, page'[t] = "open", fresh'[t] PROVE FALSE
    BY DEF Renewed
  <2>3. page[t] = "open" /\ fresh[t]
    BY <2>2, LeavingAPage
  <2>4. stored # None /\ left[stored] >= AccessLife - RefreshEvery
    BY <2>1, <2>3 DEF Renewed
  <2>5. left[stored] > 0 /\ deny[stored] = 0
    BY <2>1, <2>4, SessionAssumption DEF RenewsInTime, Undenied, TypeOK
  <2>6. c.kind \in {"refresh", "logout", "login"}
    BY <1>2, <1>4, <2>1, <2>4, <2>5 DEF ReceiveRefused, Accepted, Record, Kinds
  <2> QED
    BY <2>1, <2>4, <2>6 DEF AllProper, Proper, Undenied
<1>5. CASE ReceiveRefreshed(c) \/ ReceiveLoggedIn(c)
  <2>1. stored' \in Tokens /\ left'[stored'] = AccessLife
    BY <1>1, <1>5, BroughtIsWhole
  <2> QED
    BY <2>1, NoneIsNoToken, SessionAssumption DEF Renewed, InTime
<1>6. CASE ReceiveLoggedOut(c)
  BY <1>3, <1>6 DEF ReceiveLoggedOut
<1>7. CASE (ReceiveOther(c) \/ Lose(c)) /\ session' = "in"
  <2>1. c.kind # "refresh" /\ session = "in" /\ stored' = stored /\ calls' = calls \ {c}
    BY <1>7 DEF Lose, ReceiveOther, Disturbed, Lost, browser
  <2>2. ToLogin(c.tab) \/ UNCHANGED pages
    BY <1>7 DEF Lose, ReceiveOther
  <2>3. ASSUME NEW t \in Tabs PROVE RefreshUnderWay(t) => RefreshUnderWay(t)'
    BY <2>1 DEF RefreshUnderWay
  <2> QED
    BY <1>1, <2>1, <2>2, <2>3, LeavingAPage, StaysRenewed
<1> QED
  BY <1>3, <1>4, <1>5, <1>6, <1>7 DEF Receive

LEMMA RenewedKept ==
    ASSUME RenewsInTime, TypeOK, NewTokens, AllProper, TimerFollowsToken, Undenied,
           Renewed, [Next]_vars
    PROVE  Renewed'
<1>1. CASE UNCHANGED vars
  BY <1>1 DEF vars, tokens, browser, pages, Renewed, InTime
<1> QED
  BY <1>1, RenewedTicks, RenewedByUser, RenewedByServer, RenewedByHeaders, RenewedByAnswer
     DEF Next

-----------------------------------------------------------------------------
(* The theorems.                                                            *)

\* Every variable keeps its type under every action of a tab, the server, the
\* network and the clock.
THEOREM SessionTypeCorrect == Spec => []TypeOK
  BY TypeStarts, TypeKept, PTL DEF Spec

CallsInv == TypeOK /\ NewTokens /\ AllProper /\ HeadersTold

LEMMA CallsAlways == Spec => []CallsInv
<1>1. Init => NewTokens /\ AllProper /\ HeadersTold
  BY DEF Init, NewTokens, AllProper, HeadersTold
<1>2. CallsInv /\ [Next]_vars => CallsInv'
  BY TypeKept, NewTokensKept, ProperKept, HeadersKept DEF CallsInv
<1> QED
  BY <1>1, <1>2, TypeStarts, PTL DEF Spec, CallsInv

\* From a login whose own headers came last, the browser keeps the refresh cookie
\* until the headers of a logout arrive: no answer that is refused, lost or late
\* takes it (request and refreshSession in api-client.ts, Set-Cookie in auth.py),
\* for any number of tabs and any order of answers.
THEOREM CookieStaysUntilLogout == Spec => []CookieUntilLogout
<1>1. Init => CookieUntilLogout
  BY DEF Init, CookieUntilLogout
<1>2. CallsInv /\ CookieUntilLogout /\ [Next]_vars => CookieUntilLogout'
  BY CookieKept DEF CallsInv
<1> QED
  BY <1>1, <1>2, CallsAlways, PTL DEF Spec

\* After a logout that crossed no answer with a token the store stays empty: a
\* refresh sent later carries no cookie, so the server refuses it and nothing is
\* set (api-client.ts, useAuthGuard.ts), for any number of tabs.
THEOREM SignedOutStays == Spec => []SignedOutStaysOut
<1>1. Init => SignedOut
  BY DEF Init, SignedOut, SignedOutStaysOut, NothingCrosses, Crossing
<1>2. CallsInv /\ SignedOut /\ [Next]_vars => SignedOut'
  BY SignedOutKept DEF CallsInv
<1>3. SignedOut => SignedOutStaysOut
  BY DEF SignedOut
<1> QED
  BY <1>1, <1>2, <1>3, CallsAlways, PTL DEF Spec

\* Whichever tab stored the token, a page that has refreshed never takes it for
\* younger than it is (lastRefresh in useAuthGuard.ts).
THEOREM TimersFollow == Spec => []TimerFollowsToken
<1>1. Init => TimerFollowsToken
  BY DEF Init, TimerFollowsToken
<1>2. CallsInv /\ TimerFollowsToken /\ [Next]_vars => TimerFollowsToken'
  BY TimerKept DEF CallsInv
<1> QED
  BY <1>1, <1>2, CallsAlways, PTL DEF Spec

\* If the keep-alive interval is shorter than the token's life, an active page of
\* an undisturbed session holds a valid token at every moment, for any number of
\* tabs that share the token; and after a stray 401 or a lost refresh, from the
\* next refresh on that any tab gets answered (the interval of useAuthGuard.ts).
THEOREM ActiveIsKeptAlive == ASSUME RenewsInTime PROVE Spec => []KeptAlive
<1> DEFINE IInv == TimerFollowsToken /\ Undenied /\ Renewed
<1>1. Init => IInv
  BY DEF Init, TimerFollowsToken, Undenied, Renewed
<1>2. CallsInv /\ IInv /\ [Next]_vars => IInv'
  BY TimerKept, UndeniedKept, RenewedKept DEF CallsInv
<1>3. CallsInv /\ IInv => KeptAlive
  <2> SUFFICES ASSUME TypeOK, Renewed, NEW t \in Tabs,
                      page[t] = "open", fresh[t], session = "in"
               PROVE  stored # None /\ left[stored] > 0
    BY DEF KeptAlive, CallsInv
  <2>1. stored # None /\ left[stored] >= AccessLife - RefreshEvery
    BY DEF Renewed
  <2> QED
    BY <2>1, SessionAssumption DEF RenewsInTime, TypeOK
<1> HIDE DEF IInv
<1> QED
  BY <1>1, <1>2, <1>3, CallsAlways, PTL DEF Spec
=============================================================================
