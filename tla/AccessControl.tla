--------------------------- MODULE AccessControl ---------------------------
(***************************************************************************)
(* Accounts, roles, shortcode grants and the requests that check and change *)
(* them: backend/app/api/routes/admin.py and jobs.py, core/rbac.py,         *)
(* services/authorization.py and audit_service.py, scripts/seed.py.         *)
(*                                                                         *)
(* A request reads and commits in several steps, and other requests come    *)
(* between them: a statement sees what is committed when it runs, and what   *)
(* was read is not read again.  An account is its e-mail address; the id of *)
(* a deleted row is None in the requests that still hold it.                *)
(***************************************************************************)
EXTENDS Naturals, FiniteSets

CONSTANTS
    Users,       \* e-mail addresses
    Codes,       \* shortcodes
    Requests,    \* bound: the requests of a behaviour, each handled once
    Operations,  \* what a request may ask for
    Accounts,    \* what the account table can hold at first: role of each address
    Granted,     \* the grants there are at first: <<user, code>>
    None

Roles == {"admin", "analyst", "viewer"}

Permissions ==
    {"job:create", "report:download", "report:email", "history:read",
     "admin:manage_users", "admin:manage_shortcodes"}

RolePermissions ==
    [admin |-> Permissions,
     analyst |-> {"job:create", "report:download", "report:email", "history:read"},
     viewer |-> {"report:download", "history:read"}]

\* The permission each route requires; None: any active user.
Required ==
    [extract |-> "job:create", read |-> None,
     create |-> "admin:manage_users", update |-> "admin:manage_users",
     delete |-> "admin:manage_users",
     grant |-> "admin:manage_shortcodes", revoke |-> "admin:manage_shortcodes",
     toggle |-> "admin:manage_shortcodes"]

Kinds == DOMAIN Required \cup {"seed"}

ASSUME OperationsAssumption ==
    \A o \in Operations :
        /\ o.kind \in Kinds /\ o.user \in Users /\ o.codes \subseteq Codes
        /\ o.role \in Roles \cup {None} /\ o.active \in BOOLEAN \cup {None}
        /\ o.kind \in {"create", "seed"} => o.role \in Roles /\ o.active \in BOOLEAN
        /\ o.kind = "toggle" => o.active \in BOOLEAN /\ \E c \in Codes : o.codes = {c}
ASSUME AccountsAssumption ==
    /\ Accounts \subseteq [Users -> Roles \cup {None}]
    /\ Granted \subseteq Users \X Codes
    /\ None \notin Roles /\ None \notin Users

VARIABLES
    role,       \* users: the role of each account; None: there is no account
    active,     \* users.is_active
    usable,     \* shortcodes.is_active
    grants,     \* user_shortcode_permissions: <<user, code, granted_by>>
    jobs,       \* the job each request has created: its owner, codes; or None
    audit       \* the audit row each request has written: its user; None: none

VARIABLES
    pc,         \* where each request stands
    op,         \* what it asks for
    caller,     \* get_current_user's answer
    as,         \* the role that was read with it
    target,     \* the account row it has loaded
    seen,       \* that row's role and flag as they were read
    todo,       \* the codes to be granted; the audit rows to be detached
    left        \* the codes that grant_shortcodes has still to look at

VARIABLE met    \* history: the items that were so at some moment since it began

database == <<role, active, usable, grants, jobs, audit>>
request == <<pc, op, caller, as, target, seen, todo, left>>
vars == <<database, request, met>>

-----------------------------------------------------------------------------

Exists(u) == u # None /\ role[u] # None

IsAdmin(r) == as[r] = "admin"

HasPermission(code, rl) == rl = "admin" \/ code \in RolePermissions[rl]

HasGrant(u, c) == \E g \in grants : g[1] = u /\ g[2] = c

\* get_authorized_shortcodes, for the user and role the request has read.
Authorized(r) ==
    {c \in usable : IsAdmin(r) \/ HasGrant(caller[r], c)}

\* Mutant: the jobs' foreign key does not hold the row.
ReferencedUnlessJobs(u, detached) ==
    \/ \E g \in grants : g[3] = u /\ g[1] # u
    \/ \E q \in Requests \ detached : audit[q] = u

\* The row of u cannot go while one of these refers to it.  Grants to u go
\* with it, and so do the audit rows, once they are detached.
Referenced(u, detached) ==
    \/ \E q \in Requests : jobs[q] # None /\ jobs[q].owner = u
    \/ \E g \in grants : g[3] = u /\ g[1] # u
    \/ \E q \in Requests \ detached : audit[q] = u

\* audit_service.record: best effort, an entry of nobody known is not written.
Audited(r) == IF Exists(caller[r]) THEN [audit EXCEPT ![r] = caller[r]] ELSE audit

Goto(r, place) == pc' = [pc EXCEPT ![r] = place]

\* What the answer to a request says was done, item by item ...
Asked(r) ==
    CASE op[r].kind \in {"create", "update", "seed"} ->
            {item \in {"role", "active"} : op[r][item] # None}
      [] op[r].kind \in {"grant", "revoke", "toggle"} -> op[r].codes
      [] OTHER -> {"all"}

\* ... and whether it is so.
Holds(r, item) ==
    LET o == op[r] IN
    CASE o.kind \in {"create", "update", "seed"} ->
            /\ Exists(o.user)
            /\ item = "role" => role[o.user] = o.role
            /\ item = "active" => (o.user \in active <=> o.active)
      [] o.kind = "grant" -> HasGrant(o.user, item)
      [] o.kind = "revoke" -> ~HasGrant(o.user, item)
      [] o.kind = "toggle" -> item \in usable <=> o.active
      [] o.kind = "extract" -> o.codes \subseteq Authorized(r)
      [] o.kind = "delete" -> ~Exists(o.user)
      [] o.kind = "read" -> TRUE

-----------------------------------------------------------------------------

Init ==
    /\ role \in Accounts
    /\ active = {u \in Users : role[u] # None}
    /\ usable = Codes
    /\ grants = {<<g[1], g[2], None>> : g \in {h \in Granted : role[h[1]] # None}}
    /\ jobs = [r \in Requests |-> None]
    /\ audit = [r \in Requests |-> None]
    /\ pc = [r \in Requests |-> "new"]
    /\ op = [r \in Requests |-> None]
    /\ caller = [r \in Requests |-> None]
    /\ as = [r \in Requests |-> None]
    /\ target = [r \in Requests |-> None]
    /\ seen = [r \in Requests |-> [role |-> None, active |-> FALSE]]
    /\ todo = [r \in Requests |-> {}]
    /\ left = [r \in Requests |-> {}]
    /\ met = [r \in Requests |-> {}]

\* get_current_user and require_permission.
Start(r) ==
    /\ pc[r] = "new"
    /\ \E o \in Operations, u \in active :
        /\ o.kind # "seed"
        /\ Required[o.kind] # None => HasPermission(Required[o.kind], role[u])
        /\ op' = [op EXCEPT ![r] = o]
        /\ caller' = [caller EXCEPT ![r] = u]
        /\ as' = [as EXCEPT ![r] = role[u]]
        /\ left' = [left EXCEPT ![r] = o.codes]
    /\ Goto(r, "in")
    /\ UNCHANGED <<database, target, seen, todo>>

\* An operator runs the seed script.
StartSeed(r) ==
    /\ pc[r] = "new"
    /\ \E o \in Operations : o.kind = "seed" /\ op' = [op EXCEPT ![r] = o]
    /\ Goto(r, "in")
    /\ UNCHANGED <<database, caller, as, target, seen, todo, left>>

At(r, place, kinds) == pc[r] = place /\ op[r].kind \in kinds

\* The request is answered with an error and nothing of it is committed.
Refuse(r) == Goto(r, "refused") /\ UNCHANGED database

-----------------------------------------------------------------------------
(* POST /jobs and GET /jobs/{id}.                                           *)

\* Mutant: one authorized code is enough.
AuthorizeAny(r) ==
    /\ At(r, "in", {"extract"})
    /\ IF op[r].codes \cap Authorized(r) # {}
       THEN Goto(r, "cleared") /\ UNCHANGED audit
       ELSE Goto(r, "refused") /\ audit' = Audited(r)
    /\ UNCHANGED <<role, active, usable, grants, jobs, op, caller, as, target, seen, todo, left>>

Authorize(r) ==
    /\ At(r, "in", {"extract"})
    /\ IF op[r].codes # {} /\ op[r].codes \subseteq Authorized(r)
       THEN Goto(r, "cleared") /\ UNCHANGED audit
       ELSE Goto(r, "refused") /\ audit' = Audited(r)
    /\ UNCHANGED <<role, active, usable, grants, jobs, op, caller, as, target, seen, todo, left>>

CreateJob(r) ==
    /\ At(r, "cleared", {"extract"})
    /\ IF Exists(caller[r])
       THEN /\ jobs' = [jobs EXCEPT ![r] = [owner |-> caller[r], codes |-> op[r].codes]]
            /\ Goto(r, "created")
            /\ UNCHANGED <<role, active, usable, grants, audit>>
       ELSE Refuse(r)
    /\ UNCHANGED <<op, caller, as, target, seen, todo, left>>

AuditJob(r) ==
    /\ At(r, "created", {"extract"})
    /\ audit' = Audited(r)
    /\ Goto(r, "done")
    /\ UNCHANGED <<role, active, usable, grants, jobs, op, caller, as, target, seen, todo, left>>

\* Everybody else gets 404 and leaves no trace.
Read(r) ==
    /\ At(r, "in", {"read"})
    /\ \E q \in Requests : jobs[q] # None /\ (jobs[q].owner = caller[r] \/ IsAdmin(r))
    /\ audit' = Audited(r)
    /\ Goto(r, "done")
    /\ UNCHANGED <<role, active, usable, grants, jobs, op, caller, as, target, seen, todo, left>>

-----------------------------------------------------------------------------
(* Accounts.                                                                *)

\* The columns a request gets: its caller's row is in the session already.
Columns(r) ==
    IF op[r].user = caller[r] THEN [role |-> as[r], active |-> TRUE]
    ELSE [role |-> role[op[r].user], active |-> op[r].user \in active]

\* _get_user_or_404; nobody deletes the account he acts with.
Load(r) ==
    /\ \/ At(r, "in", {"update", "delete", "grant", "revoke"})
       \/ At(r, "in", {"seed"}) /\ Exists(op[r].user)
    /\ IF Exists(op[r].user) /\ ~(op[r].kind = "delete" /\ op[r].user = caller[r])
       THEN /\ target' = [target EXCEPT ![r] = op[r].user]
            /\ seen' = [seen EXCEPT ![r] = Columns(r)]
            /\ Goto(r, "loaded")
       ELSE Goto(r, "refused") /\ UNCHANGED <<target, seen>>
    /\ UNCHANGED <<database, op, caller, as, todo, left>>

\* The check for an existing address, in create_user and upsert_user.
FindNone(r) ==
    /\ At(r, "in", {"create", "seed"})
    /\ op[r].kind = "seed" => ~Exists(op[r].user)
    /\ Goto(r, IF Exists(op[r].user) THEN "refused" ELSE "absent")
    /\ UNCHANGED <<database, op, caller, as, target, seen, todo, left>>

Insert(r) ==
    /\ pc[r] = "absent"
    /\ IF Exists(op[r].user)
       THEN Refuse(r)
       ELSE /\ role' = [role EXCEPT ![op[r].user] = op[r].role]
            /\ active' = IF op[r].active THEN active \cup {op[r].user} ELSE active
            /\ Goto(r, "done")
            /\ UNCHANGED <<usable, grants, jobs, audit>>
    /\ UNCHANGED <<op, caller, as, target, seen, todo, left>>

\* The flush: of the columns asked for, those that differ from what was read.
NewRole(r) ==
    IF op[r].role \in {None, seen[r].role} THEN role[target[r]] ELSE op[r].role

\* Mutant: the flag is written back as it was read when it is not asked for.
NewActiveWholeRow(r) ==
    IF (op[r].active = None /\ seen[r].active) \/ op[r].active = TRUE
    THEN active \cup {target[r]} ELSE active \ {target[r]}

NewActive(r) ==
    IF op[r].active \in {None, seen[r].active} THEN active
    ELSE IF op[r].active THEN active \cup {target[r]}
    ELSE active \ {target[r]}

\* Nothing to flush: both columns are what was read.
Clean(r) ==
    /\ op[r].role \in {None, seen[r].role}
    /\ op[r].active \in {None, seen[r].active}

\* A row that is gone fails the flush, or the refresh that update_user does.
WriteUser(r) ==
    /\ At(r, "loaded", {"update", "seed"})
    /\ IF target[r] = None
       THEN /\ Goto(r, IF op[r].kind = "seed" /\ Clean(r) THEN "done" ELSE "refused")
            /\ UNCHANGED database
       ELSE /\ role' = [role EXCEPT ![target[r]] = NewRole(r)]
            /\ active' = NewActive(r)
            /\ Goto(r, "done")
            /\ UNCHANGED <<usable, grants, jobs, audit>>
    /\ UNCHANGED <<op, caller, as, target, seen, todo, left>>

\* delete_user's UPDATE of the audit rows, not yet committed.
Detach(r) ==
    /\ At(r, "loaded", {"delete"})
    /\ todo' = [todo EXCEPT ![r] = {q \in Requests : audit[q] # None /\ audit[q] = target[r]}]
    /\ Goto(r, "detached")
    /\ UNCHANGED <<database, op, caller, as, target, seen, left>>

\* Another request has removed the row: nothing is left to delete.
DeleteGone(r) ==
    /\ At(r, "detached", {"delete"})
    /\ target[r] = None
    /\ Goto(r, "done")
    /\ UNCHANGED <<database, op, caller, as, target, seen, todo, left>>

\* Mutant: the detached audit rows stay detached, there is no rollback.
DeleteRefusedDetaching(r) ==
    /\ At(r, "detached", {"delete"})
    /\ target[r] # None /\ Referenced(target[r], todo[r])
    /\ Goto(r, "refused")
    /\ audit' = [q \in Requests |-> IF q \in todo[r] THEN None ELSE audit[q]]
    /\ UNCHANGED <<role, active, usable, grants, jobs, op, caller, as, target, seen, todo, left>>

DeleteRefused(r) ==
    /\ At(r, "detached", {"delete"})
    /\ target[r] # None /\ Referenced(target[r], todo[r])
    /\ Refuse(r)
    /\ UNCHANGED <<op, caller, as, target, seen, todo, left>>

\* Requests that hold the id of the row hold an id of nothing from now on.
Forget(f, u) == [r \in Requests |-> IF f[r] = u THEN None ELSE f[r]]

DeleteUser(r) ==
    /\ At(r, "detached", {"delete"})
    /\ target[r] # None /\ ~Referenced(target[r], todo[r])
    /\ role' = [role EXCEPT ![target[r]] = None]
    /\ active' = active \ {target[r]}
    /\ grants' = {g \in grants : g[1] # target[r]}
    /\ audit' = Forget(audit, target[r])
    /\ caller' = Forget(caller, target[r])
    /\ target' = Forget(target, target[r])
    /\ Goto(r, "done")
    /\ UNCHANGED <<usable, jobs, op, as, seen, todo, left>>

-----------------------------------------------------------------------------
(* Grants and shortcodes.                                                   *)

\* One round of the loop over the codes: nothing is written yet.
CheckGrant(r) ==
    /\ At(r, "loaded", {"grant"})
    /\ \E c \in left[r] :
        /\ todo' = IF HasGrant(target[r], c) THEN todo ELSE [todo EXCEPT ![r] = @ \cup {c}]
        /\ left' = [left EXCEPT ![r] = @ \ {c}]
    /\ UNCHANGED <<database, pc, op, caller, as, target, seen>>

\* All in one commit: a row that is there by now fails them all.
CommitGrants(r) ==
    /\ At(r, "loaded", {"grant"})
    /\ left[r] = {}
    /\ IF todo[r] # {} /\ \/ ~Exists(target[r]) \/ ~Exists(caller[r])
                          \/ \E c \in todo[r] : HasGrant(target[r], c)
       THEN Refuse(r)
       ELSE /\ grants' = grants \cup {<<target[r], c, caller[r]>> : c \in todo[r]}
            /\ Goto(r, "done")
            /\ UNCHANGED <<role, active, usable, jobs, audit>>
    /\ UNCHANGED <<op, caller, as, target, seen, todo, left>>

Revoke(r) ==
    /\ At(r, "loaded", {"revoke"})
    /\ grants' = {g \in grants : ~(g[1] = target[r] /\ g[2] \in op[r].codes)}
    /\ Goto(r, "done")
    /\ UNCHANGED <<role, active, usable, jobs, audit, op, caller, as, target, seen, todo, left>>

LoadCode(r) ==
    /\ At(r, "in", {"toggle"})
    /\ seen' = [seen EXCEPT ![r] = [role |-> None, active |-> op[r].codes \subseteq usable]]
    /\ Goto(r, "loaded")
    /\ UNCHANGED <<database, op, caller, as, target, todo, left>>

\* A flag that is as asked for when it is read is not written.
Toggle(r) ==
    /\ At(r, "loaded", {"toggle"})
    /\ usable' = IF op[r].active = seen[r].active THEN usable
                 ELSE IF op[r].active THEN usable \cup op[r].codes
                 ELSE usable \ op[r].codes
    /\ Goto(r, "done")
    /\ UNCHANGED <<role, active, grants, jobs, audit, op, caller, as, target, seen, todo, left>>

Step(r) ==
    \/ Start(r) \/ StartSeed(r)
    \/ Authorize(r) \/ CreateJob(r) \/ AuditJob(r) \/ Read(r)
    \/ Load(r) \/ FindNone(r) \/ Insert(r) \/ WriteUser(r)
    \/ Detach(r) \/ DeleteGone(r) \/ DeleteRefused(r) \/ DeleteUser(r)
    \/ CheckGrant(r) \/ CommitGrants(r) \/ Revoke(r) \/ LoadCode(r) \/ Toggle(r)

Achieved(r) == IF pc[r] = "new" THEN {} ELSE {item \in Asked(r) : Holds(r, item)}

Observe == met' = [r \in Requests |-> met[r] \cup Achieved(r)']

Next == \E r \in Requests : Step(r) /\ Observe

Spec == Init /\ [][Next]_vars

-----------------------------------------------------------------------------
(* Properties.                                                              *)

Operation == Operations \cup {None}
Row == [role : Roles \cup {None}, active : BOOLEAN]
Job == [owner : Users, codes : SUBSET Codes]

TypeOK ==
    /\ role \in [Users -> Roles \cup {None}]
    /\ active \subseteq {u \in Users : role[u] # None}
    /\ usable \subseteq Codes
    /\ grants \subseteq Users \X Codes \X (Users \cup {None})
    /\ jobs \in [Requests -> Job \cup {None}]
    /\ audit \in [Requests -> Users \cup {None}]
    /\ pc \in [Requests -> {"new", "in", "cleared", "created", "loaded", "absent",
                            "detached", "done", "refused"}]
    /\ op \in [Requests -> Operation]
    /\ caller \in [Requests -> Users \cup {None}]
    /\ as \in [Requests -> Roles \cup {None}]
    /\ target \in [Requests -> Users \cup {None}]
    /\ seen \in [Requests -> Row]
    /\ todo \in [Requests -> SUBSET (Codes \cup Requests)]
    /\ left \in [Requests -> SUBSET Codes]
    /\ met \in [Requests -> SUBSET (Codes \cup {"role", "active", "all"})]

\* A request that is answered without an error tells the truth: each column,
\* grant or flag it asked for was so at some moment since it began, although it
\* was checked and written in several steps.  For a job this means that all its
\* codes were active and granted at one moment while it was being created.
AnswersTrue == \A r \in Requests : pc[r] \in {"done", "created"} => Asked(r) \subseteq met[r]

\* No job, grant or audit row names an account that is gone, whatever was
\* created for it while delete_user was looking.
References ==
    /\ \A r \in Requests : jobs[r] # None => Exists(jobs[r].owner)
    /\ \A g \in grants : Exists(g[1]) /\ (g[3] # None => Exists(g[3]))
    /\ \A r \in Requests : audit[r] # None => Exists(audit[r])

\* The trail is append-only, and an entry loses its user only in the commit
\* that removes the account: a refused deletion detaches nothing.
AuditKept ==
    [][\A r \in Requests :
        audit[r] # None => audit'[r] = audit[r] \/ role'[audit[r]] = None]_vars

\* Concurrent edits of one account do not undo each other: a column of an
\* account changes only to what the request that is then answered asked for.
NoLostUpdate ==
    [][\A u \in Users : Exists(u) /\ role'[u] # None =>
        /\ role'[u] # role[u] =>
            \E r \in Requests : /\ pc[r] = "loaded" /\ pc'[r] = "done"
                                /\ op[r].user = u /\ op[r].role = role'[u]
        /\ (u \in active) # (u \in active') =>
            \E r \in Requests : /\ pc[r] = "loaded" /\ pc'[r] = "done"
                                /\ op[r].user = u /\ op[r].active = (u \in active')]_vars
=============================================================================
