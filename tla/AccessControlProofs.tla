------------------------- MODULE AccessControlProofs -------------------------
(***************************************************************************)
(* The requests of AccessControl for any accounts, codes and operations    *)
(* and any number of requests at a time.  Shape says what a request knows  *)
(* at each of its stands; Truth says what has been so since it began.      *)
(***************************************************************************)
EXTENDS AccessControl, TLAPS

Shape ==
    \A r \in Requests :
        /\ pc[r] # "new" => op[r] \in Operations
        /\ pc[r] = "absent" => op[r].kind \in {"create", "seed"}
        /\ pc[r] = "new" => todo[r] = {}
        /\ pc[r] = "in" /\ op[r].kind = "grant" => left[r] = op[r].codes /\ todo[r] = {}
        /\ pc[r] = "loaded" /\ op[r].kind = "grant" =>
               todo[r] \subseteq op[r].codes /\ left[r] \subseteq op[r].codes
        /\ target[r] # None =>
               /\ Exists(target[r]) /\ target[r] = op[r].user
               /\ pc[r] \notin {"new", "in"}
        /\ audit[r] # None => pc[r] \in {"done", "refused"}

-----------------------------------------------------------------------------
(* Types.                                                                   *)

\* All but the history.
TypedState ==
    /\ role \in [Users -> Roles \cup {None}]
    /\ active \subseteq {u \in Users : role[u] # None}
    /\ usable \subseteq Codes
    /\ grants \subseteq Users \X Codes \X (Users \cup {None})
    /\ jobs \in [Requests -> Job \cup {None}]
    /\ audit \in [Requests -> Users \cup {None}]
    /\ pc \in [Requests -> {"new", "in", "cleared", "created", "loaded", "absent",
                            "detached", "done", "refused"}]
    /\ op \in [Requests -> Operation]
    /\ caller \in [Requests -> Users \cup {None}]
    /\ as \in [Requests -> Roles \cup {None}]
    /\ target \in [Requests -> Users \cup {None}]
    /\ seen \in [Requests -> Row]
    /\ todo \in [Requests -> SUBSET (Codes \cup Requests)]
    /\ left \in [Requests -> SUBSET Codes]

LEMMA OperationFields ==
    ASSUME NEW o \in Operations
    PROVE  /\ o.kind \in Kinds /\ o.user \in Users /\ o.codes \subseteq Codes
           /\ o.role \in Roles \cup {None} /\ o.active \in BOOLEAN \cup {None}
           /\ o.kind \in {"create", "seed"} => o.role \in Roles /\ o.active \in BOOLEAN
           /\ o.kind = "toggle" => o.active \in BOOLEAN /\ \E c \in Codes : o.codes = {c}
           /\ o.user # None
  BY OperationsAssumption, AccountsAssumption

LEMMA TypeStarts == Init => TypeOK /\ Shape
  BY AccountsAssumption DEF Init, TypeOK, Shape, Operation, Row, Exists

\* Where a request that has begun stands.
LEMMA StandsTyped ==
    ASSUME TypedState, Shape, NEW r \in Requests, pc[r] # "new"
    PROVE  /\ op[r] \in Operations
           /\ op[r].user \in Users /\ op[r].codes \subseteq Codes
           /\ op[r].role \in Roles \cup {None} /\ op[r].active \in BOOLEAN \cup {None}
  BY OperationFields DEF Shape

LEMMA AuditedTyped ==
    ASSUME TypedState, NEW r \in Requests
    PROVE  Audited(r) \in [Requests -> Users \cup {None}]
  BY DEF Audited, TypedState

\* The request gets its operation and its caller.
LEMMA StartSets ==
    ASSUME TypedState, NEW r \in Requests, Start(r)
    PROVE  \E o \in Operations, u \in Users :
              /\ op' = [op EXCEPT ![r] = o] /\ caller' = [caller EXCEPT ![r] = u]
              /\ as' = [as EXCEPT ![r] = role[u]] /\ left' = [left EXCEPT ![r] = o.codes]
              /\ pc' = [pc EXCEPT ![r] = "in"]
              /\ UNCHANGED <<database, target, seen, todo>>
  BY DEF Start, Goto, TypedState

LEMMA SeedSets ==
    ASSUME NEW r \in Requests, StartSeed(r)
    PROVE  \E o \in Operations :
              /\ o.kind = "seed" /\ op' = [op EXCEPT ![r] = o]
              /\ pc' = [pc EXCEPT ![r] = "in"]
              /\ UNCHANGED <<database, caller, as, target, seen, todo, left>>
  BY DEF StartSeed, Goto

LEMMA JobsTyped ==
    ASSUME TypedState, Shape, NEW r \in Requests,
           Start(r) \/ StartSeed(r) \/ Authorize(r) \/ CreateJob(r) \/ AuditJob(r) \/ Read(r)
    PROVE  TypedState'
<1>1. CASE Start(r)
  <2>1. PICK o \in Operations, u \in Users :
           /\ op' = [op EXCEPT ![r] = o] /\ caller' = [caller EXCEPT ![r] = u]
           /\ as' = [as EXCEPT ![r] = role[u]] /\ left' = [left EXCEPT ![r] = o.codes]
           /\ pc' = [pc EXCEPT ![r] = "in"]
           /\ UNCHANGED <<database, target, seen, todo>>
    BY <1>1, StartSets
  <2>2. role[u] \in Roles \cup {None} /\ o.codes \subseteq Codes
    BY OperationFields DEF TypedState
  <2>3. /\ op' \in [Requests -> Operation] /\ caller' \in [Requests -> Users \cup {None}]
        /\ as' \in [Requests -> Roles \cup {None}] /\ left' \in [Requests -> SUBSET Codes]
    BY <2>1, <2>2 DEF TypedState, Operation
  <2>4. pc' \in [Requests -> {"new", "in", "cleared", "created", "loaded", "absent",
                              "detached", "done", "refused"}]
    BY <2>1 DEF TypedState
  <2> QED
    BY <2>1, <2>3, <2>4 DEF TypedState, database
<1>2. CASE StartSeed(r)
  <2>1. PICK o \in Operations :
           /\ op' = [op EXCEPT ![r] = o] /\ pc' = [pc EXCEPT ![r] = "in"]
           /\ UNCHANGED <<database, caller, as, target, seen, todo, left>>
    BY <1>2, SeedSets
  <2>2. op' \in [Requests -> Operation]
    BY <2>1 DEF TypedState, Operation
  <2>3. pc' \in [Requests -> {"new", "in", "cleared", "created", "loaded", "absent",
                              "detached", "done", "refused"}]
    BY <2>1 DEF TypedState
  <2> QED
    BY <2>1, <2>2, <2>3 DEF TypedState, database
<1>3. CASE Authorize(r)
  <2>1. audit' \in [Requests -> Users \cup {None}]
    BY <1>3, AuditedTyped DEF Authorize, TypedState
  <2> QED
    BY <1>3, <2>1 DEF Authorize, Goto, TypedState
<1>4. CASE CreateJob(r)
  <2>1. op[r].codes \subseteq Codes
    BY <1>4, StandsTyped DEF CreateJob, At
  <2>2. jobs' \in [Requests -> Job \cup {None}]
    BY <1>4, <2>1 DEF CreateJob, Refuse, TypedState, Exists, Job, database
  <2> QED
    BY <1>4, <2>2 DEF CreateJob, Refuse, Goto, TypedState, database
<1>5. CASE AuditJob(r)
  BY <1>5, AuditedTyped DEF AuditJob, Goto, TypedState
<1>6. CASE Read(r)
  BY <1>6, AuditedTyped DEF Read, Goto, TypedState
<1> QED
  BY <1>1, <1>2, <1>3, <1>4, <1>5, <1>6

\* The columns of an account that is there.
LEMMA ColumnsTyped ==
    ASSUME TypedState, Shape, NEW r \in Requests, pc[r] # "new"
    PROVE  Columns(r) \in Row
<1>1. op[r].user \in Users
  BY StandsTyped
<1>2. role[op[r].user] \in Roles \cup {None} /\ as[r] \in Roles \cup {None}
  BY <1>1 DEF TypedState
<1>3. (op[r].user \in active) \in BOOLEAN
  OBVIOUS
<1>4. \A rl \in Roles \cup {None}, on \in BOOLEAN : [role |-> rl, active |-> on] \in Row
  BY DEF Row
<1> QED
  BY <1>2, <1>3, <1>4 DEF Columns

LEMMA AccountsTyped ==
    ASSUME TypedState, Shape, NEW r \in Requests,
           Load(r) \/ FindNone(r) \/ Insert(r) \/ WriteUser(r)
    PROVE  TypedState'
<1>1. CASE Load(r)
  <2>1. Columns(r) \in Row /\ op[r].user \in Users
    BY <1>1, ColumnsTyped, StandsTyped DEF Load, At
  <2> QED
    BY <1>1, <2>1 DEF Load, Goto, TypedState, database
<1>2. CASE FindNone(r)
  BY <1>2 DEF FindNone, Goto, TypedState, database
<1>3. CASE Insert(r)
  <2>1. op[r].user \in Users /\ op[r].role \in Roles /\ op[r].role # None
    BY <1>3, OperationFields, AccountsAssumption DEF Insert, Shape
  <2>2. role' \in [Users -> Roles \cup {None}] /\ active' \subseteq {u \in Users : role'[u] # None}
    BY <1>3, <2>1 DEF Insert, Refuse, TypedState, database
  <2> QED
    BY <1>3, <2>2 DEF Insert, Refuse, Goto, TypedState, database
<1>4. CASE WriteUser(r) /\ target[r] = None
  BY <1>4 DEF WriteUser, Goto, TypedState, database
<1>5. CASE WriteUser(r) /\ target[r] # None
  <2>1. /\ target[r] \in Users /\ role[target[r]] # None
        /\ op[r].role \in Roles \cup {None}
    BY <1>5, StandsTyped DEF Shape, Exists, TypedState
  <2>2. NewRole(r) \in Roles /\ NewRole(r) # None
    BY <2>1, AccountsAssumption DEF NewRole, TypedState
  <2>3. NewActive(r) \subseteq active \cup {target[r]}
    BY DEF NewActive
  <2>4. role' = [role EXCEPT ![target[r]] = NewRole(r)] /\ active' = NewActive(r)
    BY <1>5 DEF WriteUser
  <2>5. role' \in [Users -> Roles \cup {None}] /\ active' \subseteq {u \in Users : role'[u] # None}
    BY <2>1, <2>2, <2>3, <2>4 DEF TypedState
  <2> QED
    BY <1>5, <2>5 DEF WriteUser, Goto, TypedState
<1> QED
  BY <1>1, <1>2, <1>3, <1>4, <1>5

LEMMA RestTyped ==
    ASSUME TypedState, Shape, NEW r \in Requests,
           \/ Detach(r) \/ DeleteGone(r) \/ DeleteRefused(r) \/ DeleteUser(r)
           \/ CheckGrant(r) \/ CommitGrants(r) \/ Revoke(r) \/ LoadCode(r) \/ Toggle(r)
    PROVE  TypedState'
<1>1. CASE Detach(r)
  BY <1>1 DEF Detach, Goto, TypedState, database
<1>2. CASE DeleteGone(r)
  BY <1>2 DEF DeleteGone, Goto, TypedState, database
<1>3. CASE DeleteRefused(r)
  BY <1>3 DEF DeleteRefused, Refuse, Goto, TypedState, database
<1>4. CASE DeleteUser(r)
  <2>1. target[r] \in Users
    BY <1>4 DEF DeleteUser, TypedState
  <2>2. role' \in [Users -> Roles \cup {None}] /\ active' \subseteq {u \in Users : role'[u] # None}
    BY <1>4, <2>1 DEF DeleteUser, TypedState
  <2>3. /\ audit' \in [Requests -> Users \cup {None}]
        /\ caller' \in [Requests -> Users \cup {None}]
        /\ target' \in [Requests -> Users \cup {None}]
    BY <1>4 DEF DeleteUser, Forget, TypedState
  <2> QED
    BY <1>4, <2>2, <2>3 DEF DeleteUser, Goto, TypedState
<1>5. CASE CheckGrant(r)
  <2>1. PICK c \in left[r] :
            /\ todo' = IF HasGrant(target[r], c) THEN todo ELSE [todo EXCEPT ![r] = @ \cup {c}]
            /\ left' = [left EXCEPT ![r] = @ \ {c}]
    BY <1>5 DEF CheckGrant
  <2>2. c \in Codes
    BY DEF TypedState
  <2>3. /\ todo' \in [Requests -> SUBSET (Codes \cup Requests)]
        /\ left' \in [Requests -> SUBSET Codes]
    BY <2>1, <2>2 DEF TypedState
  <2> QED
    BY <1>5, <2>3 DEF CheckGrant, TypedState, database
<1>6. CASE CommitGrants(r)
  <2>1. todo[r] \subseteq Codes
    BY <1>6, StandsTyped DEF CommitGrants, At, Shape
  <2>2. grants' \subseteq Users \X Codes \X (Users \cup {None})
    <3>1. CASE todo[r] = {}
      BY <1>6, <3>1 DEF CommitGrants, Refuse, TypedState, database
    <3>2. CASE todo[r] # {}
      BY <1>6, <2>1, <3>2 DEF CommitGrants, Refuse, TypedState, Exists, database
    <3> QED
      BY <3>1, <3>2
  <2> QED
    BY <1>6, <2>2 DEF CommitGrants, Refuse, Goto, TypedState, database
<1>7. CASE Revoke(r)
  BY <1>7 DEF Revoke, Goto, TypedState
<1>8. CASE Toggle(r)
  <2>1. op[r].codes \subseteq Codes
    BY <1>8, StandsTyped DEF Toggle, At
  <2>2. usable' \subseteq Codes
    BY <1>8, <2>1 DEF Toggle, TypedState
  <2> QED
    BY <1>8, <2>2 DEF Toggle, Goto, TypedState
<1>9. CASE LoadCode(r)
  <2> DEFINE on == op[r].codes \subseteq usable
  <2>1. on \in BOOLEAN
    OBVIOUS
  <2>2. \A rl \in Roles \cup {None}, b \in BOOLEAN : [role |-> rl, active |-> b] \in Row
    BY DEF Row
  <2>3. seen' = [seen EXCEPT ![r] = [role |-> None, active |-> on]]
    BY <1>9 DEF LoadCode
  <2> HIDE DEF on
  <2>4. [role |-> None, active |-> on] \in Row
    BY <2>1, <2>2
  <2>5. seen' \in [Requests -> Row]
    BY <2>3, <2>4 DEF TypedState
  <2> QED
    BY <1>9, <2>5 DEF LoadCode, Goto, TypedState, database
<1> QED
  BY <1>1, <1>2, <1>3, <1>4, <1>5, <1>6, <1>7, <1>8, <1>9

LEMMA StateTyped ==
    ASSUME TypedState, Shape, NEW r \in Requests, Step(r) PROVE TypedState'
  BY JobsTyped, AccountsTyped, RestTyped DEF Step

-----------------------------------------------------------------------------
(* What a step of one request leaves of the others.                         *)

Others(r) ==
    \A q \in Requests \ {r} :
        /\ pc'[q] = pc[q] /\ op'[q] = op[q] /\ as'[q] = as[q]
        /\ seen'[q] = seen[q] /\ todo'[q] = todo[q] /\ left'[q] = left[q]
        /\ caller'[q] \in {caller[q], None}

\* Who loses the row it holds is told so, and the row is gone with its grants.
Losing ==
    \A q \in Requests :
        target[q] # None /\ target'[q] # target[q] =>
            /\ target'[q] = None /\ role'[target[q]] = None
            /\ \A g \in grants' : g[1] # target[q]

LEMMA StepFrames ==
    ASSUME TypedState, Shape, NEW r \in Requests, Step(r)
    PROVE  Others(r) /\ \A q \in Requests \ {r} : target'[q] \in {target[q], None}
<1>0. CASE Start(r)
  <2>1. PICK o \in Operations, u \in Users :
           /\ op' = [op EXCEPT ![r] = o] /\ caller' = [caller EXCEPT ![r] = u]
           /\ as' = [as EXCEPT ![r] = role[u]] /\ left' = [left EXCEPT ![r] = o.codes]
           /\ pc' = [pc EXCEPT ![r] = "in"]
           /\ UNCHANGED <<database, target, seen, todo>>
    BY <1>0, StartSets
  <2>2. \A q \in Requests \ {r} : op'[q] = op[q]
    BY <2>1 DEF TypedState
  <2>3. \A q \in Requests \ {r} : caller'[q] = caller[q] /\ as'[q] = as[q]
    BY <2>1 DEF TypedState
  <2>4. \A q \in Requests \ {r} : left'[q] = left[q] /\ pc'[q] = pc[q]
    BY <2>1 DEF TypedState
  <2>5. Others(r)
    BY <2>1, <2>2, <2>3, <2>4 DEF Others
  <2> QED
    BY <2>1, <2>5
<1>1. CASE StartSeed(r)
  BY <1>1 DEF StartSeed, Goto, Others, TypedState
<1>2. CASE \/ Authorize(r) \/ CreateJob(r) \/ AuditJob(r) \/ Read(r)
           \/ FindNone(r) \/ Insert(r) \/ WriteUser(r)
           \/ DeleteGone(r) \/ DeleteRefused(r) \/ CommitGrants(r) \/ Revoke(r) \/ Toggle(r)
  BY <1>2 DEF Authorize, CreateJob, AuditJob, Read, FindNone, Insert, WriteUser,
     DeleteGone, DeleteRefused, CommitGrants, Revoke, Toggle, Refuse, Goto, Others, TypedState
<1>3. CASE Load(r)
  BY <1>3 DEF Load, Goto, Others, TypedState
<1>4. CASE Detach(r) \/ CheckGrant(r) \/ LoadCode(r)
  BY <1>4 DEF Detach, CheckGrant, LoadCode, Goto, Others, TypedState
<1>5. CASE DeleteUser(r)
  BY <1>5 DEF DeleteUser, Forget, Goto, Others, TypedState
<1> QED
  BY <1>0, <1>1, <1>2, <1>3, <1>4, <1>5 DEF Step

LEMMA StepLoses ==
    ASSUME TypedState, Shape, NEW r \in Requests, Step(r)
    PROVE  Losing
<1>1. CASE DeleteUser(r)
  BY <1>1 DEF DeleteUser, Forget, Losing, TypedState
<1>2. CASE Load(r)
  BY <1>2 DEF Load, At, Losing, TypedState, Shape
<1>3. CASE ~Load(r) /\ ~DeleteUser(r)
  BY <1>3 DEF Step, Start, StartSeed, Authorize, CreateJob, AuditJob, Read, FindNone, Insert,
     WriteUser, Detach, DeleteGone, DeleteRefused, CheckGrant, CommitGrants, Revoke, LoadCode, Toggle,
     Losing
<1> QED
  BY <1>1, <1>2, <1>3

-----------------------------------------------------------------------------
(* Stands.                                                                  *)

\* An account goes only in DeleteUser.
LEMMA AccountsStay ==
    ASSUME TypedState, Shape, NEW r \in Requests, Step(r), NEW u \in Users, role[u] # None
    PROVE  role'[u] # None \/ (DeleteUser(r) /\ u = target[r])
<1>1. CASE Insert(r)
  <2>1. op[r].user \in Users /\ op[r].role # None
    BY <1>1, OperationFields, AccountsAssumption DEF Insert, Shape
  <2> QED
    BY <1>1, <2>1 DEF Insert, Refuse, database, TypedState
<1>2. CASE WriteUser(r) /\ target[r] # None
  <2>1. target[r] \in Users /\ role[target[r]] # None
    BY <1>2 DEF Shape, Exists, TypedState
  <2>2. NewRole(r) # None
    BY <2>1 DEF NewRole
  <2>3. role' = [role EXCEPT ![target[r]] = NewRole(r)]
    BY <1>2 DEF WriteUser
  <2> QED
    BY <2>1, <2>2, <2>3 DEF TypedState
<1>3. CASE DeleteUser(r)
  BY <1>3 DEF DeleteUser, TypedState
<1>4. CASE ~Insert(r) /\ ~(WriteUser(r) /\ target[r] # None) /\ ~DeleteUser(r)
  BY <1>4 DEF Step, Start, StartSeed, Authorize, CreateJob, AuditJob, Read, Load, FindNone,
     WriteUser, Detach, DeleteGone, DeleteRefused, CheckGrant, CommitGrants, Revoke, LoadCode, Toggle,
     Refuse, database
<1> QED
  BY <1>1, <1>2, <1>3, <1>4

\* What the request that takes the step knows afterwards.
LEMMA OwnShape ==
    ASSUME TypedState, Shape, NEW r \in Requests, Step(r)
    PROVE  /\ pc'[r] # "new" /\ op'[r] \in Operations
           /\ pc'[r] = "absent" => op'[r].kind \in {"create", "seed"}
           /\ pc'[r] = "in" /\ op'[r].kind = "grant" => left'[r] = op'[r].codes /\ todo'[r] = {}
           /\ pc'[r] = "loaded" /\ op'[r].kind = "grant" =>
                todo'[r] \subseteq op'[r].codes /\ left'[r] \subseteq op'[r].codes
           /\ target'[r] # None => target'[r] = op'[r].user /\ pc'[r] # "in"
           /\ audit'[r] # None => pc'[r] \in {"done", "refused"}
<1>0. CASE Start(r)
  <2>1. target[r] = None /\ todo[r] = {} /\ audit[r] = None
    BY <1>0 DEF Start, Shape
  <2>2. PICK o \in Operations, u \in Users :
           /\ op' = [op EXCEPT ![r] = o] /\ caller' = [caller EXCEPT ![r] = u]
           /\ as' = [as EXCEPT ![r] = role[u]] /\ left' = [left EXCEPT ![r] = o.codes]
           /\ pc' = [pc EXCEPT ![r] = "in"]
           /\ UNCHANGED <<database, target, seen, todo>>
    BY <1>0, StartSets
  <2>3. pc'[r] = "in" /\ op'[r] = o /\ left'[r] = o.codes
    BY <2>2 DEF TypedState
  <2>4. target'[r] = None /\ todo'[r] = {} /\ audit'[r] = None
    BY <2>1, <2>2 DEF database
  <2> QED
    BY <2>2, <2>3, <2>4
<1>1. CASE StartSeed(r)
  BY <1>1, OperationFields DEF StartSeed, Goto, TypedState, Shape, database
<1>2. ASSUME pc[r] # "new", op' = op PROVE pc[r] # "new" /\ op'[r] = op[r] /\ op[r] \in Operations
  BY <1>2 DEF Shape
<1>3. CASE Authorize(r) \/ CreateJob(r) \/ AuditJob(r) \/ Read(r)
  BY <1>2, <1>3 DEF Authorize, CreateJob, AuditJob, Read, At, Refuse, Goto, TypedState, Shape,
     database
<1>4. CASE Load(r)
  BY <1>2, <1>4 DEF Load, At, Goto, TypedState, Shape, database
<1>5. CASE FindNone(r) \/ Insert(r) \/ WriteUser(r)
  BY <1>2, <1>5 DEF FindNone, Insert, WriteUser, At, Refuse, Goto, TypedState, Shape, database
<1>6. CASE Detach(r) \/ DeleteGone(r) \/ DeleteRefused(r)
  BY <1>2, <1>6 DEF Detach, DeleteGone, DeleteRefused, At, Refuse, Goto, TypedState, Shape,
     database
<1>7. CASE DeleteUser(r)
  BY <1>2, <1>7 DEF DeleteUser, Forget, At, Goto, TypedState, Shape
<1>8. CASE CheckGrant(r)
  BY <1>2, <1>8 DEF CheckGrant, At, Goto, TypedState, Shape, database
<1>9. CASE CommitGrants(r) \/ Revoke(r) \/ LoadCode(r) \/ Toggle(r)
  BY <1>2, <1>9 DEF CommitGrants, Revoke, LoadCode, Toggle, At, Refuse, Goto, TypedState, Shape, database
<1> QED
  BY <1>0, <1>1, <1>3, <1>4, <1>5, <1>6, <1>7, <1>8, <1>9 DEF Step

\* What there is in the audit trail stays, but for the user of a row removed.
LEMMA TrailStays ==
    ASSUME TypedState, Shape, NEW r \in Requests, Step(r), NEW q \in Requests
    PROVE  /\ audit[q] # None =>
                \/ audit'[q] = audit[q]
                \/ DeleteUser(r) /\ audit[q] = target[r] /\ audit'[q] = None
           /\ q # r /\ audit[q] = None => audit'[q] = None
<1>1. pc[r] \notin {"done", "refused"}
  BY DEF Step, Start, StartSeed, Authorize, CreateJob, AuditJob, Read, Load, FindNone, Insert,
     WriteUser, Detach, DeleteGone, DeleteRefused, DeleteUser, CheckGrant, CommitGrants, Revoke,
     LoadCode, Toggle, At
<1>2. audit[r] = None
  BY <1>1 DEF Shape
<1>3. CASE DeleteUser(r)
  BY <1>3 DEF DeleteUser, Forget, TypedState
<1>4. CASE Authorize(r) \/ AuditJob(r) \/ Read(r)
  BY <1>2, <1>4 DEF Authorize, AuditJob, Read, Audited, TypedState
<1>5. CASE ~DeleteUser(r) /\ ~Authorize(r) /\ ~AuditJob(r) /\ ~Read(r)
  BY <1>5 DEF Step, Start, StartSeed, CreateJob, Load, FindNone, Insert, WriteUser, Detach,
     DeleteGone, DeleteRefused, CheckGrant, CommitGrants, Revoke, LoadCode, Toggle, Refuse, database
<1> QED
  BY <1>3, <1>4, <1>5

LEMMA TargetsExist ==
    ASSUME TypedState, Shape, NEW r \in Requests, Step(r), NEW q \in Requests,
           target'[q] # None
    PROVE  role'[target'[q]] # None
<1>1. CASE target[q] # None /\ target'[q] = target[q]
  <2>1. target[q] \in Users /\ role[target[q]] # None
    BY <1>1 DEF Shape, Exists, TypedState
  <2>2. ~(DeleteUser(r) /\ target[q] = target[r])
    BY <1>1 DEF DeleteUser, Forget, TypedState
  <2> QED
    BY <1>1, <2>1, <2>2, AccountsStay
<1>2. CASE target[q] # None /\ target'[q] # target[q]
  BY <1>2, StepLoses DEF Losing
<1>3. CASE target[q] = None
  <2>1. CASE q # r
    BY <1>3, <2>1, StepFrames
  <2>2. CASE q = r
    <3>1. Load(r)
      BY <1>3, <2>2 DEF Step, Start, StartSeed, Authorize, CreateJob, AuditJob, Read, FindNone,
         Insert, WriteUser, Detach, DeleteGone, DeleteRefused, DeleteUser, CheckGrant,
         CommitGrants, Revoke, LoadCode, Toggle
    <3>2. Exists(op[r].user) /\ target'[r] = op[r].user /\ role' = role
      BY <1>3, <2>2, <3>1 DEF Load, TypedState, database
    <3> QED
      BY <2>2, <3>2 DEF Exists
  <2> QED
    BY <2>1, <2>2
<1> QED
  BY <1>1, <1>2, <1>3

LEMMA ShapeKept ==
    ASSUME TypedState, Shape, NEW r \in Requests, Step(r)
    PROVE  Shape'
<1> SUFFICES ASSUME NEW q \in Requests
             PROVE  /\ pc'[q] # "new" => op'[q] \in Operations
                    /\ pc'[q] = "absent" => op'[q].kind \in {"create", "seed"}
                    /\ pc'[q] = "new" => todo'[q] = {}
                    /\ pc'[q] = "in" /\ op'[q].kind = "grant" =>
                           left'[q] = op'[q].codes /\ todo'[q] = {}
                    /\ pc'[q] = "loaded" /\ op'[q].kind = "grant" =>
                           /\ todo'[q] \subseteq op'[q].codes
                           /\ left'[q] \subseteq op'[q].codes
                    /\ target'[q] # None =>
                           /\ role'[target'[q]] # None /\ target'[q] = op'[q].user
                           /\ pc'[q] \notin {"new", "in"}
                    /\ audit'[q] # None => pc'[q] \in {"done", "refused"}
  BY DEF Shape, Exists
<1>1. target'[q] # None => role'[target'[q]] # None
  BY TargetsExist
<1>2. CASE q = r
  BY <1>1, <1>2, OwnShape
<1>3. CASE q # r
  <2>1. /\ pc'[q] = pc[q] /\ op'[q] = op[q] /\ todo'[q] = todo[q] /\ left'[q] = left[q]
        /\ target'[q] \in {target[q], None}
    BY <1>3, StepFrames DEF Others
  <2>2. audit'[q] # None => audit[q] # None
    BY <1>3, TrailStays
  <2> QED
    BY <1>1, <2>1, <2>2 DEF Shape
<1> QED
  BY <1>2, <1>3

LEMMA TypeKept == TypeOK /\ Shape /\ [Next]_vars => TypeOK' /\ Shape'
<1> SUFFICES ASSUME TypeOK, Shape, [Next]_vars PROVE TypeOK' /\ Shape'
  OBVIOUS
<1>1. TypedState
  BY DEF TypeOK, TypedState
<1>2. CASE UNCHANGED vars
  BY <1>2 DEF vars, database, request, TypeOK, Shape, Exists
<1>3. CASE Next
  <2>1. PICK r \in Requests : Step(r) /\ Observe
    BY <1>3 DEF Next
  <2>2. TypedState' /\ Shape'
    BY <1>1, <2>1, StateTyped, ShapeKept
  <2>3. \A q \in Requests : Achieved(q)' \subseteq Codes \cup {"role", "active", "all"}
    <3> TAKE q \in Requests
    <3>1. CASE pc'[q] = "new"
      BY <3>1 DEF Achieved
    <3>2. CASE pc'[q] # "new"
      <4>1. op'[q] \in Operations
        BY <2>2, <3>2 DEF Shape
      <4>2. op'[q].codes \subseteq Codes
        BY <4>1, OperationFields
      <4> QED
        BY <3>2, <4>2 DEF Achieved, Asked
    <3> QED
      BY <3>1, <3>2
  <2>4. met' \in [Requests -> SUBSET (Codes \cup {"role", "active", "all"})]
    BY <2>1, <2>3 DEF Observe, TypeOK
  <2> QED
    BY <2>2, <2>4 DEF TypeOK, TypedState
<1> QED
  BY <1>2, <1>3

\* A request asks for what there is, and rows have the form of their table.
THEOREM AccessTypeCorrect == Spec => []TypeOK
<1>1. Spec => [](TypeOK /\ Shape)
  BY TypeStarts, TypeKept, PTL DEF Spec
<1> QED
  BY <1>1, PTL

-----------------------------------------------------------------------------
(* Nothing names an account that is gone.                                   *)

LEMMA OwnersKept ==
    ASSUME TypedState, Shape, References, NEW r \in Requests, Step(r),
           NEW q \in Requests, jobs'[q] # None
    PROVE  jobs'[q].owner # None /\ role'[jobs'[q].owner] # None
<1>1. CASE CreateJob(r) /\ q = r /\ jobs'[q] # jobs[q]
  BY <1>1 DEF CreateJob, Refuse, Exists, TypedState, database
<1>2. CASE jobs'[q] = jobs[q]
  <2>1. Exists(jobs[q].owner) /\ jobs[q].owner \in Users
    BY <1>2 DEF References, TypedState, Job
  <2>2. ~(DeleteUser(r) /\ jobs[q].owner = target[r])
    BY <1>2 DEF DeleteUser, Referenced
  <2> QED
    BY <1>2, <2>1, <2>2, AccountsStay DEF Exists
<1>3. jobs'[q] = jobs[q] \/ (CreateJob(r) /\ q = r)
  <2>1. CASE CreateJob(r)
    BY <2>1 DEF CreateJob, Refuse, TypedState, database
  <2>2. CASE ~CreateJob(r)
    BY <2>2 DEF Step, Start, StartSeed, Authorize, AuditJob, Read, Load, FindNone, Insert,
       WriteUser, Detach, DeleteGone, DeleteRefused, DeleteUser, CheckGrant, CommitGrants,
       Revoke, LoadCode, Toggle, Refuse, database
  <2> QED
    BY <2>1, <2>2
<1> QED
  BY <1>1, <1>2, <1>3

LEMMA NewGrants ==
    ASSUME TypedState, NEW r \in Requests, Step(r), NEW g \in grants', g \notin grants
    PROVE  /\ Exists(target[r]) /\ Exists(caller[r]) /\ role' = role
           /\ g[1] = target[r] /\ g[3] = caller[r]
<1>1. CommitGrants(r)
  BY DEF Step, Start, StartSeed, Authorize, CreateJob, AuditJob, Read, Load, FindNone, Insert,
     WriteUser, Detach, DeleteGone, DeleteRefused, DeleteUser, CheckGrant, Revoke, LoadCode, Toggle,
     Refuse, database
<1>2. PICK c \in todo[r] : g = <<target[r], c, caller[r]>>
  BY <1>1 DEF CommitGrants, Refuse, database
<1>3. grants' # grants
  OBVIOUS
<1>4. Exists(target[r]) /\ Exists(caller[r]) /\ role' = role
  BY <1>1, <1>2, <1>3 DEF CommitGrants, Refuse, database
<1> QED
  BY <1>2, <1>4

LEMMA GrantsKept ==
    ASSUME TypedState, Shape, References, NEW r \in Requests, Step(r), NEW g \in grants'
    PROVE  /\ g[1] # None /\ role'[g[1]] # None
           /\ g[3] # None => role'[g[3]] # None
<1>1. CASE g \notin grants
  BY <1>1, NewGrants DEF Exists
<1>2. CASE g \in grants
  <2>1. g[1] \in Users /\ g[3] \in Users \cup {None}
    BY <1>2 DEF TypedState
  <2>2. Exists(g[1]) /\ (g[3] # None => Exists(g[3]))
    BY <1>2 DEF References
  <2>3. DeleteUser(r) => g[1] # target[r]
    BY DEF DeleteUser
  <2>4. DeleteUser(r) => g[3] # target[r]
    BY <1>2, <2>3 DEF DeleteUser, Referenced
  <2> QED
    BY <2>1, <2>2, <2>3, <2>4, AccountsStay DEF Exists
<1> QED
  BY <1>1, <1>2

LEMMA TrailKept ==
    ASSUME TypedState, Shape, References, NEW r \in Requests, Step(r),
           NEW q \in Requests, audit'[q] # None
    PROVE  role'[audit'[q]] # None
<1>1. CASE audit[q] # None
  <2>1. audit'[q] = audit[q]
    BY <1>1, TrailStays
  <2>2. ~(DeleteUser(r) /\ audit[q] = target[r])
    BY <1>1, <2>1 DEF DeleteUser, Forget, TypedState
  <2>3. audit[q] \in Users /\ role[audit[q]] # None
    BY <1>1 DEF References, Exists, TypedState
  <2> QED
    BY <2>1, <2>2, <2>3, AccountsStay
<1>2. CASE audit[q] = None
  <2>1. q = r
    BY <1>2, TrailStays
  <2>2. Authorize(r) \/ AuditJob(r) \/ Read(r)
    <3>1. ~DeleteUser(r)
      BY <1>2, <2>1 DEF DeleteUser, Forget, TypedState
    <3> QED
      BY <1>2, <2>1, <3>1 DEF Step, Start, StartSeed, CreateJob, Load, FindNone, Insert,
         WriteUser, Detach, DeleteGone, DeleteRefused, CheckGrant, CommitGrants, Revoke,
         LoadCode, Toggle, Refuse, database
  <2>3. audit' = Audited(r) /\ role' = role
    BY <1>2, <2>1, <2>2 DEF Authorize, AuditJob, Read
  <2> QED
    BY <1>2, <2>1, <2>3 DEF Audited, Exists, TypedState
<1> QED
  BY <1>1, <1>2

LEMMA ReferencesKept ==
    ASSUME TypeOK, Shape, References, [Next]_vars
    PROVE  References'
<1>1. TypedState
  BY DEF TypeOK, TypedState
<1>2. CASE UNCHANGED vars
  BY <1>2 DEF vars, database, request, References, Exists
<1>3. CASE Next
  <2>1. PICK r \in Requests : Step(r)
    BY <1>3 DEF Next
  <2>2. \A q \in Requests : jobs'[q] # None =>
            jobs'[q].owner # None /\ role'[jobs'[q].owner] # None
    BY <1>1, <2>1, OwnersKept
  <2>3. \A g \in grants' : /\ g[1] # None /\ role'[g[1]] # None
                           /\ g[3] # None => role'[g[3]] # None
    BY <1>1, <2>1, GrantsKept
  <2>4. \A q \in Requests : audit'[q] # None => role'[audit'[q]] # None
    BY <1>1, <2>1, TrailKept
  <2> QED
    BY <2>2, <2>3, <2>4 DEF References, Exists
<1> QED
  BY <1>2, <1>3

\* delete_user never leaves a job, a grant or an audit row with a user that is
\* gone: what is created while it looks for references holds the row.
THEOREM ReferencesHold == Spec => []References
<1>1. Init => References
  BY AccountsAssumption DEF Init, References, Exists
<1>2. TypeOK /\ Shape /\ References /\ [Next]_vars => References'
  BY ReferencesKept
<1> QED
  BY <1>1, <1>2, TypeStarts, TypeKept, PTL DEF Spec

-----------------------------------------------------------------------------
(* What a step may not do.                                                  *)

\* The trail is append-only but for the deletion of its user.
THEOREM AuditIsKept == Spec => AuditKept
<1>1. TypeOK /\ Shape /\ [Next]_vars =>
        [\A r \in Requests :
            audit[r] # None => audit'[r] = audit[r] \/ role'[audit[r]] = None]_vars
  <2> SUFFICES ASSUME TypeOK, Shape, Next
               PROVE  \A q \in Requests :
                        audit[q] # None => audit'[q] = audit[q] \/ role'[audit[q]] = None
    OBVIOUS
  <2>1. TypedState
    BY DEF TypeOK, TypedState
  <2>2. PICK r \in Requests : Step(r)
    BY DEF Next
  <2> TAKE q \in Requests
  <2>3. audit[q] # None =>
            audit'[q] = audit[q] \/ (DeleteUser(r) /\ audit[q] = target[r])
    BY <2>1, <2>2, TrailStays
  <2>4. audit[q] # None /\ DeleteUser(r) /\ audit[q] = target[r] => role'[audit[q]] = None
    BY <2>1 DEF DeleteUser, TypedState
  <2> QED
    BY <2>3, <2>4
<1> QED
  BY <1>1, TypeStarts, TypeKept, PTL DEF Spec, AuditKept

\* The steps that change a column of an account that stays.
LEMMA ColumnsChange ==
    ASSUME TypedState, Shape, NEW r \in Requests, Step(r), NEW u \in Users,
           role[u] # None, role'[u] # None,
           role'[u] # role[u] \/ (u \in active) # (u \in active')
    PROVE  WriteUser(r) /\ target[r] = u
<1>1. ~DeleteUser(r)
  <2> SUFFICES ASSUME DeleteUser(r) PROVE role'[u] = role[u] /\ (u \in active <=> u \in active')
    OBVIOUS
  <2>1. u # target[r]
    BY DEF DeleteUser, TypedState
  <2> QED
    BY <2>1 DEF DeleteUser, TypedState
<1>2. ~Insert(r)
  <2> SUFFICES ASSUME Insert(r) PROVE role'[u] = role[u] /\ (u \in active <=> u \in active')
    OBVIOUS
  <2>1. CASE Exists(op[r].user)
    BY <2>1 DEF Insert, Refuse, database
  <2>2. CASE ~Exists(op[r].user)
    <3>1. u # op[r].user
      BY <2>2, AccountsAssumption DEF Exists
    <3> QED
      BY <2>2, <3>1 DEF Insert, TypedState
  <2> QED
    BY <2>1, <2>2
<1>3. WriteUser(r)
  BY <1>1, <1>2 DEF Step, Start, StartSeed, Authorize, CreateJob, AuditJob, Read, Load, FindNone,
     Detach, DeleteGone, DeleteRefused, CheckGrant, CommitGrants, Revoke, LoadCode, Toggle, Refuse, database
<1>4. target[r] # None /\ role' = [role EXCEPT ![target[r]] = NewRole(r)] /\ active' = NewActive(r)
  BY <1>3 DEF WriteUser, database
<1>5. role'[u] # role[u] => target[r] = u
  BY <1>4 DEF TypedState
<1>6. (u \in active) # (u \in active') => target[r] = u
  BY <1>4 DEF NewActive
<1> QED
  BY <1>3, <1>5, <1>6

\* What an administrator or the seed script did not ask for it does not write.
THEOREM NoUpdateIsLost == Spec => NoLostUpdate
<1> DEFINE Kept ==
        \A u \in Users : Exists(u) /\ role'[u] # None =>
            /\ role'[u] # role[u] =>
                \E r \in Requests : /\ pc[r] = "loaded" /\ pc'[r] = "done"
                                    /\ op[r].user = u /\ op[r].role = role'[u]
            /\ (u \in active) # (u \in active') =>
                \E r \in Requests : /\ pc[r] = "loaded" /\ pc'[r] = "done"
                                    /\ op[r].user = u /\ op[r].active = (u \in active')
<1>1. TypeOK /\ Shape /\ [Next]_vars => [Kept]_vars
  <2> SUFFICES ASSUME TypeOK, Shape, Next PROVE Kept
    OBVIOUS
  <2>1. TypedState
    BY DEF TypeOK, TypedState
  <2>2. PICK r \in Requests : Step(r)
    BY DEF Next
  <2> SUFFICES ASSUME NEW u \in Users, Exists(u), role'[u] # None,
                      role'[u] # role[u] \/ (u \in active) # (u \in active')
               PROVE  /\ pc[r] = "loaded" /\ pc'[r] = "done" /\ op[r].user = u
                      /\ role'[u] # role[u] => op[r].role = role'[u]
                      /\ (u \in active) # (u \in active') => op[r].active = (u \in active')
    OBVIOUS
  <2>3. WriteUser(r) /\ target[r] = u
    BY <2>1, <2>2, ColumnsChange DEF Exists
  <2>4. pc[r] = "loaded" /\ op[r].user = u /\ op[r] \in Operations
    BY <2>3, AccountsAssumption DEF WriteUser, At, Shape
  <2>5. /\ pc'[r] = "done" /\ role' = [role EXCEPT ![u] = NewRole(r)]
        /\ active' = NewActive(r)
    BY <2>1, <2>3, AccountsAssumption DEF WriteUser, Goto, TypedState
  <2>6. role'[u] # role[u] => op[r].role = role'[u]
    BY <2>1, <2>3, <2>5 DEF NewRole, TypedState
  <2>7. ASSUME (u \in active) # (u \in active') PROVE op[r].active = (u \in active')
    <3>1. op[r].active \in BOOLEAN \cup {None} /\ op[r].active # None
      BY <2>3, <2>4, <2>5, <2>7, OperationFields DEF NewActive
    <3>2. CASE op[r].active = TRUE
      BY <2>3, <2>5, <2>7, <3>1, <3>2 DEF NewActive
    <3>3. CASE op[r].active = FALSE
      BY <2>3, <2>5, <2>7, <3>1, <3>3 DEF NewActive
    <3> QED
      BY <3>1, <3>2, <3>3
  <2> QED
    BY <2>4, <2>5, <2>6, <2>7
<1> QED
  BY <1>1, TypeStarts, TypeKept, PTL DEF Spec, NoLostUpdate

-----------------------------------------------------------------------------
(* Answers.                                                                 *)

\* What has been so for a request, at each of its stands: a column it is not
\* going to write, a code it is not going to grant, a row that has gone.
Truth(r) ==
    /\ pc[r] = "new" => caller[r] = None
    /\ pc[r] \in {"done", "created", "cleared"} => Asked(r) \subseteq met[r]
    /\ pc[r] = "in" /\ op[r].kind = "read" => Asked(r) \subseteq met[r]
    /\ pc[r] = "in" /\ op[r].kind \in {"update", "seed"} /\ op[r].user = caller[r] =>
           /\ op[r].role # None /\ op[r].role = as[r] => "role" \in met[r]
           /\ op[r].active # None /\ op[r].active = TRUE => "active" \in met[r]
    /\ pc[r] = "loaded" /\ op[r].kind \in {"update", "seed"} =>
           /\ op[r].role # None /\ op[r].role = seen[r].role => "role" \in met[r]
           /\ op[r].active # None /\ op[r].active = seen[r].active => "active" \in met[r]
    /\ pc[r] \in {"loaded", "detached"} /\ op[r].kind \in {"delete", "revoke"} =>
           target[r] # None \/ Asked(r) \subseteq met[r]
    /\ pc[r] = "loaded" /\ op[r].kind = "grant" =>
           op[r].codes \ (todo[r] \cup left[r]) \subseteq met[r]
    /\ pc[r] = "loaded" /\ op[r].kind = "toggle" /\ op[r].active = seen[r].active =>
           op[r].codes \subseteq met[r]

LEMMA Remembered ==
    ASSUME TypeOK, Observe, NEW q \in Requests
    PROVE  met[q] \subseteq met'[q]
  BY DEF Observe, TypeOK

\* What is so after a step is remembered.
LEMMA Noticed ==
    ASSUME TypeOK, Observe, NEW q \in Requests, pc'[q] # "new", op'[q] = op[q],
           NEW x \in Asked(q), Holds(q, x)'
    PROVE  x \in met'[q]
<1>1. met'[q] = met[q] \cup Achieved(q)'
  BY DEF Observe, TypeOK
<1>2. Asked(q)' = Asked(q)
  BY DEF Asked
<1> QED
  BY <1>1, <1>2 DEF Achieved

LEMMA TruthStarts ==
    ASSUME Init, NEW r \in Requests PROVE Truth(r)
  BY DEF Init, Truth

\* The columns that are asked for.
LEMMA ColumnAsked ==
    ASSUME NEW q \in Requests, op[q].kind \in {"create", "update", "seed"}
    PROVE  /\ "role" \in Asked(q) <=> op[q].role # None
           /\ "active" \in Asked(q) <=> op[q].active # None
           /\ Asked(q) \subseteq {"role", "active"}
  BY DEF Asked

LEMMA TruthOfOthers ==
    ASSUME TypeOK, TypedState, Shape, NEW r \in Requests, Step(r), Observe,
           NEW q \in Requests \ {r}, Truth(q)
    PROVE  Truth(q)'
<1>1. /\ pc'[q] = pc[q] /\ op'[q] = op[q] /\ as'[q] = as[q]
      /\ seen'[q] = seen[q] /\ todo'[q] = todo[q] /\ left'[q] = left[q]
      /\ caller'[q] \in {caller[q], None}
  BY StepFrames DEF Others
<1>2. met[q] \subseteq met'[q]
  BY Remembered
<1>3. Asked(q)' = Asked(q)
  BY <1>1 DEF Asked
<1>4. ASSUME pc[q] \in {"loaded", "detached"}, op[q].kind \in {"delete", "revoke"}
      PROVE  target'[q] # None \/ Asked(q) \subseteq met'[q]
  <2>1. CASE target[q] = None
    BY <1>2, <1>4, <2>1 DEF Truth
  <2>2. CASE target[q] # None /\ target'[q] # target[q]
    <3>1. target[q] = op[q].user /\ role'[op[q].user] = None
      BY <2>2, StepLoses DEF Losing, Shape
    <3>2. \A g \in grants' : g[1] # op[q].user
      BY <2>2, <3>1, StepLoses DEF Losing
    <3>3. ASSUME NEW x \in Asked(q) PROVE Holds(q, x)'
      <4>1. CASE op[q].kind = "delete"
        BY <1>1, <3>1, <4>1 DEF Holds, Exists
      <4>2. CASE op[q].kind = "revoke"
        BY <1>1, <3>2, <4>2 DEF Holds, HasGrant
      <4> QED
        BY <1>4, <4>1, <4>2
    <3> QED
      BY <1>1, <1>4, <3>3, Noticed
  <2>3. CASE target[q] # None /\ target'[q] = target[q]
    BY <2>3
  <2> QED
    BY <2>1, <2>2, <2>3
<1>5. op[q].user = caller'[q] /\ pc[q] = "in" => op[q].user = caller[q]
  BY <1>1, OperationFields DEF Shape
<1> QED
  BY <1>1, <1>2, <1>3, <1>4, <1>5 DEF Truth

\* What a request finds when it begins.
LEMMA TruthBegins ==
    ASSUME TypeOK, TypedState, Shape, NEW r \in Requests, Start(r) \/ StartSeed(r), Observe, Truth(r)
    PROVE  Truth(r)'
<1>1. /\ pc'[r] = "in" /\ op'[r] \in Operations /\ op'[r].user # None
      /\ role' = role /\ active' = active
  BY OperationFields DEF Start, StartSeed, Goto, TypedState, database
<1>2. met'[r] = met[r] \cup Achieved(r)'
  BY DEF Observe, TypeOK
<1>3. Achieved(r)' = {x \in Asked(r)' : Holds(r, x)'}
  BY <1>1 DEF Achieved
<1>4. ASSUME op'[r].kind = "read" PROVE Asked(r)' \subseteq met'[r]
  BY <1>2, <1>3, <1>4 DEF Holds
<1>5. ASSUME op'[r].kind \in {"update", "seed"}, op'[r].user = caller'[r]
      PROVE  /\ op'[r].role # None /\ op'[r].role = as'[r] => "role" \in met'[r]
             /\ op'[r].active # None /\ op'[r].active = TRUE => "active" \in met'[r]
  <2>1. Start(r)
    BY <1>1, <1>5 DEF StartSeed, Truth, Goto, TypedState
  <2>2. PICK u \in active : /\ caller' = [caller EXCEPT ![r] = u]
                            /\ as' = [as EXCEPT ![r] = role[u]]
    BY <2>1 DEF Start
  <2>3. op'[r].user = u /\ as'[r] = role[u] /\ u \in Users /\ role[u] # None
    BY <1>5, <2>2 DEF TypedState
  <2>4. op'[r].user # None /\ role'[op'[r].user] # None
    BY <1>1, <2>3
  <2>5. op'[r].role # None /\ op'[r].role = as'[r] =>
            "role" \in Asked(r)' /\ Holds(r, "role")'
    BY <1>1, <1>5, <2>3, <2>4 DEF Asked, Holds, Exists
  <2>6. op'[r].active # None /\ op'[r].active = TRUE =>
            "active" \in Asked(r)' /\ Holds(r, "active")'
    BY <1>1, <1>5, <2>3, <2>4 DEF Asked, Holds, Exists
  <2> QED
    BY <1>2, <1>3, <2>5, <2>6
<1> QED
  BY <1>1, <1>4, <1>5 DEF Truth

\* Jobs: the codes are authorized in one statement.
LEMMA TruthOfJobs ==
    ASSUME TypeOK, TypedState, Shape, NEW r \in Requests,
           Authorize(r) \/ CreateJob(r) \/ AuditJob(r) \/ Read(r), Observe, Truth(r)
    PROVE  Truth(r)'
<1>1. /\ op' = op /\ as' = as /\ caller' = caller /\ target' = target /\ seen' = seen
      /\ usable' = usable /\ grants' = grants /\ pc[r] # "new"
      /\ pc'[r] \in {"cleared", "created", "done", "refused"}
  BY DEF Authorize, CreateJob, AuditJob, Read, At, Refuse, Goto, TypedState, database
<1>2. met[r] \subseteq met'[r] /\ Asked(r)' = Asked(r)
  BY <1>1, Remembered DEF Asked
<1>3. CASE Authorize(r) /\ pc'[r] = "cleared"
  <2>1. op[r].kind = "extract" /\ op[r].codes \subseteq Authorized(r)
    BY <1>3 DEF Authorize, At, Goto, TypedState
  <2>2. Authorized(r)' = Authorized(r)
    BY <1>1 DEF Authorized, IsAdmin, HasGrant
  <2>3. \A x \in Asked(r) : Holds(r, x)'
    BY <1>1, <2>1, <2>2 DEF Holds
  <2> QED
    BY <1>1, <1>2, <1>3, <2>3, Noticed DEF Truth
<1>4. CASE CreateJob(r) \/ AuditJob(r) \/ Read(r)
  <2>1. Asked(r) \subseteq met[r]
    BY <1>4 DEF CreateJob, AuditJob, Read, At, Truth
  <2> QED
    BY <1>1, <1>2, <2>1 DEF Truth
<1>5. CASE pc'[r] = "refused"
  BY <1>5 DEF Truth
<1>6. Authorize(r) => pc'[r] \in {"cleared", "refused"}
  BY DEF Authorize, Goto, TypedState
<1> QED
  BY <1>3, <1>4, <1>5, <1>6

\* A column that is the one asked for when it is read is so at that moment,
\* or was when the caller's row came into the session.
LEMMA TruthOfLoad ==
    ASSUME TypeOK, TypedState, Shape, NEW r \in Requests, Load(r), Observe, Truth(r)
    PROVE  Truth(r)'
<1>1. /\ op' = op /\ as' = as /\ role' = role /\ active' = active /\ pc[r] = "in"
      /\ pc'[r] \in {"loaded", "refused"}
      /\ op[r] \in Operations /\ op[r].user \in Users /\ op[r].user # None
  BY OperationFields DEF Load, At, Goto, TypedState, Shape, database
<1>2. met[r] \subseteq met'[r] /\ Asked(r)' = Asked(r)
  BY <1>1, Remembered DEF Asked
<1>3. CASE pc'[r] = "refused"
  BY <1>3 DEF Truth
<1>4. CASE pc'[r] = "loaded"
  <2>1. Exists(op[r].user) /\ target'[r] = op[r].user /\ seen'[r] = Columns(r)
    BY <1>4 DEF Load, Goto, TypedState
  <2>2. ASSUME op[r].kind \in {"update", "seed"}
        PROVE  /\ op[r].role # None /\ op[r].role = seen'[r].role => "role" \in met'[r]
               /\ op[r].active # None /\ op[r].active = seen'[r].active => "active" \in met'[r]
    <3>1. CASE op[r].user = caller[r]
      <4>1. seen'[r].role = as[r] /\ seen'[r].active = TRUE
        BY <2>1, <3>1 DEF Columns
      <4>2. /\ op[r].role # None /\ op[r].role = as[r] => "role" \in met[r]
            /\ op[r].active # None /\ op[r].active = TRUE => "active" \in met[r]
        BY <1>1, <2>2, <3>1 DEF Truth
      <4> QED
        BY <1>2, <4>1, <4>2
    <3>2. CASE op[r].user # caller[r]
      <4>1. /\ seen'[r].role = role[op[r].user]
            /\ seen'[r].active = (op[r].user \in active)
        BY <2>1, <3>2 DEF Columns
      <4>2. op[r].role # None /\ op[r].role = seen'[r].role =>
                "role" \in Asked(r) /\ Holds(r, "role")'
        BY <1>1, <2>1, <2>2, <4>1, ColumnAsked DEF Holds, Exists
      <4>3. op[r].active # None /\ op[r].active = seen'[r].active =>
                "active" \in Asked(r) /\ Holds(r, "active")'
        BY <1>1, <2>1, <2>2, <4>1, ColumnAsked DEF Holds, Exists
      <4> QED
        BY <1>1, <1>4, <4>2, <4>3, Noticed
    <3> QED
      BY <3>1, <3>2
  <2>3. ASSUME op[r].kind = "grant"
        PROVE  op[r].codes \ (todo'[r] \cup left'[r]) = {}
    <3>1. left[r] = op[r].codes
      BY <1>1, <2>3 DEF Shape
    <3>2. left' = left
      BY DEF Load
    <3> QED
      BY <3>1, <3>2
  <2>4. op[r].kind # "toggle"
    BY DEF Load, At
  <2>5. op[r].kind \in {"delete", "revoke"} => target'[r] # None
    BY <1>1, <2>1
  <2> QED
    BY <1>1, <1>4, <2>1, <2>2, <2>3, <2>4, <2>5 DEF Truth
<1> QED
  BY <1>1, <1>3, <1>4

\* An answer of "done" with everything asked for remembered.
LEMMA TruthWhenDone ==
    ASSUME NEW r \in Requests, pc'[r] \in {"done", "refused", "absent"},
           pc'[r] = "done" => Asked(r)' \subseteq met'[r]
    PROVE  Truth(r)'
  BY DEF Truth

LEMMA TruthOfInsert ==
    ASSUME TypeOK, TypedState, Shape, NEW r \in Requests, Insert(r), Observe, Truth(r)
    PROVE  Truth(r)'
<1>1. /\ op' = op /\ pc[r] = "absent" /\ pc'[r] \in {"done", "refused"}
      /\ op[r] \in Operations /\ op[r].user \in Users /\ op[r].user # None
      /\ op[r].kind \in {"create", "seed"} /\ op[r].role \in Roles /\ op[r].active \in BOOLEAN
  BY OperationFields DEF Insert, Refuse, Goto, TypedState, Shape
<1>2. ASSUME pc'[r] = "done" PROVE \A x \in Asked(r) : Holds(r, x)'
  <2>1. /\ ~Exists(op[r].user)
        /\ role' = [role EXCEPT ![op[r].user] = op[r].role]
        /\ active' = IF op[r].active THEN active \cup {op[r].user} ELSE active
    BY <1>2 DEF Insert, Refuse, Goto, TypedState
  <2>2. role'[op[r].user] = op[r].role /\ op[r].role # None
    BY <1>1, <2>1, AccountsAssumption DEF TypedState
  <2>3. op[r].user \notin active
    BY <1>1, <2>1 DEF Exists, TypedState
  <2>4. op[r].user \in active' <=> op[r].active
    BY <1>1, <2>1, <2>3
  <2>5. Asked(r) \subseteq {"role", "active"}
    BY <1>1, ColumnAsked
  <2> QED
    BY <1>1, <2>2, <2>4, <2>5 DEF Holds, Exists
<1>3. Asked(r)' = Asked(r)
  BY <1>1 DEF Asked
<1>4. pc'[r] = "done" => Asked(r)' \subseteq met'[r]
  BY <1>1, <1>2, <1>3, Noticed
<1> QED
  BY <1>1, <1>4, TruthWhenDone

\* The columns that are not written have been so when they were read.
LEMMA TruthOfWrite ==
    ASSUME TypeOK, TypedState, Shape, NEW r \in Requests, WriteUser(r), Observe, Truth(r)
    PROVE  Truth(r)'
<1>1. /\ op' = op /\ pc[r] = "loaded" /\ pc'[r] \in {"done", "refused"}
      /\ op[r] \in Operations /\ op[r].user # None
      /\ op[r].kind \in {"update", "seed"}
      /\ op[r].role \in Roles \cup {None} /\ op[r].active \in BOOLEAN \cup {None}
      /\ op[r].kind = "seed" => op[r].role \in Roles /\ op[r].active \in BOOLEAN
  BY OperationFields DEF WriteUser, At, Refuse, Goto, TypedState, Shape
<1>2. met[r] \subseteq met'[r] /\ Asked(r)' = Asked(r)
  BY <1>1, Remembered DEF Asked
<1>3. /\ op[r].role # None /\ op[r].role = seen[r].role => "role" \in met[r]
      /\ op[r].active # None /\ op[r].active = seen[r].active => "active" \in met[r]
  BY <1>1 DEF Truth
<1>4. /\ "role" \in Asked(r) <=> op[r].role # None
      /\ "active" \in Asked(r) <=> op[r].active # None
      /\ Asked(r) \subseteq {"role", "active"}
  BY <1>1, ColumnAsked
<1>5. CASE pc'[r] = "refused"
  BY <1>5, TruthWhenDone
<1>6. CASE pc'[r] = "done" /\ target[r] = None
  <2>1. Clean(r)
    BY <1>6 DEF WriteUser, Goto, TypedState
  <2>2. Asked(r) \subseteq met[r]
    BY <1>3, <1>4, <2>1 DEF Clean
  <2> QED
    BY <1>2, <1>6, <2>2, TruthWhenDone
<1>7. CASE pc'[r] = "done" /\ target[r] # None
  <2>1. /\ role' = [role EXCEPT ![target[r]] = NewRole(r)] /\ active' = NewActive(r)
        /\ target[r] = op[r].user /\ target[r] \in Users /\ role[target[r]] # None
    BY <1>7 DEF WriteUser, Shape, Exists, TypedState
  <2>2. role'[op[r].user] = NewRole(r) /\ NewRole(r) # None
    BY <1>1, <2>1 DEF NewRole, TypedState
  <2>3. op[r].role # None => "role" \in met'[r]
    <3>1. CASE op[r].role = seen[r].role
      BY <1>2, <1>3, <3>1
    <3>2. CASE op[r].role # seen[r].role /\ op[r].role # None
      <4>1. Holds(r, "role")'
        BY <1>1, <2>2, <3>2 DEF Holds, Exists, NewRole
      <4> QED
        BY <1>1, <1>4, <1>7, <3>2, <4>1, Noticed
    <3> QED
      BY <3>1, <3>2
  <2>4. op[r].active # None => "active" \in met'[r]
    <3>1. CASE op[r].active = seen[r].active
      BY <1>2, <1>3, <3>1
    <3>2. CASE op[r].active # seen[r].active /\ op[r].active # None
      <4>1. op[r].user \in active' <=> op[r].active
        BY <1>1, <2>1, <3>2 DEF NewActive
      <4>2. Holds(r, "active")'
        BY <1>1, <2>2, <4>1 DEF Holds, Exists
      <4> QED
        BY <1>1, <1>4, <1>7, <3>2, <4>2, Noticed
    <3> QED
      BY <3>1, <3>2
  <2> QED
    BY <1>2, <1>4, <1>7, <2>3, <2>4, TruthWhenDone
<1> QED
  BY <1>1, <1>5, <1>6, <1>7

LEMMA TruthOfDelete ==
    ASSUME TypeOK, TypedState, Shape, NEW r \in Requests, Observe, Truth(r),
           Detach(r) \/ DeleteGone(r) \/ DeleteRefused(r) \/ DeleteUser(r)
    PROVE  Truth(r)'
<1>1. /\ op' = op /\ pc[r] \in {"loaded", "detached"} /\ op[r].kind = "delete"
      /\ op[r] \in Operations /\ op[r].user # None
  BY OperationFields DEF Detach, DeleteGone, DeleteRefused, DeleteUser, At, Shape
<1>2. met[r] \subseteq met'[r] /\ Asked(r)' = Asked(r)
  BY <1>1, Remembered DEF Asked
<1>3. target[r] # None \/ Asked(r) \subseteq met[r]
  BY <1>1 DEF Truth
<1>4. CASE Detach(r)
  <2>1. pc'[r] = "detached" /\ target' = target
    BY <1>4 DEF Detach, Goto, TypedState
  <2> QED
    BY <1>1, <1>2, <1>3, <2>1 DEF Truth
<1>5. CASE DeleteGone(r)
  <2>1. pc'[r] = "done" /\ target[r] = None
    BY <1>5 DEF DeleteGone, Goto, TypedState
  <2> QED
    BY <1>2, <1>3, <2>1, TruthWhenDone
<1>6. CASE DeleteRefused(r)
  BY <1>6, TruthWhenDone DEF DeleteRefused, Refuse, Goto, TypedState
<1>7. CASE DeleteUser(r)
  <2>1. /\ pc'[r] = "done" /\ target[r] = op[r].user
        /\ role' = [role EXCEPT ![target[r]] = None]
    BY <1>7 DEF DeleteUser, Goto, TypedState, Shape
  <2>2. role'[op[r].user] = None
    BY <1>7, <2>1 DEF DeleteUser, TypedState
  <2>3. \A x \in Asked(r) : Holds(r, x)'
    BY <1>1, <2>2 DEF Holds, Exists
  <2> QED
    BY <1>1, <1>2, <2>1, <2>3, Noticed, TruthWhenDone
<1> QED
  BY <1>4, <1>5, <1>6, <1>7

LEMMA TruthOfGrants ==
    ASSUME TypeOK, TypedState, Shape, NEW r \in Requests, Observe, Truth(r),
           CheckGrant(r) \/ CommitGrants(r) \/ Revoke(r) \/ LoadCode(r) \/ Toggle(r)
    PROVE  Truth(r)'
<1>1. /\ op' = op /\ pc[r] # "new" /\ op[r].kind \in {"grant", "revoke", "toggle"}
      /\ op[r] \in Operations /\ op[r].user # None
      /\ op[r].kind = "toggle" => op[r].active \in BOOLEAN
  BY OperationFields DEF CheckGrant, CommitGrants, Revoke, LoadCode, Toggle, At, Shape
<1>2. met[r] \subseteq met'[r] /\ Asked(r)' = Asked(r) /\ Asked(r) = op[r].codes
  BY <1>1, Remembered DEF Asked
<1>3. CASE CheckGrant(r)
  <2>1. PICK c \in left[r] :
            /\ todo' = IF HasGrant(target[r], c) THEN todo ELSE [todo EXCEPT ![r] = @ \cup {c}]
            /\ left' = [left EXCEPT ![r] = @ \ {c}]
    BY <1>3 DEF CheckGrant
  <2>2. /\ pc[r] = "loaded" /\ pc'[r] = "loaded" /\ grants' = grants /\ op[r].kind = "grant"
        /\ left'[r] = left[r] \ {c}
        /\ todo'[r] = IF HasGrant(target[r], c) THEN todo[r] ELSE todo[r] \cup {c}
    BY <1>3, <2>1 DEF CheckGrant, At, TypedState, database
  <2>3. ASSUME c \in op[r].codes, HasGrant(target[r], c) PROVE c \in met'[r]
    <3>1. target[r] # None
      BY <2>3, AccountsAssumption DEF HasGrant, TypedState
    <3>2. Holds(r, c)'
      BY <1>1, <2>2, <2>3, <3>1 DEF Holds, HasGrant, Shape
    <3> QED
      BY <1>1, <1>2, <2>2, <2>3, <3>2, Noticed
  <2>4. op[r].codes \ (todo'[r] \cup left'[r]) \subseteq met'[r]
    BY <1>2, <2>2, <2>3 DEF Truth
  <2> QED
    BY <1>1, <2>2, <2>4 DEF Truth
<1>4. CASE CommitGrants(r)
  <2>1. /\ op[r].kind = "grant" /\ pc'[r] \in {"done", "refused"}
        /\ op[r].codes \ todo[r] \subseteq met[r]
    BY <1>4 DEF CommitGrants, At, Refuse, Goto, TypedState, Truth
  <2>2. ASSUME pc'[r] = "done", NEW c \in todo[r], c \in op[r].codes PROVE c \in met'[r]
    <3>1. /\ target[r] = op[r].user
          /\ grants' = grants \cup {<<target[r], d, caller[r]>> : d \in todo[r]}
      BY <1>4, <2>2 DEF CommitGrants, Refuse, Goto, TypedState, Exists, Shape
    <3>2. <<op[r].user, c, caller[r]>> \in grants'
      BY <2>2, <3>1
    <3>3. Holds(r, c)'
      BY <1>1, <2>1, <3>2 DEF Holds, HasGrant
    <3> QED
      BY <1>1, <1>2, <2>2, <3>3, Noticed
  <2> QED
    BY <1>2, <2>1, <2>2, TruthWhenDone
<1>5. CASE Revoke(r)
  <2>1. /\ pc'[r] = "done" /\ op[r].kind = "revoke"
        /\ grants' = {g \in grants : ~(g[1] = target[r] /\ g[2] \in op[r].codes)}
    BY <1>5 DEF Revoke, At, Goto, TypedState
  <2>2. CASE target[r] = None
    BY <1>2, <1>5, <2>1, <2>2, TruthWhenDone DEF Revoke, At, Truth
  <2>3. CASE target[r] # None
    <3>1. target[r] = op[r].user
      BY <2>3 DEF Shape
    <3>2. ASSUME NEW c \in op[r].codes PROVE Holds(r, c)'
      BY <1>1, <2>1, <3>1 DEF Holds, HasGrant
    <3> QED
      BY <1>1, <1>2, <2>1, <3>2, Noticed, TruthWhenDone
  <2> QED
    BY <2>2, <2>3
<1>6. CASE LoadCode(r)
  <2>1. /\ pc'[r] = "loaded" /\ op[r].kind = "toggle" /\ usable' = usable
        /\ seen'[r].active = (op[r].codes \subseteq usable)
    BY <1>6 DEF LoadCode, At, Goto, TypedState, Row, database
  <2>2. PICK c \in Codes : op[r].codes = {c}
    BY <1>1, <2>1, OperationsAssumption
  <2>3. ASSUME op[r].active = seen'[r].active PROVE Holds(r, c)'
    <3>1. c \in usable' <=> op[r].active
      BY <2>1, <2>2, <2>3
    <3> QED
      BY <1>1, <2>1, <3>1 DEF Holds
  <2>4. ASSUME op[r].active = seen'[r].active PROVE op[r].codes \subseteq met'[r]
    BY <1>1, <1>2, <2>1, <2>2, <2>3, <2>4, Noticed
  <2> QED
    BY <1>1, <2>1, <2>4 DEF Truth
<1>7. CASE Toggle(r)
  <2>1. /\ pc[r] = "loaded" /\ pc'[r] = "done" /\ op[r].kind = "toggle"
        /\ op[r].active # seen[r].active =>
               usable' = IF op[r].active THEN usable \cup op[r].codes ELSE usable \ op[r].codes
    BY <1>7 DEF Toggle, At, Goto, TypedState
  <2>2. CASE op[r].active = seen[r].active
    BY <1>2, <2>1, <2>2, TruthWhenDone DEF Truth
  <2>3. CASE op[r].active # seen[r].active
    <3>1. ASSUME NEW c \in op[r].codes PROVE c \in usable' <=> op[r].active
      BY <1>1, <2>1, <2>3
    <3>2. ASSUME NEW c \in op[r].codes PROVE Holds(r, c)'
      BY <1>1, <2>1, <3>1 DEF Holds
    <3> QED
      BY <1>1, <1>2, <2>1, <3>2, Noticed, TruthWhenDone
  <2> QED
    BY <2>2, <2>3
<1> QED
  BY <1>3, <1>4, <1>5, <1>6, <1>7

LEMMA TruthOfOwn ==
    ASSUME TypeOK, TypedState, Shape, NEW r \in Requests, Step(r), Observe, Truth(r)
    PROVE  Truth(r)'
<1>1. CASE FindNone(r)
  BY <1>1, TruthWhenDone DEF FindNone, Goto, TypedState
<1> QED
  BY <1>1, TruthBegins, TruthOfJobs, TruthOfLoad, TruthOfInsert, TruthOfWrite, TruthOfDelete,
     TruthOfGrants DEF Step

LEMMA TruthKept ==
    ASSUME TypeOK, Shape, \A r \in Requests : Truth(r), [Next]_vars
    PROVE  (\A r \in Requests : Truth(r))'
<1>1. CASE UNCHANGED vars
  <2> SUFFICES ASSUME NEW q \in Requests PROVE Truth(q)'
    OBVIOUS
  <2>1. Truth(q) /\ Asked(q)' = Asked(q)
    BY <1>1 DEF vars, request, Asked
  <2> QED
    BY <1>1, <2>1 DEF vars, request, Truth
<1>2. CASE Next
  <2>1. PICK r \in Requests : Step(r) /\ Observe
    BY <1>2 DEF Next
  <2>2. TypedState
    BY DEF TypeOK, TypedState
  <2>3. Truth(r)'
    BY <2>1, <2>2, TruthOfOwn
  <2>4. \A q \in Requests \ {r} : Truth(q)'
    BY <2>1, <2>2, TruthOfOthers
  <2> QED
    BY <2>3, <2>4
<1> QED
  BY <1>1, <1>2

\* An answer without an error is true of some moment since the request began,
\* item by item: no route reports a column, a grant, a flag or a set of
\* authorized codes that never was there while it ran.
THEOREM AnswersAreTrue == Spec => []AnswersTrue
<1>1. Init => \A r \in Requests : Truth(r)
  BY TruthStarts
<1>2. TypeOK /\ Shape /\ (\A r \in Requests : Truth(r)) /\ [Next]_vars =>
          (\A r \in Requests : Truth(r))'
  BY TruthKept
<1>3. (\A r \in Requests : Truth(r)) => AnswersTrue
  BY DEF Truth, AnswersTrue
<1> QED
  BY <1>1, <1>2, <1>3, TypeStarts, TypeKept, PTL DEF Spec
=============================================================================
