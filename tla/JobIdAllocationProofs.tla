---------------------- MODULE JobIdAllocationProofs ----------------------
(***************************************************************************)
(* The safety properties of JobIdAllocation, for every finite set of       *)
(* requests, every number of attempts and every bound on the days.         *)
(*                                                                         *)
(* The inductive invariant says why the read-then-insert race is harmless: *)
(* the numbers of a day are 1..n, a proposal read earlier lies in 1..n+1,  *)
(* so either it is taken (a collision) or it is exactly n + 1; and each    *)
(* collision of a request loses to a different committed row, because it   *)
(* reads again in between.                                                 *)
(***************************************************************************)
EXTENDS JobIdAllocation, FiniteSetTheorems, TLAPS

Dense == \A d \in 1..MaxDay : \E n \in Nat : Sequences(d) = 1..n

\* A proposal is at most one above the day's numbers, however old the read is.
ProposalsFit ==
    \A r \in Requests : pc[r] = "insert" =>
        /\ attempt[r] < MaxAttempts
        /\ proposed[r] \notin lost[r]
        /\ \A n \in Nat : Sequences(proposed[r][1]) = 1..n => proposed[r][2] <= n + 1

OwnIds == \A r \in Requests : pc[r] \in {"insert", "created"} => proposed[r] \in Ids

\* Every collision lost to a row of its own.
LossesAreRows ==
    \A r \in Requests :
        /\ lost[r] \subseteq Table
        /\ IsFiniteSet(lost[r])
        /\ attempt[r] = Cardinality(lost[r])
        /\ pc[r] = "failed" => attempt[r] = MaxAttempts

IInv ==
    /\ TypeOK
    /\ UniqueJobIds
    /\ Dense
    /\ OwnIds
    /\ ProposalsFit
    /\ LossesAreRows

-----------------------------------------------------------------------------

\* The highest of 0 and the numbers 1..n is n (generate_job_id's max_seq).
LEMMA MaxOfPrefix == \A n \in Nat : Max({0} \cup 1..n) = n
<1> SUFFICES ASSUME NEW n \in Nat PROVE Max({0} \cup 1..n) = n
  OBVIOUS
<1>1. n \in {0} \cup 1..n
  OBVIOUS
<1>2. \A y \in {0} \cup 1..n : n >= y
  OBVIOUS
<1>3. \A x \in {0} \cup 1..n : (\A y \in {0} \cup 1..n : x >= y) => x = n
  BY <1>1
<1> QED
  BY <1>1, <1>2, <1>3 DEF Max

\* The number a request reads is the first free one of the day.
LEMMA NextIsFree ==
    ASSUME Dense, NEW d \in 1..MaxDay
    PROVE  /\ NextSequence(d) \in Nat \ {0}
           /\ \A n \in Nat : Sequences(d) = 1..n => NextSequence(d) = n + 1
           /\ <<d, NextSequence(d)>> \notin Table
<1>1. PICK n \in Nat : Sequences(d) = 1..n
  BY DEF Dense
<1>2. NextSequence(d) = n + 1
  BY <1>1, MaxOfPrefix DEF NextSequence
<1>3. n + 1 \notin Sequences(d)
  BY <1>1
<1>4. <<d, NextSequence(d)>> \notin Table
  BY <1>2, <1>3 DEF Sequences
<1>5. \A m \in Nat : 1..m = 1..n => m = n
  <2> SUFFICES ASSUME NEW m \in Nat, 1..m = 1..n PROVE m = n
    OBVIOUS
  <2>1. m \in 1..m \/ m = 0
    OBVIOUS
  <2>2. n \in 1..n \/ n = 0
    OBVIOUS
  <2> QED
    BY <2>1, <2>2
<1> QED
  BY <1>1, <1>2, <1>4, <1>5

\* The initial segments of the numbers determine their length.
LEMMA PrefixLength ==
    ASSUME NEW m \in Nat, NEW n \in Nat, 1..m = 1..n
    PROVE  m = n
<1>1. m \in 1..m \/ m = 0
  OBVIOUS
<1>2. n \in 1..n \/ n = 0
  OBVIOUS
<1> QED
  BY <1>1, <1>2

LEMMA ExtendPrefix ==
    ASSUME NEW n \in Nat
    PROVE  (1..n) \cup {n + 1} = 1..(n + 1)
OBVIOUS

\* A step that lets no request through leaves the rows alone.
LEMMA SameTable ==
    ASSUME Created' = Created, \A r \in Created : proposed'[r] = proposed[r]
    PROVE  Table' = Table /\ \A d : Sequences(d)' = Sequences(d)
<1>1. Table' = Table
  BY DEF Table
<1> QED
  BY <1>1 DEF Sequences

\* An insert adds one row: the next number of its day.
LEMMA InsertAddsNext ==
    ASSUME IInv, NEW r \in Requests, Insert(r)
    PROVE  /\ Created' = Created \cup {r}
           /\ Table' = Table \cup {proposed[r]}
           /\ proposed[r] \in Ids
           /\ \A n \in Nat : Sequences(proposed[r][1]) = 1..n => proposed[r][2] = n + 1
           /\ \A d \in 1..MaxDay : Sequences(d)' =
                IF d = proposed[r][1] THEN Sequences(d) \cup {proposed[r][2]}
                                      ELSE Sequences(d)
<1>1. Created' = Created \cup {r}
  BY DEF IInv, TypeOK, Insert, Created
<1>2. Table' = Table \cup {proposed[r]}
  BY <1>1 DEF Insert, Table
<1>3. proposed[r] \in Ids
  BY DEF IInv, OwnIds, Insert
<1>4. ASSUME NEW n \in Nat, Sequences(proposed[r][1]) = 1..n
      PROVE  proposed[r][2] = n + 1
  <2>1. proposed[r][2] <= n + 1
    BY <1>4 DEF IInv, ProposalsFit, Insert
  <2>2. proposed[r] = <<proposed[r][1], proposed[r][2]>> /\ proposed[r][2] \in Nat \ {0}
    BY <1>3 DEF Ids
  <2>3. proposed[r][2] \notin Sequences(proposed[r][1])
    <3> SUFFICES ASSUME NEW i \in Table, i[1] = proposed[r][1], i[2] = proposed[r][2]
                 PROVE FALSE
      BY DEF Sequences
    <3>1. i \in Ids
      BY DEF Table, Created, IInv, OwnIds
    <3>2. i = <<i[1], i[2]>>
      BY <3>1 DEF Ids
    <3>3. i = proposed[r]
      BY <2>2, <3>2
    <3> QED
      BY <3>3 DEF Insert
  <2> QED
    BY <1>4, <2>1, <2>2, <2>3
<1>5. ASSUME NEW d \in 1..MaxDay
      PROVE  Sequences(d)' = IF d = proposed[r][1] THEN Sequences(d) \cup {proposed[r][2]}
                                                   ELSE Sequences(d)
  BY <1>2 DEF Sequences
<1> QED
  BY <1>1, <1>2, <1>3, <1>4, <1>5

-----------------------------------------------------------------------------

LEMMA InitInvariant == Init => IInv
<1> SUFFICES ASSUME Init PROVE IInv
  OBVIOUS
<1> USE RequestsAssumption, AttemptsAssumption, DayAssumption
<1>1. Created = {} /\ Table = {}
  BY DEF Init, Created, Table
<1>2. TypeOK
  BY DEF Init, TypeOK, Ids, NoId
<1>3. UniqueJobIds
  BY <1>1 DEF UniqueJobIds
<1>4. Dense
  <2>1. \A d \in 1..MaxDay : Sequences(d) = 1..0
    BY <1>1 DEF Sequences
  <2> QED
    BY <2>1 DEF Dense
<1>5. OwnIds /\ ProposalsFit
  BY DEF Init, OwnIds, ProposalsFit
<1>6. LossesAreRows
  BY FS_EmptySet DEF Init, LossesAreRows
<1> QED
  BY <1>2, <1>3, <1>4, <1>5, <1>6 DEF IInv

\* Reading the day's IDs.
LEMMA GenerateInvariant == ASSUME IInv, NEW r \in Requests, Generate(r) PROVE IInv'
<1> USE AttemptsAssumption, DayAssumption
<1>1. Created' = Created /\ \A q \in Created : proposed'[q] = proposed[q]
  BY DEF IInv, TypeOK, Generate, Created
<1>2. Table' = Table /\ \A d : Sequences(d)' = Sequences(d)
  BY <1>1, SameTable
<1>3. /\ NextSequence(day) \in Nat \ {0}
      /\ \A n \in Nat : Sequences(day) = 1..n => NextSequence(day) = n + 1
      /\ <<day, NextSequence(day)>> \notin Table
  BY NextIsFree DEF IInv, TypeOK
<1>4. <<day, NextSequence(day)>> \in Ids
  BY <1>3 DEF Ids, IInv, TypeOK
<1>5. TypeOK'
  BY <1>4 DEF IInv, TypeOK, Generate
<1>6. UniqueJobIds'
  BY <1>1 DEF IInv, UniqueJobIds
<1>7. Dense'
  BY <1>2 DEF IInv, Dense
<1>8. OwnIds'
  BY <1>4 DEF IInv, OwnIds, TypeOK, Generate
<1>9. ProposalsFit'
  <2> SUFFICES ASSUME NEW q \in Requests, pc'[q] = "insert"
               PROVE  /\ attempt'[q] < MaxAttempts
                      /\ proposed'[q] \notin lost'[q]
                      /\ \A n \in Nat : Sequences(proposed[q][1])' = 1..n
                                            => proposed'[q][2] <= n + 1
    BY DEF ProposalsFit
  <2>1. CASE q = r
    <3>1. proposed'[r] = <<day, NextSequence(day)>> /\ lost'[r] = lost[r] /\ attempt'[r] = attempt[r]
      BY DEF IInv, TypeOK, Generate
    <3>2. proposed'[r] \notin lost[r]
      BY <1>3, <3>1 DEF IInv, LossesAreRows
    <3> QED
      BY <1>2, <1>3, <2>1, <3>1, <3>2 DEF Generate, Sequences
  <2>2. CASE q # r
    <3>1. proposed'[q] = proposed[q] /\ lost'[q] = lost[q] /\ attempt'[q] = attempt[q] /\ pc[q] = "insert"
      BY <2>2 DEF IInv, TypeOK, Generate
    <3> QED
      BY <1>2, <3>1 DEF IInv, ProposalsFit, Sequences
  <2> QED
    BY <2>1, <2>2
<1>10. LossesAreRows'
  BY <1>2 DEF IInv, LossesAreRows, TypeOK, Generate
<1> QED
  BY <1>5, <1>6, <1>7, <1>8, <1>9, <1>10 DEF IInv

\* The insert that gets through.
LEMMA InsertInvariant == ASSUME IInv, NEW r \in Requests, Insert(r) PROVE IInv'
<1> USE AttemptsAssumption, DayAssumption
<1>1. /\ Created' = Created \cup {r}
      /\ Table' = Table \cup {proposed[r]}
      /\ proposed[r] \in Ids
      /\ \A n \in Nat : Sequences(proposed[r][1]) = 1..n => proposed[r][2] = n + 1
      /\ \A d \in 1..MaxDay : Sequences(d)' =
           IF d = proposed[r][1] THEN Sequences(d) \cup {proposed[r][2]}
                                 ELSE Sequences(d)
  BY InsertAddsNext
<1>2. TypeOK'
  BY DEF IInv, TypeOK, Insert
<1>3. UniqueJobIds'
  <2>1. \A q \in Created : proposed[q] # proposed[r]
    BY DEF Insert, Table
  <2> QED
    BY <1>1, <2>1 DEF IInv, UniqueJobIds, Insert
<1>4. Dense'
  <2> SUFFICES ASSUME NEW d \in 1..MaxDay PROVE \E n \in Nat : Sequences(d)' = 1..n
    BY DEF Dense
  <2>1. PICK n \in Nat : Sequences(d) = 1..n
    BY DEF IInv, Dense
  <2>2. CASE d = proposed[r][1]
    <3>1. Sequences(d)' = (1..n) \cup {n + 1}
      BY <1>1, <2>1, <2>2
    <3>2. Sequences(d)' = 1..(n + 1)
      BY <3>1, ExtendPrefix
    <3> QED
      BY <3>2
  <2>3. CASE d # proposed[r][1]
    BY <1>1, <2>1, <2>3
  <2> QED
    BY <2>2, <2>3
<1>5. OwnIds'
  BY DEF IInv, OwnIds, TypeOK, Insert
<1>6. ProposalsFit'
  <2> SUFFICES ASSUME NEW q \in Requests, pc'[q] = "insert",
                      NEW n \in Nat, Sequences(proposed[q][1])' = 1..n
               PROVE  /\ attempt'[q] < MaxAttempts
                      /\ proposed'[q] \notin lost'[q]
                      /\ proposed'[q][2] <= n + 1
    <3>1. \A q \in Requests : pc'[q] = "insert" =>
            attempt[q] < MaxAttempts /\ proposed[q] \notin lost[q]
      BY DEF IInv, ProposalsFit, TypeOK, Insert
    <3> QED
      BY <3>1 DEF ProposalsFit, Insert
  <2>1. q # r /\ pc[q] = "insert"
    BY DEF IInv, TypeOK, Insert
  <2>2. proposed[q] \in Ids
    BY <2>1 DEF IInv, OwnIds
  <2>3. PICK m \in Nat : Sequences(proposed[q][1]) = 1..m
    BY <2>2 DEF IInv, Dense, Ids
  <2>4. proposed[q][2] <= m + 1 /\ proposed[q][2] \in Nat
    BY <2>1, <2>2, <2>3 DEF IInv, ProposalsFit, Ids
  <2>5. n = m \/ n = m + 1
    <3>1. CASE proposed[q][1] = proposed[r][1]
      <4>1. proposed[q][1] \in 1..MaxDay
        BY <2>2 DEF Ids
      <4>2. proposed[r][2] = m + 1
        BY <1>1, <2>3, <3>1
      <4>3. Sequences(proposed[q][1])' = Sequences(proposed[q][1]) \cup {m + 1}
        BY <1>1, <3>1, <4>1, <4>2 DEF Insert
      <4>4. 1..n = (1..m) \cup {m + 1}
        BY <2>3, <4>3
      <4>5. 1..n = 1..(m + 1)
        BY <4>4, ExtendPrefix
      <4> QED
        BY <4>5, PrefixLength
    <3>2. CASE proposed[q][1] # proposed[r][1]
      <4>1. 1..n = 1..m
        BY <1>1, <2>2, <2>3, <3>2 DEF Ids, Insert
      <4> QED
        BY <4>1, PrefixLength
    <3> QED
      BY <3>1, <3>2
  <2> QED
    BY <2>1, <2>4, <2>5 DEF IInv, ProposalsFit, Insert
<1>7. LossesAreRows'
  BY <1>1 DEF IInv, LossesAreRows, TypeOK, Insert
<1> QED
  BY <1>2, <1>3, <1>4, <1>5, <1>6, <1>7 DEF IInv

\* The insert that hits the unique constraint.
LEMMA CollideInvariant == ASSUME IInv, NEW r \in Requests, Collide(r) PROVE IInv'
<1> USE AttemptsAssumption, DayAssumption
<1>1. Created' = Created /\ \A q \in Created : proposed'[q] = proposed[q]
  BY DEF IInv, TypeOK, Collide, Created
<1>2. Table' = Table /\ \A d : Sequences(d)' = Sequences(d)
  BY <1>1, SameTable
<1>3. attempt[r] < MaxAttempts /\ proposed[r] \notin lost[r] /\ proposed[r] \in Ids
  BY DEF IInv, ProposalsFit, OwnIds, Collide
<1>4. TypeOK'
  BY <1>3 DEF IInv, TypeOK, Collide
<1>5. UniqueJobIds' /\ Dense'
  BY <1>1, <1>2 DEF IInv, UniqueJobIds, Dense, Collide
<1>6. OwnIds'
  BY DEF IInv, OwnIds, TypeOK, Collide
<1>7. ProposalsFit'
  BY <1>2 DEF IInv, ProposalsFit, TypeOK, Collide, Sequences
<1>8. LossesAreRows'
  <2> SUFFICES ASSUME NEW q \in Requests
               PROVE  /\ lost'[q] \subseteq Table'
                      /\ IsFiniteSet(lost'[q])
                      /\ attempt'[q] = Cardinality(lost'[q])
                      /\ pc'[q] = "failed" => attempt'[q] = MaxAttempts
    BY DEF LossesAreRows
  <2>1. CASE q = r
    <3>1. lost'[r] = lost[r] \cup {proposed[r]} /\ attempt'[r] = attempt[r] + 1 /\ pc'[r] = "generate"
      BY DEF IInv, TypeOK, Collide
    <3>2. IsFiniteSet(lost'[r]) /\ Cardinality(lost'[r]) = Cardinality(lost[r]) + 1
      <4>1. IsFiniteSet(lost[r])
        BY DEF IInv, LossesAreRows
      <4>2. /\ IsFiniteSet(lost[r] \cup {proposed[r]})
            /\ Cardinality(lost[r] \cup {proposed[r]}) = Cardinality(lost[r]) + 1
        BY <1>3, <4>1, FS_AddElement
      <4> QED
        BY <3>1, <4>2
    <3> QED
      BY <1>2, <2>1, <3>1, <3>2 DEF IInv, LossesAreRows, Collide
  <2>2. CASE q # r
    BY <1>2, <2>2 DEF IInv, LossesAreRows, TypeOK, Collide
  <2> QED
    BY <2>1, <2>2
<1> QED
  BY <1>4, <1>5, <1>6, <1>7, <1>8 DEF IInv

\* The loop runs out of attempts.
LEMMA GiveUpInvariant == ASSUME IInv, NEW r \in Requests, GiveUp(r) PROVE IInv'
<1>1. Created' = Created /\ \A q \in Created : proposed'[q] = proposed[q]
  BY DEF IInv, TypeOK, GiveUp, Created
<1>2. Table' = Table /\ \A d : Sequences(d)' = Sequences(d)
  BY <1>1, SameTable
<1>3. TypeOK'
  BY DEF IInv, TypeOK, GiveUp
<1>4. UniqueJobIds' /\ Dense'
  BY <1>1, <1>2 DEF IInv, UniqueJobIds, Dense, GiveUp
<1>5. OwnIds' /\ ProposalsFit'
  BY <1>2 DEF IInv, OwnIds, ProposalsFit, TypeOK, GiveUp, Sequences
<1>6. LossesAreRows'
  BY <1>2 DEF IInv, LossesAreRows, TypeOK, GiveUp
<1> QED
  BY <1>3, <1>4, <1>5, <1>6 DEF IInv

\* The day passes, or nothing of this module changes.
LEMMA ClockInvariant == ASSUME IInv, Midnight \/ UNCHANGED vars PROVE IInv'
<1>1. Created' = Created /\ \A q \in Created : proposed'[q] = proposed[q]
  BY DEF Midnight, vars, Created
<1>2. Table' = Table /\ \A d : Sequences(d)' = Sequences(d)
  BY <1>1, SameTable
<1>3. TypeOK'
  BY DayAssumption DEF IInv, TypeOK, Midnight, vars
<1>4. UniqueJobIds' /\ Dense'
  BY <1>1, <1>2 DEF IInv, UniqueJobIds, Dense
<1>5. OwnIds' /\ ProposalsFit' /\ LossesAreRows'
  BY <1>2 DEF IInv, OwnIds, ProposalsFit, LossesAreRows, Midnight, vars, Sequences
<1> QED
  BY <1>3, <1>4, <1>5 DEF IInv

\* The invariant holds in every reachable state.
THEOREM Invariance == Spec => []IInv
<1>1. IInv /\ [Next]_vars => IInv'
  BY GenerateInvariant, InsertInvariant, CollideInvariant, GiveUpInvariant, ClockInvariant
     DEF Next, CreateJob
<1> QED
  BY <1>1, InitInvariant, PTL DEF Spec

-----------------------------------------------------------------------------

\* Every value the model can reach is of the kind the code keeps there.
THEOREM TypeCorrect == Spec => []TypeOK
BY Invariance, PTL DEF IInv

\* Two jobs never share a Job ID, for any number of requests and attempts.
THEOREM JobIdsAreUnique == Spec => []UniqueJobIds
BY Invariance, PTL DEF IInv

\* The rows are no more than the requests that committed them.
LEMMA RowsCounted ==
    IsFiniteSet(Created) /\ IsFiniteSet(Table) /\ Cardinality(Table) <= Cardinality(Created)
<1>1. IsFiniteSet(Created)
  BY RequestsAssumption, FS_Subset DEF Created
<1>2. [r \in Created |-> proposed[r]] \in Surjection(Created, Table)
  BY DEF Surjection, Table
<1> QED
  BY <1>1, <1>2, FS_Surjection

\* A request that has used up its attempts lost to as many committed jobs.
LEMMA LossesCounted ==
    ASSUME IInv, NEW r \in Requests, attempt[r] = MaxAttempts
    PROVE  Cardinality(Created) >= MaxAttempts
<1>1. Cardinality(lost[r]) = MaxAttempts /\ lost[r] \in SUBSET Table
  BY DEF IInv, LossesAreRows
<1>2. Cardinality(lost[r]) <= Cardinality(Table)
  BY <1>1, RowsCounted, FS_Subset
<1>3. Cardinality(Table) \in Nat /\ Cardinality(Created) \in Nat
  BY RowsCounted, FS_CardinalityType
<1> QED
  BY <1>1, <1>2, <1>3, RowsCounted, AttemptsAssumption

\* create_job gives up only after MaxAttempts other requests got their row
\* while it was trying: its collisions are with that many different rows.
THEOREM FailuresNeedContention == Spec => []FailureNeedsContention
<1>1. IInv => FailureNeedsContention
  BY LossesCounted DEF FailureNeedsContention, IInv, LossesAreRows
<1> QED
  BY <1>1, Invariance, PTL

\* Once every request has its answer, MaxAttempts of them have a job, or all.
AnsweredMeansServed ==
    (\A r \in Requests : pc[r] \in {"created", "failed"}) =>
        Cardinality(Created) >= MaxAttempts \/ Created = Requests

\* The safety half of ContendersAreCreated: create_job cannot turn everybody
\* away.  That every request gets its answer is a matter of fairness.
THEOREM SomeAreAlwaysServed == Spec => []AnsweredMeansServed
<1>1. IInv => AnsweredMeansServed
  <2> SUFFICES ASSUME IInv,
                      \A r \in Requests : pc[r] \in {"created", "failed"}
               PROVE  Cardinality(Created) >= MaxAttempts \/ Created = Requests
    BY DEF AnsweredMeansServed
  <2>1. ASSUME NEW r \in Requests, pc[r] = "failed"
        PROVE  Cardinality(Created) >= MaxAttempts
    <3>1. attempt[r] = MaxAttempts
      BY <2>1 DEF IInv, LossesAreRows
    <3> QED
      BY <3>1, LossesCounted
  <2>2. CASE ~ \E r \in Requests : pc[r] = "failed"
    BY <2>2 DEF Created
  <2> QED
    BY <2>1, <2>2
<1> QED
  BY <1>1, Invariance, PTL

\* The numbers of every day are 1..n, with n at most the number of requests.
THEOREM DaysAreGapless == Spec => []GaplessDays
<1>1. IInv => GaplessDays
  <2> SUFFICES ASSUME IInv, NEW d \in 1..MaxDay
               PROVE  \E n \in 0..Cardinality(Requests) : Sequences(d) = 1..n
    BY DEF GaplessDays
  <2>1. PICK n \in Nat : Sequences(d) = 1..n
    BY DEF IInv, Dense
  <2> DEFINE OfDay == {i \in Table : i[1] = d}
  <2>2. IsFiniteSet(OfDay) /\ Cardinality(OfDay) <= Cardinality(Table)
    BY RowsCounted, FS_Subset
  <2>3. [i \in OfDay |-> i[2]] \in Surjection(OfDay, 1..n)
    <3>1. Sequences(d) = {i[2] : i \in OfDay}
      BY DEF Sequences
    <3> QED
      BY <2>1, <3>1 DEF Surjection
  <2>4. Cardinality(1..n) <= Cardinality(OfDay)
    BY <2>2, <2>3, FS_Surjection
  <2>5. Cardinality(1..n) = n
    BY FS_Interval
  <2>6. Cardinality(Created) <= Cardinality(Requests)
    BY RequestsAssumption, FS_Subset DEF Created
  <2>7. /\ Cardinality(OfDay) \in Nat /\ Cardinality(Table) \in Nat
        /\ Cardinality(Created) \in Nat /\ Cardinality(Requests) \in Nat
    BY <2>2, RowsCounted, RequestsAssumption, FS_CardinalityType
  <2>8. n \in 0..Cardinality(Requests)
    <3> HIDE DEF OfDay
    <3> QED
      BY <2>2, <2>4, <2>5, <2>6, <2>7, RowsCounted
  <2> QED
    BY <2>1, <2>8
<1> QED
  BY <1>1, Invariance, PTL

\* The numbers of a day follow the order of the commits.
THEOREM NumbersAreOrdered == Spec => NumbersFollowCommits
<1> DEFINE Ordered == \A r \in Created' \ Created : \A n \in Sequences(proposed[r][1]) :
                          proposed[r][2] > n
<1>1. IInv /\ [Next]_vars => [Ordered]_vars
  <2> SUFFICES ASSUME IInv, Next PROVE Ordered
    BY DEF vars
  <2> SUFFICES ASSUME NEW r \in Created' \ Created, NEW n \in Sequences(proposed[r][1])
               PROVE  proposed[r][2] > n
    OBVIOUS
  <2>1. r \in Requests /\ pc'[r] = "created" /\ pc[r] # "created"
    BY DEF Created
  <2>2. Insert(r)
    BY <2>1 DEF Next, Midnight, CreateJob, Generate, Insert, Collide, GiveUp, IInv, TypeOK
  <2>3. proposed[r] \in Ids /\ \A m \in Nat : Sequences(proposed[r][1]) = 1..m => proposed[r][2] = m + 1
    BY <2>1, <2>2, InsertAddsNext
  <2>4. PICK m \in Nat : Sequences(proposed[r][1]) = 1..m
    BY <2>3 DEF IInv, Dense, Ids
  <2> QED
    BY <2>3, <2>4
<1> QED
  BY <1>1, Invariance, PTL DEF Spec, NumbersFollowCommits

-----------------------------------------------------------------------------
(* The loop implements the counter: Insert is Allocate, GiveUp is Refuse,   *)
(* Midnight is Tomorrow, and the reads and collisions change nothing that   *)
(* the counter has.                                                         *)

\* An ID that is about to be inserted is of today or of a day before.
NoFutureDay == \A r \in Requests : pc[r] = "insert" => proposed[r][1] <= day

LEMMA NoFutureDayInvariant == Spec => []NoFutureDay
<1>1. Init => NoFutureDay
  BY DEF Init, NoFutureDay
<1>2. TypeOK /\ NoFutureDay /\ [Next]_vars => NoFutureDay'
  <2> SUFFICES ASSUME TypeOK, NoFutureDay, [Next]_vars PROVE NoFutureDay'
    OBVIOUS
  <2>1. CASE Midnight
    BY <2>1 DEF Midnight, NoFutureDay, TypeOK, Ids, NoId
  <2>2. ASSUME NEW r \in Requests, Generate(r) PROVE NoFutureDay'
    BY <2>2 DEF Generate, NoFutureDay, TypeOK
  <2>3. ASSUME NEW r \in Requests, Insert(r) \/ Collide(r) \/ GiveUp(r) PROVE NoFutureDay'
    BY <2>3 DEF Insert, Collide, GiveUp, NoFutureDay, TypeOK
  <2>4. CASE UNCHANGED vars
    BY <2>4 DEF vars, NoFutureDay
  <2> QED
    BY <2>1, <2>2, <2>3, <2>4 DEF Next, CreateJob
<1> QED
  BY <1>1, <1>2, TypeCorrect, PTL DEF Spec

\* The counter as the rows show it.
Given == [d \in 1..MaxDay |-> Max({0} \cup Sequences(d))]
JobId == [r \in Requests |-> IF pc[r] = "created" THEN proposed[r] ELSE NoId]
Failed == {r \in Requests : pc[r] = "failed"}

LEMMA ServedIsCreated == ASSUME IInv PROVE Counter!Served = Created
  BY DEF Counter!Served, Created, IInv, OwnIds, Ids, NoId

\* Without a new row the counter stands still.
LEMMA SameCounter ==
    ASSUME Created' = Created, \A r \in Created : proposed'[r] = proposed[r]
    PROVE  Given' = Given /\ JobId' = JobId
<1>1. \A d \in 1..MaxDay : Sequences(d)' = Sequences(d)
  BY SameTable
<1>2. \A r \in Requests : pc'[r] = "created" <=> pc[r] = "created"
  BY DEF Created
<1>3. \A r \in Requests : pc[r] = "created" => proposed'[r] = proposed[r]
  BY DEF Created
<1> QED
  BY <1>1, <1>2, <1>3 DEF Given, JobId

LEMMA InsertAllocates ==
    ASSUME IInv, NoFutureDay, NEW r \in Requests, Insert(r)
    PROVE  \E d \in 1..day : Counter!Allocate(r, d)
<1>1. PICK d \in 1..MaxDay, k \in Nat : proposed[r] = <<d, k>>
  BY InsertAddsNext DEF Ids
<1>2. /\ Created' = Created \cup {r}
      /\ \A n \in Nat : Sequences(d) = 1..n => k = n + 1
      /\ \A e \in 1..MaxDay : Sequences(e)' =
             IF e = d THEN Sequences(e) \cup {k} ELSE Sequences(e)
  BY <1>1, InsertAddsNext
<1>3. d \in 1..day
  BY <1>1, DayAssumption DEF Insert, NoFutureDay, IInv, TypeOK
<1>4. PICK n \in Nat : Sequences(d) = 1..n
  BY <1>1 DEF IInv, Dense
<1>5. k = n + 1 /\ Sequences(d)' = 1..(n + 1)
  BY <1>1, <1>2, <1>4, ExtendPrefix
<1>6. Max({0} \cup Sequences(d)) = n /\ Max({0} \cup Sequences(d)') = n + 1
  BY <1>4, <1>5, MaxOfPrefix
<1>7. Given' = [Given EXCEPT ![d] = @ + 1] /\ Given'[d] = n + 1
  <2>1. Given' = [e \in 1..MaxDay |-> Max({0} \cup Sequences(e)')]
    BY DEF Given
  <2>2. \A e \in 1..MaxDay : e # d => Max({0} \cup Sequences(e)') = Max({0} \cup Sequences(e))
    BY <1>2
  <2> QED
    BY <1>1, <1>6, <2>1, <2>2 DEF Given
<1>8. JobId' = [JobId EXCEPT ![r] = <<d, Given'[d]>>]
  <2>1. \A q \in Requests : pc'[q] = IF q = r THEN "created" ELSE pc[q]
    BY DEF Insert, IInv, TypeOK
  <2>2. proposed' = proposed
    BY DEF Insert
  <2> QED
    BY <1>1, <1>5, <1>7, <2>1, <2>2 DEF JobId
<1>9. r \notin Created \cup Failed /\ Failed' = Failed /\ day' = day
  BY DEF Insert, Created, Failed, IInv, TypeOK
<1>10. Counter!Allocate(r, d)
  BY <1>7, <1>8, <1>9, ServedIsCreated DEF Counter!Allocate, Counter!Waits, Given, JobId, Failed
<1> QED
  BY <1>3, <1>10

LEMMA GiveUpRefuses ==
    ASSUME IInv, NEW r \in Requests, GiveUp(r)
    PROVE  Counter!Refuse(r)
<1>1. Created' = Created /\ proposed' = proposed /\ day' = day
  BY DEF GiveUp, Created, IInv, TypeOK
<1>2. Given' = Given /\ JobId' = JobId
  BY <1>1, SameCounter
<1>3. r \notin Created \cup Failed /\ Failed' = Failed \cup {r}
  BY DEF GiveUp, Created, Failed, IInv, TypeOK
<1>4. Cardinality(Created) >= MaxAttempts
  BY LossesCounted DEF GiveUp
<1> QED
  BY <1>1, <1>2, <1>3, <1>4, ServedIsCreated
     DEF Counter!Refuse, Counter!Waits, Counter!Cardinality, Cardinality, Given, JobId, Failed

\* Concurrent requests that read, insert and retry are as good as one atomic
\* counter per day, which refuses only under contention.
THEOREM AllocationImplementsCounter == Spec => CounterSpec
<1>1. Init => Counter!Init
  <2> SUFFICES ASSUME Init PROVE Counter!Init
    OBVIOUS
  <2>1. Created = {} /\ Table = {} /\ Failed = {}
    BY DEF Init, Created, Table, Failed
  <2>2. \A d \in 1..MaxDay : {0} \cup Sequences(d) = {0} \cup 1..0
    BY <2>1 DEF Sequences
  <2>3. Given = [d \in 1..MaxDay |-> 0]
    BY <2>2, MaxOfPrefix DEF Given
  <2>4. JobId = [r \in Requests |-> NoId]
    BY DEF Init, JobId
  <2> QED
    BY <2>1, <2>3, <2>4 DEF Init, Counter!Init, Given, JobId, Failed
<1>2. IInv /\ NoFutureDay /\ [Next]_vars => [Counter!Next]_(Counter!vars)
  <2> SUFFICES ASSUME IInv, NoFutureDay, [Next]_vars
               PROVE  [Counter!Next]_(Counter!vars)
    OBVIOUS
  <2>1. ASSUME NEW r \in Requests, Insert(r) PROVE Counter!Next
    BY <2>1, InsertAllocates DEF Counter!Next
  <2>2. ASSUME NEW r \in Requests, GiveUp(r) PROVE Counter!Next
    BY <2>2, GiveUpRefuses DEF Counter!Next
  <2>3. ASSUME NEW r \in Requests, Generate(r) \/ Collide(r)
        PROVE  UNCHANGED Counter!vars
    <3>1. /\ Created' = Created /\ Failed' = Failed /\ day' = day
          /\ \A q \in Created : proposed'[q] = proposed[q]
      BY <2>3 DEF Generate, Collide, Created, Failed, IInv, TypeOK
    <3> QED
      BY <3>1, SameCounter DEF Counter!vars, Given, JobId, Failed
  <2>4. CASE Midnight \/ UNCHANGED vars
    <3>1. /\ Created' = Created /\ Failed' = Failed
          /\ \A q \in Created : proposed'[q] = proposed[q]
      BY <2>4 DEF Midnight, vars, Created, Failed
    <3>2. Given' = Given /\ JobId' = JobId
      BY <3>1, SameCounter
    <3>3. CASE Midnight
      <4>1. Counter!Tomorrow
        BY <3>1, <3>2, <3>3 DEF Midnight, Counter!Tomorrow, Given, JobId, Failed
      <4> QED
        BY <4>1 DEF Counter!Next
    <3>4. CASE UNCHANGED vars
      BY <3>1, <3>2, <3>4 DEF vars, Counter!vars, Given, JobId, Failed
    <3> QED
      BY <2>4, <3>3, <3>4
  <2> QED
    BY <2>1, <2>2, <2>3, <2>4 DEF Next, CreateJob
<1> QED
  BY <1>1, <1>2, Invariance, NoFutureDayInvariant, PTL DEF Spec, CounterSpec, Counter!Spec
=============================================================================
