--------------------------- MODULE LiveLogProofs ---------------------------
(***************************************************************************)
(* Theorems about LiveLog, for every number of lines, writers and loops and *)
(* every limit.                                                            *)
(*                                                                         *)
(* A line that is in order was the newest when it appeared, so it is        *)
(* beyond every cursor, which are ids of lines (Fresh, Anchored).  A loop   *)
(* that has asked relies on the console having all of these up to the      *)
(* cursor it sent (Covered), and an answer has no gaps between that cursor *)
(* and its own last line (Seamless): then the last line is a safe cursor,  *)
(* whatever other loops did to it meanwhile.                               *)
(***************************************************************************)
EXTENDS LiveLog, FiniteSetTheorems, WellFoundedInduction, TLAPS

\* Every id that was handed out is below the next one.
Ids == next > 0 /\ \A x \in Writers : writing[x] < next

\* A line that is open is nobody else's, and not in the log yet.
Fresh ==
    /\ \A id \in log : id < next
    /\ \A x \in Writers : writing[x] # 0 =>
           writing[x] \notin log /\ \A y \in Writers : writing[y] = writing[x] => y = x

\* Cursors are lines, or 0.
Anchored ==
    /\ cursor \in log \cup {0}
    /\ \A p \in Pullers : after[p] \in log \cup {0}

Waiting(p) == pc[p] \in {"asked", "answered"}

\* What a loop asked with is covered by the console.
Covered ==
    \A p \in Pullers : Waiting(p) => \A id \in InOrder : id <= after[p] => id \in Shown

\* An answer holds every such line from the cursor it was asked with to its last.
Seamless ==
    \A p \in Pullers : pc[p] = "answered" =>
        /\ answer[p] \subseteq log
        /\ \A k \in answer[p], id \in InOrder : after[p] < id /\ id <= k => id \in answer[p]

-----------------------------------------------------------------------------

LEMMA PullerNames == Page \in Pullers /\ Loops \subseteq Pullers
  BY DEF Pullers

LEMMA Bounds == Limit \in Nat /\ MaxLines \in Nat /\ MaxRounds \in Nat
<1>1. Limit \in {Limit, MaxLines, MaxRounds} /\ MaxLines \in {Limit, MaxLines, MaxRounds}
      /\ MaxRounds \in {Limit, MaxLines, MaxRounds}
  OBVIOUS
<1> QED
  BY <1>1, BoundsAssumption

LEMMA LogIds ==
  ASSUME TypeOK
  PROVE  InOrder \subseteq log /\ log \subseteq Nat /\ \A id \in log : 0 < id /\ id <= next
<1>1. next \in Nat /\ log \subseteq 1..next
  BY DEF TypeOK
<1> QED
  BY <1>1 DEF InOrder

\* The log is finite: its ids are.
LEMMA LogIsFinite == ASSUME TypeOK PROVE IsFiniteSet(log)
<1>1. IsFiniteSet(1..next)
  BY FS_Interval DEF TypeOK
<1> QED
  BY <1>1, FS_Subset DEF TypeOK

\* An answer appended to the console is shown, and what was shown stays.
LEMMA AppendShows ==
  ASSUME TypeOK, NEW lines \in SUBSET Nat, shown' = Append(shown, lines)
  PROVE  Shown' = Shown \cup lines
<1>1. /\ shown \in Seq(SUBSET Nat)
      /\ DOMAIN shown' = 1..(Len(shown) + 1)
      /\ \A i \in 1..Len(shown) : shown'[i] = shown[i]
      /\ shown'[Len(shown) + 1] = lines
  BY DEF TypeOK
<1>2. DOMAIN shown = 1..Len(shown) /\ Len(shown) \in Nat
  BY <1>1
<1>3. DOMAIN shown' = DOMAIN shown \cup {Len(shown) + 1}
  BY <1>1, <1>2
<1> QED
  BY <1>1, <1>2, <1>3 DEF Shown

\* get_logs answers with lines after n, and with every line up to its last.
LEMMA LinesAreSeamless ==
  ASSUME TypeOK, NEW n \in Nat
  PROVE  /\ Lines(n) \subseteq log
         /\ \A id \in Lines(n) : id > n
         /\ \A k \in Lines(n), id \in log : n < id /\ id <= k => id \in Lines(n)
<1>1. Lines(n) \subseteq log /\ \A id \in Lines(n) : id > n
  BY DEF Lines, Newer
<1>2. ASSUME NEW k \in Lines(n), NEW id \in log, n < id, id <= k
      PROVE  id \in Lines(n)
  <2> DEFINE Upto(m) == {j \in Newer(n) : j <= m}
  <2>1. log \subseteq Nat /\ id \in Nat /\ k \in Nat /\ Limit \in Nat
    BY <1>1, Bounds, LogIds
  <2>2. IsFiniteSet(Upto(k))
    BY LogIsFinite, FS_Subset DEF Newer
  <2>3. Upto(id) \subseteq Upto(k)
    <3> SUFFICES ASSUME NEW j \in Newer(n), j <= id PROVE j <= k
      OBVIOUS
    <3>1. j \in Nat
      BY <2>1 DEF Newer
    <3> QED
      BY <1>2, <2>1, <3>1
  <2>4. /\ IsFiniteSet(Upto(id))
        /\ Cardinality(Upto(id)) <= Cardinality(Upto(k))
    BY <2>2, <2>3, FS_Subset
  <2>5. Cardinality(Upto(id)) \in Nat /\ Cardinality(Upto(k)) \in Nat
    BY <2>2, <2>4, FS_CardinalityType
  <2>6. Cardinality(Upto(k)) <= Limit
    BY <1>2 DEF Lines
  <2>7. Cardinality(Upto(id)) <= Limit /\ id \in Newer(n)
    BY <1>2, <2>1, <2>4, <2>5, <2>6 DEF Newer
  <2> QED
    BY <2>7 DEF Lines
<1> QED
  BY <1>1, <1>2

-----------------------------------------------------------------------------
(* Types. *)

LEMMA InitTyped == Init => TypeOK /\ Ids
<1> SUFFICES ASSUME Init PROVE TypeOK /\ Ids
  OBVIOUS
<1> USE FaultsAssumption
<1>1. pc \in [Pullers -> {"load", "pull", "asked", "answered", "trailing", "rest", "stop"}]
  BY DEF Init
<1>2. shown \in Seq(SUBSET Nat)
  BY DEF Init
<1>3. rounds \in [Loops -> 0..MaxRounds] /\ faults \in 0..MaxFaults
  BY Bounds DEF Init
<1>4. \A x \in Writers : writing[x] < next
  BY DEF Init
<1>5. TypeOK
  BY <1>1, <1>2, <1>3 DEF Init, TypeOK
<1> QED
  BY <1>4, <1>5 DEF Init, Ids

\* What an insertion does to the types.
LEMMA InsertTyped ==
  ASSUME TypeOK, Ids, NEW x \in Writers, Insert(x)
  PROVE  /\ next' \in Nat /\ next' > 0 /\ 1..next \subseteq 1..next'
         /\ writing' \in [Writers -> Nat]
         /\ \A y \in Writers : writing'[y] < next'
         /\ faults' \in 0..MaxFaults
<1> USE FaultsAssumption
<1>1. next \in Nat /\ next > 0 /\ next' = next + 1
  BY DEF TypeOK, Ids, Insert
<1>2. writing' \in [Writers -> Nat]
  BY <1>1 DEF TypeOK, Insert
<1>3. \A y \in Writers : writing'[y] < next'
  BY <1>1 DEF TypeOK, Ids, Insert
<1>4. faults' \in 0..MaxFaults
  BY DEF TypeOK, Insert, Fault, NoFault
<1> QED
  BY <1>1, <1>2, <1>3, <1>4

\* The next place of a loop is one of its places.
LEMMA ContinueTyped ==
  ASSUME TypeOK, NEW p \in Pullers, Continue(p)
  PROVE  \E label \in {"load", "trailing", "rest", "stop"} :
             pc' = [pc EXCEPT ![p] = label]
  BY DEF TypeOK, Continue, Goto

LEMMA NextTyped == TypeOK /\ Ids /\ [Next]_vars => (TypeOK /\ Ids)'
<1> SUFFICES ASSUME TypeOK, Ids, [Next]_vars PROVE (TypeOK /\ Ids)'
  OBVIOUS
<1> USE FaultsAssumption, Bounds, PullerNames
<1>1. ASSUME NEW x \in Writers, WriteLine(x) PROVE (TypeOK /\ Ids)'
  BY <1>1, InsertTyped DEF WriteLine, TypeOK, Ids, job, console, browser
<1>2. ASSUME NEW x \in Writers, Commit(x) PROVE (TypeOK /\ Ids)'
  <2>0. /\ next \in Nat /\ writing[x] \in Nat /\ writing[x] # 0 /\ writing[x] < next
        /\ log \subseteq 1..next
    BY <1>2 DEF Commit, TypeOK, Ids
  <2>1. /\ log' \in SUBSET (1..next') /\ writing' \in [Writers -> Nat]
        /\ overtaken' \in SUBSET log'
    <3>1. writing[x] \in 1..next
      BY <2>0
    <3> QED
      BY <1>2, <2>0, <3>1 DEF Commit, TypeOK
  <2>2. \A y \in Writers : writing'[y] < next'
    BY <1>2 DEF Commit, TypeOK, Ids
  <2> QED
    BY <1>2, <2>1, <2>2 DEF Commit, TypeOK, Ids, job, console, browser
<1>3. ASSUME Complete PROVE (TypeOK /\ Ids)'
  BY <1>3 DEF Complete, TypeOK, Ids, database, console, browser
<1>4. ASSUME WriteLast PROVE (TypeOK /\ Ids)'
  <2>1. Run \in Writers
    BY DEF Writers
  <2> QED
    BY <1>4, <2>1, InsertTyped DEF WriteLast, TypeOK, Ids, console, browser
<1>5. ASSUME Load \/ LoadFails \/ TrailingPull PROVE (TypeOK /\ Ids)'
  <2>1. pc' \in [Pullers -> {"load", "pull", "asked", "answered", "trailing", "rest", "stop"}]
    BY <1>5 DEF Load, LoadFails, TrailingPull, Goto, TypeOK
  <2>2. seen' \in {"active", "over", "trailing"} /\ faults' \in 0..MaxFaults
    BY <1>5 DEF Load, LoadFails, TrailingPull, Fault, TypeOK
  <2>3. short' \in SUBSET {"load", "lost", "early", "limit"}
    <3>1. short \in SUBSET {"load", "lost", "early", "limit"}
      BY DEF TypeOK
    <3>2. short' \in {short, short \cup {"load"}, short \cup {kind \in {"early"} : ~LastIsOut}}
      BY <1>5 DEF Load, LoadFails, TrailingPull
    <3> QED
      BY <3>1, <3>2
  <2> QED
    BY <1>5, <2>1, <2>2, <2>3 DEF Load, LoadFails, TrailingPull, TypeOK, Ids, database, job, console
<1>6. ASSUME NEW p \in Pullers, Ask(p) PROVE (TypeOK /\ Ids)'
  BY <1>6 DEF Ask, Goto, TypeOK, Ids, database, job, console
<1>7. ASSUME NEW p \in Pullers, Answer(p) PROVE (TypeOK /\ Ids)'
  <2>1. Lines(after[p]) \in SUBSET Nat
    BY LogIds DEF Lines, Newer
  <2>2. short' \in SUBSET {"load", "lost", "early", "limit"}
    BY <1>7 DEF Answer, CutOff, TypeOK
  <2> QED
    BY <1>7, <2>1, <2>2 DEF Answer, Goto, TypeOK, Ids, database, job, console
<1>8. ASSUME NEW p \in Pullers, Apply(p) PROVE (TypeOK /\ Ids)'
  <2>1. cursor' \in Nat /\ shown' \in Seq(SUBSET Nat)
    <3>1. answer[p] \in SUBSET Nat /\ cursor \in Nat /\ shown \in Seq(SUBSET Nat)
      BY DEF TypeOK
    <3>2. CASE UNCHANGED console
      BY <3>1, <3>2 DEF console
    <3>3. CASE \E top \in answer[p] : cursor' = top /\ shown' = Append(shown, answer[p])
      BY <3>1, <3>3
    <3> QED
      BY <1>8, <3>2, <3>3 DEF Apply
  <2>2. pc' \in [Pullers -> {"load", "pull", "asked", "answered", "trailing", "rest", "stop"}]
    BY <1>8, ContinueTyped DEF Apply, TypeOK
  <2>3. answer' \in [Pullers -> SUBSET Nat]
    BY <1>8 DEF Apply, TypeOK
  <2> QED
    BY <1>8, <2>1, <2>2, <2>3 DEF Apply, TypeOK, Ids, database, job
<1>9. ASSUME NEW p \in Pullers, PullFails(p) PROVE (TypeOK /\ Ids)'
  <2>1. pc' \in [Pullers -> {"load", "pull", "asked", "answered", "trailing", "rest", "stop"}]
    BY <1>9, ContinueTyped DEF PullFails, TypeOK
  <2>2. answer' \in [Pullers -> SUBSET Nat] /\ faults' \in 0..MaxFaults
    BY <1>9 DEF PullFails, TypeOK, Fault
  <2>3. short' \in SUBSET {"load", "lost", "early", "limit"}
    <3>1. short \in SUBSET {"load", "lost", "early", "limit"}
      BY DEF TypeOK
    <3>2. short' = short \cup {kind \in {"lost"} : p = Page /\ seen = "trailing"}
      BY <1>9 DEF PullFails
    <3> QED
      BY <3>1, <3>2
  <2> QED
    BY <1>9, <2>1, <2>2, <2>3 DEF PullFails, TypeOK, Ids, database, job, console
<1>10. ASSUME NEW x \in Writers, AppendFails(x) PROVE (TypeOK /\ Ids)'
  BY <1>10 DEF AppendFails, Fault, TypeOK, Ids, job, console, browser
<1>11. ASSUME NEW l \in Loops, Pull(l) PROVE (TypeOK /\ Ids)'
  BY <1>11 DEF Pull, Goto, TypeOK, Ids, database, job, console
<1>12. CASE UNCHANGED vars
  BY <1>12 DEF vars, database, job, console, browser, TypeOK, Ids
<1> QED
  BY <1>1, <1>2, <1>3, <1>4, <1>5, <1>6, <1>7, <1>8, <1>9, <1>10, <1>11, <1>12
  DEF Next, Write, PageStep, Exchange, Misfortune

\* Type correctness, under every fault.
THEOREM TypeCorrect == Spec => []TypeOK
<1> QED
  BY InitTyped, NextTyped, PTL DEF Spec

-----------------------------------------------------------------------------
(* Nothing is skipped.                                                      *)

Cursors == Anchored /\ Covered /\ Seamless /\ NothingSkipped

\* Every new line is overtaken or beyond the old ones.
LogGrowsAtTheEnd ==
    /\ log \subseteq log' /\ overtaken \subseteq overtaken'
    /\ \A id \in log' \ log :
           id \in overtaken' \/ (id \in Nat /\ \A n \in log \cup {0} : n < id)

\* The writers may extend the log at its end without disturbing the loops.
LEMMA GrowthKeepsCursors ==
  ASSUME TypeOK, Cursors, LogGrowsAtTheEnd, UNCHANGED <<console, pc, after, answer>>
  PROVE  Cursors'
<1>1. /\ cursor' = cursor /\ shown' = shown /\ pc' = pc /\ after' = after
      /\ answer' = answer /\ Shown' = Shown
  BY DEF console, Shown
<1>2. ASSUME NEW n \in log \cup {0}, NEW id \in InOrder', id <= n PROVE id \in InOrder
  <2>1. id \in log' /\ id \notin overtaken' /\ n \in Nat
    BY LogIds DEF InOrder
  <2>2. id \in log
    BY <1>2, <2>1 DEF LogGrowsAtTheEnd
  <2> QED
    BY <2>1, <2>2 DEF InOrder, LogGrowsAtTheEnd
<1>3. Anchored'
  BY <1>1 DEF Cursors, Anchored, LogGrowsAtTheEnd
<1>4. Covered'
  BY <1>1, <1>2 DEF Cursors, Anchored, Covered, Waiting
<1>5. Seamless'
  <2> SUFFICES ASSUME NEW p \in Pullers, pc[p] = "answered"
               PROVE  /\ answer[p] \subseteq log'
                      /\ \A k \in answer[p], id \in InOrder' :
                             after[p] < id /\ id <= k => id \in answer[p]
    BY <1>1 DEF Seamless
  <2>1. answer[p] \subseteq log
    BY DEF Cursors, Seamless
  <2> QED
    BY <1>2, <2>1 DEF Cursors, Seamless, LogGrowsAtTheEnd
<1>6. NothingSkipped'
  BY <1>1, <1>2 DEF Cursors, Anchored, NothingSkipped
<1> QED
  BY <1>3, <1>4, <1>5, <1>6 DEF Cursors

\* So may a loop that only starts, or gives up waiting.
LEMMA QuietLoopsKeepCursors ==
  ASSUME Cursors, UNCHANGED <<log, overtaken, console, after>>,
         \A q \in Pullers : Waiting(q)' => pc'[q] = pc[q] /\ answer'[q] = answer[q]
  PROVE  Cursors'
<1>1. /\ cursor' = cursor /\ Shown' = Shown /\ log' = log /\ InOrder' = InOrder
      /\ after' = after
  BY DEF console, Shown, InOrder
<1>2. Anchored' /\ NothingSkipped'
  BY <1>1 DEF Cursors, Anchored, NothingSkipped
<1>3. Covered'
  BY <1>1 DEF Cursors, Covered, Waiting
<1>4. Seamless'
  BY <1>1 DEF Cursors, Seamless, Waiting
<1> QED
  BY <1>2, <1>3, <1>4 DEF Cursors

\* An inserted line has a new id.
LEMMA InsertKeepsFresh ==
  ASSUME TypeOK, Ids, Fresh, NEW x \in Writers, Insert(x), log' = log
  PROVE  Fresh'
<1>1. /\ next \in Nat /\ next > 0 /\ next' = next + 1 /\ log \subseteq Nat
      /\ \A id \in log : id < next
  BY LogIds DEF TypeOK, Ids, Fresh, Insert
<1>2. \A y \in Writers : /\ writing'[y] = IF y = x THEN next ELSE writing[y]
                         /\ writing[y] \in Nat /\ writing[y] < next
  BY DEF Insert, TypeOK, Ids
<1>3. \A y \in Writers : writing'[y] # 0 => writing'[y] \notin log
  BY <1>1, <1>2 DEF Fresh
<1>4. \A y, z \in Writers : writing'[y] # 0 /\ writing'[z] = writing'[y] => z = y
  BY <1>1, <1>2 DEF Fresh
<1> QED
  BY <1>1, <1>3, <1>4 DEF Fresh

\* A committed line is new: overtaken, or in order and beyond all others.
LEMMA CommitAdds ==
  ASSUME TypeOK, Ids, Fresh, NEW x \in Writers, Commit(x)
  PROVE  /\ writing[x] \in Nat /\ writing[x] # 0 /\ writing[x] < next /\ writing[x] \notin log
         /\ log' = log \cup {writing[x]} /\ Fresh'
         /\ \/ /\ \E n \in log : n > writing[x]
               /\ overtaken' = overtaken \cup {writing[x]} /\ InOrder' = InOrder
            \/ /\ \A n \in log : n < writing[x]
               /\ overtaken' = overtaken /\ InOrder' = InOrder \cup {writing[x]}
<1>1. /\ writing[x] \in Nat /\ writing[x] # 0 /\ writing[x] < next /\ writing[x] \notin log
      /\ log' = log \cup {writing[x]} /\ next' = next
      /\ overtaken' = overtaken \cup {id \in {writing[x]} : \E n \in log : n > id}
      /\ log \subseteq Nat /\ overtaken \subseteq log
      /\ \A y \in Writers : writing'[y] = IF y = x THEN 0 ELSE writing[y]
  BY LogIds DEF Commit, TypeOK, Ids, Fresh
<1>2. Fresh'
  BY <1>1 DEF Fresh
<1>3. CASE \E n \in log : n > writing[x]
  <2>1. overtaken' = overtaken \cup {writing[x]}
    BY <1>1, <1>3
  <2> QED
    BY <1>1, <1>2, <1>3, <2>1 DEF InOrder
<1>4. CASE ~\E n \in log : n > writing[x]
  <2>1. overtaken' = overtaken
    BY <1>1, <1>4
  <2>2. \A n \in log : n < writing[x]
    <3> SUFFICES ASSUME NEW n \in log PROVE n < writing[x]
      OBVIOUS
    <3>1. n \in Nat /\ n # writing[x] /\ ~(n > writing[x])
      BY <1>1, <1>4
    <3> QED
      BY <1>1, <3>1
  <2> QED
    BY <1>1, <1>2, <2>1, <2>2 DEF InOrder
<1> QED
  BY <1>3, <1>4

LEMMA InitSkipsNothing == Init => Fresh /\ Cursors
<1> SUFFICES ASSUME Init PROVE Fresh /\ Cursors
  OBVIOUS
<1>1. Fresh
  BY DEF Init, Fresh
<1>2. Cursors
  BY DEF Init, Cursors, Anchored, Covered, Seamless, NothingSkipped, Waiting, InOrder
<1> QED
  BY <1>1, <1>2

LEMMA NextSkipsNothing ==
  ASSUME TypeOK, Ids, Fresh, Cursors, [Next]_vars
  PROVE  Fresh' /\ Cursors'
<1> USE PullerNames
<1>1. ASSUME NEW x \in Writers, Insert(x), UNCHANGED <<log, overtaken, console, browser>>
      PROVE  Fresh' /\ Cursors'
  <2>1. Fresh'
    BY <1>1, InsertKeepsFresh
  <2>2. LogGrowsAtTheEnd
    BY <1>1 DEF LogGrowsAtTheEnd
  <2> QED
    BY <1>1, <2>1, <2>2, GrowthKeepsCursors DEF browser
<1>2. ASSUME NEW x \in Writers, Commit(x) PROVE Fresh' /\ Cursors'
  <2>1. LogGrowsAtTheEnd
    BY <1>2, CommitAdds DEF LogGrowsAtTheEnd
  <2>2. UNCHANGED <<console, pc, after, answer>>
    BY <1>2 DEF Commit, browser
  <2> QED
    BY <1>2, <2>1, <2>2, CommitAdds, GrowthKeepsCursors
<1>3. ASSUME NEW x \in Writers, AppendFails(x) PROVE Fresh' /\ Cursors'
  <2>1. \A y \in Writers : writing'[y] = IF y = x THEN 0 ELSE writing[y]
    BY <1>3 DEF AppendFails, TypeOK
  <2>2. Fresh'
    BY <1>3, <2>1 DEF AppendFails, Fresh
  <2>3. LogGrowsAtTheEnd
    BY <1>3 DEF AppendFails, LogGrowsAtTheEnd
  <2> QED
    BY <1>3, <2>2, <2>3, GrowthKeepsCursors DEF AppendFails, browser
<1>4. ASSUME Complete \/ UNCHANGED vars PROVE Fresh' /\ Cursors'
  <2>1. UNCHANGED <<database, console, browser>>
    BY <1>4 DEF Complete, vars
  <2>2. Fresh'
    BY <2>1 DEF database, Fresh
  <2>3. LogGrowsAtTheEnd
    BY <2>1 DEF database, LogGrowsAtTheEnd
  <2> QED
    BY <2>1, <2>2, <2>3, GrowthKeepsCursors DEF browser
<1>5. ASSUME UNCHANGED database
      PROVE  Fresh' /\ log' = log /\ overtaken' = overtaken /\ InOrder' = InOrder
  BY <1>5 DEF database, Fresh, InOrder
<1>6. ASSUME NEW p \in Pullers, NEW label \in {"load", "pull", "trailing", "rest", "stop"},
             Goto(p, label), UNCHANGED <<database, console, after>>,
             \A q \in Pullers : q # p => answer'[q] = answer[q]
      PROVE  Fresh' /\ Cursors'
  <2>1. \A q \in Pullers : pc'[q] = IF q = p THEN label ELSE pc[q]
    BY <1>6 DEF Goto, TypeOK
  <2>2. \A q \in Pullers : Waiting(q)' => pc'[q] = pc[q] /\ answer'[q] = answer[q]
    BY <1>6, <2>1 DEF Waiting
  <2> QED
    BY <1>5, <1>6, <2>2, QuietLoopsKeepCursors
<1>7. ASSUME Load \/ LoadFails \/ TrailingPull PROVE Fresh' /\ Cursors'
  BY <1>6, <1>7 DEF Load, LoadFails, TrailingPull
<1>8. ASSUME NEW l \in Loops, Pull(l) PROVE Fresh' /\ Cursors'
  BY <1>6, <1>8 DEF Pull
<1>9. ASSUME NEW p \in Pullers, PullFails(p) PROVE Fresh' /\ Cursors'
  <2>1. \A q \in Pullers : q # p => answer'[q] = answer[q]
    BY <1>9 DEF PullFails, TypeOK
  <2>2. PICK label \in {"load", "trailing", "rest", "stop"} : Goto(p, label)
    BY <1>9, ContinueTyped DEF PullFails, Goto
  <2> QED
    BY <1>6, <1>9, <2>1, <2>2 DEF PullFails
<1>10. ASSUME NEW p \in Pullers, Ask(p) PROVE Fresh' /\ Cursors'
  <2>1. /\ cursor' = cursor /\ Shown' = Shown /\ log' = log /\ InOrder' = InOrder /\ Fresh'
        /\ \A q \in Pullers : /\ after'[q] = IF q = p THEN cursor ELSE after[q]
                              /\ pc'[q] = IF q = p THEN "asked" ELSE pc[q]
                              /\ answer'[q] = answer[q]
    BY <1>5, <1>10 DEF Ask, Goto, TypeOK, console, Shown
  <2>2. Anchored' /\ NothingSkipped'
    BY <2>1 DEF Cursors, Anchored, NothingSkipped
  <2>3. Covered'
    BY <2>1 DEF Cursors, Covered, Waiting, NothingSkipped
  <2>4. Seamless'
    BY <2>1 DEF Cursors, Seamless
  <2> QED
    BY <2>1, <2>2, <2>3, <2>4 DEF Cursors
<1>11. ASSUME NEW p \in Pullers, Answer(p) PROVE Fresh' /\ Cursors'
  <2>1. /\ cursor' = cursor /\ Shown' = Shown /\ log' = log /\ InOrder' = InOrder /\ Fresh'
        /\ pc[p] = "asked" /\ after' = after
        /\ \A q \in Pullers : /\ answer'[q] = IF q = p THEN Lines(after[p]) ELSE answer[q]
                              /\ pc'[q] = IF q = p THEN "answered" ELSE pc[q]
    BY <1>5, <1>11 DEF Answer, Goto, TypeOK, console, Shown
  <2>2. Anchored' /\ NothingSkipped'
    BY <2>1 DEF Cursors, Anchored, NothingSkipped
  <2>3. Covered'
    BY <2>1 DEF Cursors, Covered, Waiting
  <2>4. after[p] \in Nat
    BY DEF TypeOK
  <2>5. Seamless'
    <3>1. /\ Lines(after[p]) \subseteq log
          /\ \A k \in Lines(after[p]), id \in InOrder :
                 after[p] < id /\ id <= k => id \in Lines(after[p])
      BY <2>4, LinesAreSeamless, LogIds
    <3> QED
      BY <2>1, <3>1 DEF Cursors, Seamless
  <2> QED
    BY <2>1, <2>2, <2>3, <2>5 DEF Cursors
<1>12. ASSUME NEW p \in Pullers, Apply(p) PROVE Fresh' /\ Cursors'
  <2>1. PICK label \in {"load", "trailing", "rest", "stop"} : Goto(p, label)
    BY <1>12, ContinueTyped DEF Apply, Goto
  <2>2. /\ log' = log /\ InOrder' = InOrder /\ Fresh' /\ after' = after /\ pc[p] = "answered"
        /\ \A q \in Pullers : /\ pc'[q] = IF q = p THEN label ELSE pc[q]
                              /\ q # p => answer'[q] = answer[q]
    BY <1>5, <1>12, <2>1 DEF Apply, Goto, TypeOK
  <2>3. CASE UNCHANGED console
    BY <1>6, <1>12, <2>1, <2>2, <2>3 DEF Apply
  <2>4. ASSUME NEW top \in answer[p], \A id \in answer[p] : id <= top,
               cursor' = top, shown' = Append(shown, answer[p])
        PROVE  Cursors'
    <3>1. answer[p] \in SUBSET Nat
      BY DEF TypeOK
    <3>2. Shown \subseteq Shown' /\ answer[p] \subseteq Shown'
      BY <2>4, <3>1, AppendShows
    <3>3. Anchored'
      BY <2>2, <2>4 DEF Cursors, Anchored, Seamless
    <3>4. Covered'
      BY <2>2, <3>2 DEF Cursors, Covered, Waiting
    <3>5. Seamless'
      BY <2>2 DEF Cursors, Seamless
    <3>6. ASSUME NEW id \in InOrder, id <= top PROVE id \in Shown'
      <4>1. id \in Nat /\ after[p] \in Nat
        BY LogIds DEF TypeOK
      <4>2. CASE id <= after[p]
        BY <2>2, <3>2, <4>2 DEF Cursors, Covered, Waiting
      <4>3. CASE after[p] < id
        BY <2>2, <3>2, <3>6, <4>3 DEF Cursors, Seamless
      <4> QED
        BY <4>1, <4>2, <4>3
    <3>7. NothingSkipped'
      BY <2>2, <2>4, <3>6 DEF NothingSkipped
    <3> QED
      BY <3>3, <3>4, <3>5, <3>7 DEF Cursors
  <2> QED
    BY <1>12, <2>2, <2>3, <2>4 DEF Apply
<1>13. Run \in Writers
  BY DEF Writers
<1>14. ASSUME Next PROVE Fresh' /\ Cursors'
  <2>1. CASE Write
    BY <1>1, <1>2, <1>4, <1>13, <2>1 DEF Write, WriteLine, WriteLast
  <2>2. CASE PageStep
    BY <1>7, <1>10, <1>11, <1>12, <2>2 DEF PageStep, Exchange
  <2>3. CASE Misfortune
    BY <1>3, <1>7, <1>9, <2>3 DEF Misfortune
  <2>4. CASE \E l \in Loops : Pull(l) \/ Exchange(l)
    BY <1>8, <1>10, <1>11, <1>12, <2>4 DEF Exchange
  <2> QED
    BY <1>14, <2>1, <2>2, <2>3, <2>4 DEF Next
<1> QED
  BY <1>4, <1>14

\* The cursor of the page never passes a line that the console lacks, however
\* many loops and writers overlap, unless the line itself is committed late.
THEOREM NothingIsSkipped == Spec => []NothingSkipped
<1> DEFINE LInv == TypeOK /\ Ids /\ Fresh /\ Cursors
<1>1. Init => LInv
  BY InitTyped, InitSkipsNothing
<1>2. LInv /\ [Next]_vars => LInv'
  <2> SUFFICES ASSUME LInv, [Next]_vars PROVE LInv'
    OBVIOUS
  <2>1. TypeOK' /\ Ids'
    BY NextTyped
  <2> QED
    BY <2>1, NextSkipsNothing
<1>3. LInv => NothingSkipped
  BY DEF Cursors
<1> QED
  BY <1>1, <1>2, <1>3, PTL DEF Spec

-----------------------------------------------------------------------------
(* With the page's own loop only, lines are shown in order and once. *)

OnlyPage == Loops = {}

\* The console ends at the cursor, and nobody moves it under a pull.
Ordered ==
    /\ \A i \in DOMAIN shown : \A m \in shown[i] : m <= cursor
    /\ Waiting(Page) => after[Page] = cursor
    /\ pc[Page] = "answered" => \A id \in answer[Page] : id > after[Page]
    /\ ShownInOrder

LEMMA NextOrdered ==
  ASSUME OnlyPage, TypeOK, Ordered, [Next]_vars
  PROVE  Ordered'
<1> USE PullerNames
<1>1. Pullers = {Page}
  BY DEF OnlyPage, Pullers
<1>2. ASSUME UNCHANGED <<console, pc, after, answer>> PROVE Ordered'
  BY <1>2 DEF Ordered, ShownInOrder, Waiting, console
<1>3. ASSUME UNCHANGED console, pc'[Page] \notin {"asked", "answered"} PROVE Ordered'
  BY <1>3 DEF Ordered, ShownInOrder, Waiting, console
<1>4. ASSUME Load \/ LoadFails \/ TrailingPull \/ PullFails(Page) PROVE Ordered'
  <2>1. UNCHANGED console /\ pc'[Page] \notin {"asked", "answered"}
    BY <1>4 DEF Load, LoadFails, TrailingPull, PullFails, Continue, Goto, TypeOK
  <2> QED
    BY <1>3, <2>1
<1>5. ASSUME Ask(Page) PROVE Ordered'
  <2>1. UNCHANGED console /\ pc'[Page] = "asked" /\ after'[Page] = cursor
    BY <1>5 DEF Ask, Goto, TypeOK
  <2> QED
    BY <2>1 DEF Ordered, ShownInOrder, Waiting, console
<1>6. ASSUME Answer(Page) PROVE Ordered'
  <2>1. /\ UNCHANGED <<console, after>> /\ pc[Page] = "asked" /\ pc'[Page] = "answered"
        /\ answer'[Page] = Lines(after[Page]) /\ after[Page] \in Nat
    BY <1>6 DEF Answer, Goto, TypeOK
  <2> QED
    BY <2>1, LinesAreSeamless DEF Ordered, ShownInOrder, Waiting, console
<1>7. ASSUME Apply(Page) PROVE Ordered'
  <2>1. /\ pc[Page] = "answered" /\ pc'[Page] \notin {"asked", "answered"}
        /\ answer[Page] \in SUBSET Nat /\ cursor \in Nat
        /\ shown \in Seq(SUBSET Nat) /\ after[Page] = cursor
        /\ \A id \in answer[Page] : id > cursor
    BY <1>7 DEF Apply, Continue, Goto, TypeOK, Ordered, Waiting
  <2>2. CASE UNCHANGED console
    BY <1>3, <2>1, <2>2
  <2>3. ASSUME NEW top \in answer[Page], \A id \in answer[Page] : id <= top,
               cursor' = top, shown' = Append(shown, answer[Page])
        PROVE  Ordered'
    <3>1. /\ Len(shown) \in Nat /\ DOMAIN shown = 1..Len(shown)
          /\ DOMAIN shown' = 1..(Len(shown) + 1)
          /\ \A i \in 1..Len(shown) : shown'[i] = shown[i] /\ shown[i] \in SUBSET Nat
          /\ shown'[Len(shown) + 1] = answer[Page]
      BY <2>1, <2>3
    <3>2. \A i \in 1..Len(shown) : \A m \in shown[i] : m \in Nat /\ m <= cursor /\ m < top
      BY <2>1, <2>3, <3>1 DEF Ordered
    <3>3. \A i \in DOMAIN shown' : i \in 1..Len(shown) \/ i = Len(shown) + 1
      BY <3>1
    <3>4. \A i \in DOMAIN shown' : \A m \in shown'[i] : m <= cursor'
      <4> SUFFICES ASSUME NEW i \in DOMAIN shown', NEW m \in shown'[i] PROVE m <= top
        BY <2>3
      <4>1. CASE i \in 1..Len(shown)
        <5>1. m \in shown[i]
          BY <3>1, <4>1
        <5> QED
          BY <2>1, <3>2, <4>1, <5>1
      <4>2. CASE i = Len(shown) + 1
        BY <2>3, <3>1, <4>2
      <4> QED
        BY <3>3, <4>1, <4>2
    <3>5. ASSUME NEW i \in DOMAIN shown', NEW k \in DOMAIN shown', i < k,
                 NEW m \in shown'[i], NEW n \in shown'[k]
          PROVE  m < n
      <4>1. CASE k \in 1..Len(shown)
        <5>1. i \in 1..Len(shown)
          BY <3>1, <3>5, <4>1
        <5> QED
          BY <3>1, <3>5, <4>1, <5>1 DEF Ordered, ShownInOrder
      <4>2. CASE k = Len(shown) + 1
        <5>1. i \in 1..Len(shown)
          BY <3>1, <3>3, <3>5, <4>2
        <5>2. m \in Nat /\ m <= cursor /\ n \in Nat /\ cursor < n
          BY <2>1, <3>1, <3>2, <3>5, <4>2, <5>1
        <5> QED
          BY <2>1, <5>2
      <4> QED
        BY <3>3, <4>1, <4>2
    <3>6. ShownInOrder'
      BY <3>5 DEF ShownInOrder
    <3> QED
      BY <2>1, <3>4, <3>6 DEF Ordered, Waiting
  <2> QED
    BY <1>7, <2>2, <2>3 DEF Apply
<1>8. ASSUME Next PROVE Ordered'
  <2>1. CASE Write
    BY <1>2, <2>1 DEF Write, WriteLine, Commit, Complete, WriteLast, browser
  <2>2. CASE PageStep
    BY <1>4, <1>5, <1>6, <1>7, <2>2 DEF PageStep, Exchange
  <2>3. CASE Misfortune
    BY <1>1, <1>2, <1>4, <2>3 DEF Misfortune, AppendFails, browser
  <2>4. CASE \E l \in Loops : Pull(l) \/ Exchange(l)
    BY <2>4 DEF OnlyPage
  <2> QED
    BY <1>8, <2>1, <2>2, <2>3, <2>4 DEF Next
<1> QED
  BY <1>2, <1>8 DEF vars, browser, console

\* Without e-mail loops the console holds every line at most once and in the
\* order of the ids, whatever requests fail.
THEOREM LinesAreOrdered == ASSUME OnlyPage PROVE Spec => []ShownInOrder
<1> DEFINE OInv == TypeOK /\ Ids /\ Ordered
<1>1. Init => OInv
  <2> SUFFICES ASSUME Init PROVE Ordered
    BY InitTyped
  <2>1. shown = <<>> /\ DOMAIN shown = {} /\ pc[Page] = "load"
    BY PullerNames DEF Init
  <2> QED
    BY <2>1 DEF Ordered, ShownInOrder, Waiting
<1>2. OInv /\ [Next]_vars => OInv'
  BY NextTyped, NextOrdered, OnlyPage
<1>3. OInv => ShownInOrder
  BY DEF Ordered
<1> QED
  BY <1>1, <1>2, <1>3, PTL DEF Spec

-----------------------------------------------------------------------------
(* What the user sees is a part of the log without holes: Commit is the     *)
(* abstract Line unless the line is overtaken, and Apply is Show, unless    *)
(* what is appended was seen already through another loop.                  *)

\* The ids that can be handed out (MaxLines, and the run's last line).
IdsBounded == next <= MaxLines + (IF last = 0 THEN 1 ELSE 2)

\* The lines in order that the console has.
Seen == Shown \ overtaken

Beginning == Shown \subseteq log /\ \A k \in Seen, id \in InOrder : id <= k => id \in Shown

LEMMA NextBounded == TypeOK /\ IdsBounded /\ [Next]_vars => IdsBounded'
<1> SUFFICES ASSUME TypeOK, IdsBounded, [Next]_vars PROVE IdsBounded'
  OBVIOUS
<1> USE Bounds
<1>1. ASSUME UNCHANGED <<next, last>> PROVE IdsBounded'
  BY <1>1 DEF IdsBounded
<1>2. ASSUME NEW x \in Writers, WriteLine(x) PROVE IdsBounded'
  BY <1>2 DEF WriteLine, Insert, IdsBounded, TypeOK, job
<1>3. ASSUME WriteLast PROVE IdsBounded'
  BY <1>3 DEF WriteLast, Insert, IdsBounded, TypeOK
<1>4. ASSUME Next, ~WriteLast, ~\E x \in Writers : WriteLine(x) PROVE UNCHANGED <<next, last>>
  BY <1>4 DEF Next, Write, PageStep, Exchange, Misfortune, Commit, Complete, Load, LoadFails,
     TrailingPull, Ask, Answer, Apply, AppendFails, PullFails, Pull, database, job
<1> QED
  BY <1>1, <1>2, <1>3, <1>4 DEF vars, database, job

LEMMA CommitIsLine ==
  ASSUME TypeOK, Ids, Fresh, IdsBounded, Beginning, NEW x \in Writers, Commit(x)
  PROVE  [Followed!Next]_(Followed!vars) /\ Beginning'
<1>1. Shown' = Shown /\ Shown \subseteq log /\ log \subseteq Nat /\ InOrder \subseteq log
  BY LogIds DEF Commit, console, Shown, Beginning
<1>2. /\ writing[x] \in Nat /\ writing[x] # 0 /\ writing[x] < next /\ writing[x] \notin log
      /\ log' = log \cup {writing[x]}
  BY CommitAdds
<1>3. Shown' \ overtaken' = Shown \ overtaken
  BY <1>1, <1>2, CommitAdds
<1>4. CASE InOrder' = InOrder
  BY <1>1, <1>2, <1>3, <1>4 DEF Followed!vars, Beginning, Seen
<1>5. CASE (\A n \in log : n < writing[x]) /\ InOrder' = InOrder \cup {writing[x]}
  <2>1. writing[x] \in 1..(MaxLines + 1)
    BY <1>2, Bounds DEF IdsBounded, TypeOK
  <2>2. Followed!Line(writing[x])
    BY <1>1, <1>3, <1>5 DEF Followed!Line
  <2>3. Beginning'
    <3> SUFFICES ASSUME NEW k \in Seen', NEW id \in InOrder', id <= k PROVE id \in Shown'
      BY <1>1, <1>2 DEF Beginning
    <3>1. k \in Seen /\ k \in log
      BY <1>1, <1>3 DEF Seen
    <3>2. id # writing[x]
      BY <1>1, <1>2, <1>5, <3>1
    <3> QED
      BY <1>1, <1>5, <3>1, <3>2 DEF Beginning
  <2> QED
    BY <2>1, <2>2, <2>3 DEF Followed!Next
<1> QED
  BY <1>4, <1>5, CommitAdds

\* Some line of an answer is its last one.
LEMMA LastOfSome ==
  ASSUME NEW bound \in Nat, NEW some \in SUBSET (0..bound), some # {}
  PROVE  \E n \in some : \A id \in some : id <= n
<1> DEFINE R == OpToRel(<, Nat)
           left == {bound - id : id \in some}
<1>1. IsWellFoundedOn(R, Nat)
  BY NatLessThanWellFounded
<1>2. \A x, y \in Nat : <<x, y>> \in R <=> x < y
  BY DEF OpToRel
<1> HIDE DEF R
<1>3. left \subseteq Nat /\ left # {}
  <2>1. \A id \in some : bound - id \in Nat
    OBVIOUS
  <2>2. PICK id \in some : TRUE
    OBVIOUS
  <2>3. bound - id \in left
    OBVIOUS
  <2> QED
    BY <2>1, <2>3
<1>4. PICK least \in left : \A k \in left : ~ (<<k, least>> \in R)
  <2> HIDE DEF left
  <2> QED
    BY <1>1, <1>3, WFMin
<1>5. PICK n \in some : least = bound - n
  OBVIOUS
<1>6. ASSUME NEW id \in some PROVE id <= n
  <2>1. bound - id \in left /\ bound - id \in Nat /\ least \in Nat
    BY <1>3
  <2>2. ~(bound - id < least)
    BY <1>2, <1>4, <2>1
  <2> QED
    BY <1>5, <2>2
<1> QED
  BY <1>6

\* An answer shows the log up to its last line, or nothing new.
LEMMA ApplyShows ==
  ASSUME TypeOK, Cursors, Cursors', Beginning, NEW p \in Pullers, Apply(p)
  PROVE  [Followed!Next]_(Followed!vars) /\ Beginning'
<1>1. /\ log' = log /\ overtaken' = overtaken /\ InOrder' = InOrder /\ pc[p] = "answered"
      /\ answer[p] \in SUBSET Nat /\ log \subseteq Nat /\ InOrder \subseteq log
  BY LogIds DEF Apply, database, TypeOK, InOrder
<1>2. answer[p] \subseteq log
  BY <1>1 DEF Cursors, Seamless
<1>3. ASSUME Shown' = Shown PROVE [Followed!Next]_(Followed!vars) /\ Beginning'
  BY <1>1, <1>3 DEF Followed!vars, Beginning, Seen
<1>4. CASE UNCHANGED console
  BY <1>3, <1>4 DEF console, Shown
<1>5. ASSUME NEW top \in answer[p], \A id \in answer[p] : id <= top,
             cursor' = top, shown' = Append(shown, answer[p])
      PROVE  [Followed!Next]_(Followed!vars) /\ Beginning'
  <2> DEFINE new == answer[p] \ overtaken
  <2>1. Shown' = Shown \cup answer[p] /\ Shown \subseteq log /\ Seen' = Seen \cup new
    BY <1>1, <1>5, AppendShows DEF Beginning, Seen
  <2>2. CASE new \subseteq Shown
    <3>1. Seen' = Seen /\ Shown \subseteq Shown' /\ Shown' \subseteq log
      BY <1>2, <2>1, <2>2 DEF Seen
    <3> QED
      BY <1>1, <3>1 DEF Followed!vars, Beginning, Seen
  <2>3. ASSUME NEW first \in new, first \notin Shown
        PROVE  [Followed!Next]_(Followed!vars) /\ Beginning'
    <3>1. next \in Nat /\ new \in SUBSET (0..next) /\ new # {}
      <4>1. next \in Nat /\ log \subseteq 0..next
        BY LogIds DEF TypeOK
      <4> QED
        BY <1>2, <2>3, <4>1
    <3>2. PICK n \in new : \A id \in new : id <= n
      BY <3>1, LastOfSome
    <3>3. n \in InOrder /\ first \in InOrder /\ n \in Nat /\ first \in Nat /\ first <= n /\ n <= top
          /\ top \in Nat
      BY <1>1, <1>2, <1>5, <2>3, <3>2 DEF InOrder
    <3>4. ASSUME NEW k \in Seen' PROVE k \in InOrder /\ k <= n
      <4>1. k \in log /\ k \notin overtaken /\ k \in Nat
        BY <1>1, <1>2, <2>1 DEF Seen
      <4>2. CASE k \in new
        BY <3>2, <4>1, <4>2 DEF InOrder
      <4>3. CASE k \in Seen
        <5>1. ~(first <= k)
          BY <2>3, <3>3, <4>3 DEF Beginning
        <5> QED
          BY <3>3, <4>1, <5>1 DEF InOrder
      <4> QED
        BY <2>1, <4>2, <4>3
    <3>5. ASSUME NEW id \in InOrder, id <= n PROVE id \in Seen'
      <4>1. id \in Nat /\ id <= top
        BY <1>1, <3>3, <3>5
      <4>2. id \in Shown'
        BY <1>1, <1>5, <4>1 DEF Cursors, NothingSkipped
      <4> QED
        BY <1>1, <3>5, <4>2 DEF Seen, InOrder
    <3>6. Followed!Show(n)
      <4>1. Seen' = {id \in InOrder : id <= n}
        BY <3>4, <3>5
      <4>2. Seen \subseteq {id \in InOrder : id <= n}
        BY <2>1, <4>1
      <4> QED
        BY <1>1, <4>1, <4>2 DEF Followed!Show, Followed!Upto, Seen
    <3>7. Beginning'
      <4> SUFFICES ASSUME NEW k \in Seen', NEW id \in InOrder', id <= k PROVE id \in Shown'
        BY <1>1, <1>2, <2>1 DEF Beginning
      <4>1. k \in Nat /\ id \in Nat /\ id \in InOrder /\ k <= n
        BY <1>1, <3>4
      <4>2. id <= n
        BY <3>3, <4>1
      <4> QED
        BY <3>5, <4>1, <4>2 DEF Seen
    <3> QED
      BY <3>3, <3>6, <3>7 DEF Followed!Next
  <2> QED
    BY <2>2, <2>3
<1> QED
  BY <1>4, <1>5 DEF Apply

\* The steps that neither commit a line nor show one.
LEMMA OthersShowNothing ==
  ASSUME Next, ~\E x \in Writers : Commit(x), ~\E p \in Pullers : Apply(p)
  PROVE  UNCHANGED <<log, overtaken, shown>>
BY PullerNames DEF Next, Write, PageStep, Exchange, Misfortune, WriteLine, WriteLast, Insert,
   Complete, Load, LoadFails, TrailingPull, Ask, Answer, AppendFails, PullFails, Pull,
   database, job, console

\* Whatever the loops do to the shared cursor and however writers overlap, the
\* user sees a growing part of the log without holes but for overtaken lines.
THEOREM ReadersFollowTheLog == Spec => FollowSpec
<1> DEFINE FInv == TypeOK /\ Ids /\ Fresh /\ Cursors /\ IdsBounded /\ Beginning
<1>1. Init => FInv /\ Followed!Init
  <2> SUFFICES ASSUME Init PROVE IdsBounded /\ Beginning /\ Followed!Init
    BY InitTyped, InitSkipsNothing
  <2>1. Shown = {} /\ log = {}
    BY DEF Init, Shown
  <2> QED
    BY <2>1, Bounds DEF Init, IdsBounded, Beginning, Seen, InOrder, Followed!Init
<1>2. FInv /\ [Next]_vars => FInv' /\ [Followed!Next]_(Followed!vars)
  <2> SUFFICES ASSUME FInv, [Next]_vars PROVE FInv' /\ [Followed!Next]_(Followed!vars)
    OBVIOUS
  <2>1. TypeOK' /\ Ids' /\ Fresh' /\ Cursors' /\ IdsBounded'
    BY NextTyped, NextSkipsNothing, NextBounded
  <2>2. [Followed!Next]_(Followed!vars) /\ Beginning'
    <3>1. ASSUME UNCHANGED <<log, overtaken, shown>>
          PROVE  UNCHANGED Followed!vars /\ Beginning'
      <4>1. Shown' = Shown
        BY <3>1 DEF Shown
      <4> QED
        BY <3>1, <4>1 DEF Followed!vars, Beginning, Seen, InOrder
    <3>2. CASE UNCHANGED vars
      BY <3>1, <3>2 DEF vars, database, console
    <3>3. CASE Next
      BY <2>1, <3>1, <3>3, CommitIsLine, ApplyShows, OthersShowNothing
    <3> QED
      BY <3>2, <3>3
  <2> QED
    BY <2>1, <2>2
<1> QED
  BY <1>1, <1>2, PTL DEF Spec, FollowSpec, Followed!Spec

-----------------------------------------------------------------------------
(* The pull after the terminal status is enough, unless the page stops      *)
(* short.                                                                   *)

\* A page that has stopped following the job, and not stopped short, has seen
\* the run's last line decided, which is written after the status that made it
\* stop; it shows that line, when there is one, and all lines in order before.
EndSeesAll ==
    pc[Page] = "stop" /\ short = {} =>
        /\ LastIsOut
        /\ last \in log => \A id \in InOrder : id <= last => id \in Shown

\* The id of the last line is nobody else's.
LastIsLast ==
    last # 0 => /\ over /\ last < next
                /\ \A x \in Writers : writing[x] = last => x = Run

\* The page stops after the trailing pull only, and that pull has it all.
Trailing ==
    short = {} =>
        /\ seen = "trailing" =>
               LastIsOut /\ pc[Page] \in {"pull", "asked", "answered", "stop"}
        /\ pc[Page] \in {"trailing", "stop"} => seen # "active"
        /\ pc[Page] = "stop" => seen = "trailing"
        /\ pc[Page] = "answered" /\ seen = "trailing" /\ last \in log =>
               \A id \in InOrder : after[Page] < id /\ id <= last => id \in answer[Page]
        /\ EndSeesAll

\* Where the page stands.
place == <<pc, after, answer, seen, short>>

\* Writers that decide no line the page has stopped for leave it what it has.
LEMMA WritersTrail ==
  ASSUME TypeOK, Ids, Fresh, LastIsLast, Trailing,
         Write \/ \E x \in Writers : AppendFails(x)
  PROVE  LastIsLast' /\ Trailing'
<1> USE NamesAssumption, PullerNames
<1>0. Run \in Writers /\ Mailers \subseteq Writers
  BY DEF Writers
<1>1. /\ next \in Nat /\ last \in Nat /\ log \subseteq Nat /\ InOrder \subseteq log
      /\ \A x \in Writers : writing[x] \in Nat
  BY LogIds DEF TypeOK
<1>2. ASSUME NEW x \in Writers, Commit(x) PROVE LastIsLast' /\ Trailing'
  <2>1. /\ log' = log \cup {writing[x]} /\ writing[x] # 0
        /\ \A y \in Writers : writing'[y] \in {writing[y], 0}
        /\ UNCHANGED <<next, over, last, shown, place>>
    BY <1>2 DEF Commit, TypeOK, job, console, browser, place
  <2>2. Shown' = Shown
    BY <2>1 DEF Shown
  <2>3. LastIsLast'
    BY <1>0, <2>1 DEF LastIsLast
  <2>4. ASSUME LastIsOut
        PROVE  /\ LastIsOut' /\ last' = last /\ (last \in log' => last \in log)
               /\ \A id \in InOrder' : id <= last /\ last \in log => id \in InOrder
    <3>1. last # 0 /\ x # Run /\ writing[x] # last
      BY <1>0, <2>1, <2>4 DEF LastIsOut, LastIsLast
    <3>2. LastIsOut' /\ last' = last /\ (last \in log' => last \in log)
      BY <1>0, <2>1, <2>4, <3>1 DEF LastIsOut
    <3>3. ASSUME NEW id \in InOrder', id <= last, last \in log PROVE id \in InOrder
      <4>1. CASE InOrder' = InOrder
        BY <3>3, <4>1
      <4>2. CASE (\A n \in log : n < writing[x]) /\ InOrder' = InOrder \cup {writing[x]}
        <5>1. last < writing[x] /\ writing[x] \in Nat
          BY <1>1, <3>3, <4>2
        <5>2. id # writing[x]
          BY <1>1, <3>3, <5>1
        <5> QED
          BY <3>3, <4>2, <5>2
      <4> QED
        BY <1>2, <4>1, <4>2, CommitAdds
    <3> QED
      BY <3>2, <3>3
  <2> QED
    BY <2>1, <2>2, <2>3, <2>4 DEF Trailing, EndSeesAll, place
<1>3. ASSUME UNCHANGED <<log, overtaken, shown, place>>, LastIsOut => LastIsOut' /\ last' = last
      PROVE  Trailing'
  <2>1. Shown' = Shown /\ InOrder' = InOrder
    BY <1>3 DEF Shown, InOrder
  <2> QED
    BY <1>3, <2>1 DEF Trailing, EndSeesAll, place
<1>4. ASSUME NEW x \in Writers, AppendFails(x) PROVE LastIsLast' /\ Trailing'
  <2>1. /\ \A y \in Writers : writing'[y] \in {writing[y], 0}
        /\ UNCHANGED <<next, log, overtaken, over, last, shown, place>>
    BY <1>4 DEF AppendFails, TypeOK, job, console, browser, place
  <2>2. LastIsOut => LastIsOut'
    BY <1>0, <2>1 DEF LastIsOut
  <2>3. LastIsLast'
    BY <2>1 DEF LastIsLast
  <2> QED
    BY <1>3, <2>1, <2>2, <2>3
<1>5. ASSUME NEW x \in Writers, WriteLine(x) PROVE LastIsLast' /\ Trailing'
  <2>1. /\ next' = next + 1 /\ \A y \in Writers : writing'[y] = IF y = x THEN next ELSE writing[y]
        /\ UNCHANGED <<log, overtaken, over, last, shown, place>>
    BY <1>5 DEF WriteLine, Insert, TypeOK, job, console, browser, place
  <2>2. last # 0 => x # Run
    BY <1>5 DEF WriteLine, LastIsLast
  <2>3. LastIsOut => LastIsOut'
    BY <1>0, <2>1, <2>2 DEF LastIsOut
  <2>4. LastIsLast'
    BY <1>1, <2>1, <2>2 DEF LastIsLast
  <2> QED
    BY <1>3, <2>1, <2>3, <2>4
<1>6. CASE Complete
  <2>1. UNCHANGED <<next, writing, log, overtaken, last, shown, place>> /\ over'
    BY <1>6 DEF Complete, database, console, browser, place
  <2> QED
    BY <1>3, <2>1 DEF LastIsLast, LastIsOut
<1>7. CASE WriteLast
  <2>1. /\ last = 0 /\ last' = next /\ next' = next + 1 /\ over' = over /\ over
        /\ \A y \in Writers : writing'[y] = IF y = Run THEN next ELSE writing[y]
        /\ UNCHANGED <<log, overtaken, shown, place>>
    BY <1>7 DEF WriteLast, Insert, TypeOK, console, browser, place
  <2>2. ~LastIsOut
    BY <2>1 DEF LastIsOut
  <2>3. LastIsLast'
    BY <1>1, <2>1 DEF LastIsLast, Ids
  <2> QED
    BY <1>3, <2>1, <2>2, <2>3
<1> QED
  BY <1>2, <1>4, <1>5, <1>6, <1>7 DEF Write

\* The other loops of the page leave its own pull and what it waits for alone.
LEMMA LoopsTrail ==
  ASSUME TypeOK, LastIsLast, Trailing,
         NEW l \in Loops, Pull(l) \/ Exchange(l) \/ PullFails(l)
  PROVE  LastIsLast' /\ Trailing'
<1> USE NamesAssumption, PullerNames
<1>1. /\ UNCHANGED <<next, writing, log, overtaken, over, last, seen>>
      /\ l # Page /\ l \in Pullers
      /\ pc'[Page] = pc[Page] /\ after'[Page] = after[Page] /\ answer'[Page] = answer[Page]
  BY DEF Pull, Exchange, Ask, Answer, Apply, PullFails, Continue, Goto, TypeOK, database, job
<1>2. short' = short
  BY DEF Pull, Exchange, Ask, Answer, Apply, PullFails, CutOff
<1>3. Shown \subseteq Shown' /\ InOrder' = InOrder
  <2>1. CASE shown' = shown
    BY <1>1, <2>1 DEF Shown, InOrder
  <2>2. ASSUME shown' = Append(shown, answer[l]) PROVE Shown \subseteq Shown' /\ InOrder' = InOrder
    BY <1>1, <2>2, AppendShows DEF TypeOK, InOrder
  <2> QED
    BY <2>1, <2>2 DEF Pull, Exchange, Ask, Answer, Apply, PullFails, console
<1> QED
  BY <1>1, <1>2, <1>3 DEF LastIsLast, Trailing, EndSeesAll, LastIsOut

LEMMA PageTrails ==
  ASSUME TypeOK, Cursors, LastIsLast, Trailing, PageStep \/ LoadFails \/ PullFails(Page)
  PROVE  LastIsLast' /\ Trailing'
<1> USE NamesAssumption, PullerNames
<1>1. /\ UNCHANGED <<next, writing, log, overtaken, over, last>>
      /\ LastIsOut' = LastIsOut /\ LastIsLast' /\ InOrder' = InOrder
  BY DEF PageStep, Load, LoadFails, TrailingPull, Exchange, Ask, Answer, Apply, PullFails,
     database, job, LastIsOut, LastIsLast, InOrder
<1>2. ASSUME shown' = shown PROVE Shown' = Shown
  BY <1>2 DEF Shown
<1>3. CASE Load
  <2>1. Shown' = Shown /\ short' = short /\ pc'[Page] = "pull" /\ seen' # "trailing"
    BY <1>2, <1>3 DEF Load, Goto, TypeOK, console
  <2> QED
    BY <1>1, <2>1 DEF Trailing, EndSeesAll
<1>4. CASE LoadFails
  BY <1>1, <1>4 DEF LoadFails, Trailing
<1>5. CASE TrailingPull
  <2>1. /\ Shown' = Shown /\ pc'[Page] = "pull"
        /\ short' = short \cup {kind \in {"early"} : ~LastIsOut}
    BY <1>2, <1>5 DEF TrailingPull, Goto, TypeOK, console
  <2>2. short' = {} => LastIsOut
    BY <2>1
  <2> QED
    BY <1>1, <2>1, <2>2 DEF Trailing, EndSeesAll
<1>6. CASE Ask(Page)
  <2>1. Shown' = Shown /\ short' = short /\ seen' = seen /\ pc'[Page] = "asked" /\ pc[Page] = "pull"
    BY <1>2, <1>6 DEF Ask, Goto, TypeOK, console
  <2> QED
    BY <1>1, <2>1 DEF Trailing, EndSeesAll
<1>7. CASE Answer(Page)
  <2>1. /\ pc[Page] = "asked" /\ pc'[Page] = "answered" /\ seen' = seen /\ Shown' = Shown
        /\ after' = after /\ answer'[Page] = Lines(after[Page])
        /\ short' = short \cup CutOff(Page, Lines(after[Page]))
    BY <1>2, <1>7 DEF Answer, Goto, TypeOK, console
  <2>2. short' = {} => short = {} /\ (seen = "trailing" => Lines(after[Page]) = Newer(after[Page]))
    BY <2>1 DEF CutOff
  <2>3. \A id \in InOrder : after[Page] < id => id \in Newer(after[Page])
    BY LogIds DEF Newer, TypeOK
  <2> QED
    BY <1>1, <2>1, <2>2, <2>3 DEF Trailing, EndSeesAll
<1>8. ASSUME NEW lines, Shown' = Shown \cup lines, after' = after, seen' = seen, Continue(Page),
             short' = {} => short = {} /\ (seen = "trailing" => /\ pc[Page] = "answered"
                                                               /\ lines = answer[Page])
      PROVE  Trailing'
  <2>1. pc'[Page] = CASE seen = "active" -> "load"
                      [] seen = "over" -> "trailing"
                      [] seen = "trailing" -> "stop"
    BY <1>8 DEF Continue, Goto, TypeOK
  <2>2. ASSUME short' = {}, seen = "trailing", last \in log, NEW id \in InOrder, id <= last
        PROVE  id \in Shown'
    <3>1. id \in Nat /\ after[Page] \in Nat
      BY LogIds DEF TypeOK
    <3>2. id <= after[Page] => id \in Shown
      BY <1>8, <2>2 DEF Cursors, Covered, Waiting
    <3>3. after[Page] < id => id \in answer[Page]
      BY <1>8, <2>2 DEF Trailing
    <3> QED
      BY <1>8, <2>2, <3>1, <3>2, <3>3
  <2>3. seen \in {"active", "over", "trailing"}
    BY DEF TypeOK
  <2>4. short' = {} /\ seen = "trailing" => LastIsOut
    BY <1>8 DEF Trailing
  <2>5. EndSeesAll'
    BY <1>1, <1>8, <2>1, <2>2, <2>3, <2>4 DEF EndSeesAll
  <2> QED
    BY <1>1, <1>8, <2>1, <2>3, <2>4, <2>5 DEF Trailing
<1>9. CASE Apply(Page)
  <2>1. /\ pc[Page] = "answered" /\ seen' = seen /\ short' = short /\ after' = after
        /\ Continue(Page)
    BY <1>9 DEF Apply
  <2>2. Shown' = Shown \cup answer[Page]
    <3>1. CASE answer[Page] = {} /\ UNCHANGED console
      BY <3>1 DEF console, Shown
    <3>2. CASE shown' = Append(shown, answer[Page])
      BY <3>2, AppendShows DEF TypeOK
    <3> QED
      BY <1>9, <3>1, <3>2 DEF Apply
  <2> QED
    BY <1>1, <1>8, <2>1, <2>2
<1>10. CASE PullFails(Page)
  <2>1. /\ seen' = seen /\ after' = after /\ Continue(Page) /\ Shown' = Shown
        /\ short' = short \cup {kind \in {"lost"} : Page = Page /\ seen = "trailing"}
    BY <1>2, <1>10 DEF PullFails, console
  <2>2. short' = {} => short = {} /\ seen # "trailing"
    BY <2>1
  <2>3. Shown' = Shown \cup {}
    BY <2>1
  <2> QED
    BY <1>1, <1>8, <2>1, <2>2, <2>3
<1> QED
  BY <1>3, <1>4, <1>5, <1>6, <1>7, <1>9, <1>10 DEF PageStep, Exchange

\* Two pulls after the terminal status are enough for the line that is written
\* after it, whatever the e-mail loops do to the cursor and mailers to the log,
\* unless the page stops short: there is no other way to miss it.  With
\* fairness of the page this is LinesAreShown for the run's last line.
THEOREM StoppedPageIsComplete == Spec => []EndSeesAll
<1> DEFINE EInv == TypeOK /\ Ids /\ Fresh /\ Cursors /\ LastIsLast /\ Trailing
<1>1. Init => EInv
  <2> SUFFICES ASSUME Init PROVE LastIsLast /\ Trailing
    BY InitTyped, InitSkipsNothing
  <2> QED
    BY PullerNames DEF Init, LastIsLast, Trailing, EndSeesAll
<1>2. EInv /\ [Next]_vars => EInv'
  <2> SUFFICES ASSUME EInv, [Next]_vars PROVE EInv'
    OBVIOUS
  <2>1. TypeOK' /\ Ids' /\ Fresh' /\ Cursors'
    BY NextTyped, NextSkipsNothing
  <2>2. CASE UNCHANGED vars
    <3>1. UNCHANGED <<next, writing, log, overtaken, over, last, shown, place>>
      BY <2>2 DEF vars, database, job, console, browser, place
    <3>2. Shown' = Shown /\ InOrder' = InOrder
      BY <3>1 DEF Shown, InOrder
    <3> QED
      BY <2>1, <3>1, <3>2 DEF LastIsLast, Trailing, EndSeesAll, LastIsOut, place
  <2>3. CASE Next
    <3>1. LastIsLast' /\ Trailing'
      BY <2>3, WritersTrail, LoopsTrail, PageTrails DEF Next, Misfortune, Pullers
    <3> QED
      BY <2>1, <3>1
  <2> QED
    BY <2>2, <2>3
<1>3. EInv => EndSeesAll
  BY DEF Trailing, EndSeesAll
<1> QED
  BY <1>1, <1>2, <1>3, PTL DEF Spec
=============================================================================
