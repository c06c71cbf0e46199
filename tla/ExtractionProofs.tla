-------------------------- MODULE ExtractionProofs --------------------------
(***************************************************************************)
(* The extraction of Extraction for any bucket, any files, any page size   *)
(* and any number of changes by the client.  The invariant of the listing  *)
(* (Listed) says what is known behind the marker, that of the reading      *)
(* (ReadInOrder, Written) what is known of the files opened so far.        *)
(* CanGoOn and Forward are the safety half of termination: there is always  *)
(* a next step, and it never goes back.                                     *)
(***************************************************************************)
EXTENDS Extraction, FiniteSetTheorems, SequenceTheorems, WellFoundedInduction, TLAPS

Listing == pc = "list"

\* The listing has passed key k.
Behind(k) ==
    IF request.mode = "template"
    THEN Day[k] < day \/ (Day[k] = day /\ k <= marker)
    ELSE request.mode = "list" /\ k <= marker

Listed ==
    /\ found \subseteq Wanted
    /\ pc \in {"start", "list"} => \A k \in steady : bucket[k] # None
    /\ pc = "start" => marker = 0 /\ found = {} /\ missing = {}
    /\ Listing => \A k \in steady \cap Wanted : Behind(k) => k \in found
    /\ Listing /\ request.mode = "template" =>
           /\ day \in WantedDays
           /\ missing = {d \in FirstDay..(day - 1) : ~HasFile(d, found)}

\* The claims of a discovery that is over.
Complete == SteadyFilesFound /\ MissingDaysTrue

-----------------------------------------------------------------------------
(* Types.                                                                   *)

LEMMA DaysAreNumbers == ASSUME NEW t \in Nat PROVE DayOf(t) \in Nat
  BY SizesAssumption DEF DayOf

LEMMA OpenedTyped ==
    ASSUME TypeOK, NEW i \in DOMAIN opened
    PROVE  /\ opened[i].key \in Keys /\ opened[i].file \in Contents
           /\ Len(opened[i].file.rows) \in Nat
           /\ i \in 1..Len(opened) /\ Len(opened) \in Nat
<1> DEFINE T == [key : Keys, file : Contents]
<1>1. opened \in Seq(T)
  BY DEF TypeOK
<1> HIDE DEF T
<1>2. i \in 1..Len(opened) /\ Len(opened) \in Nat
  BY <1>1, LenProperties
<1>3. opened[i] \in T
  BY <1>1, <1>2, ElementOfSeq
<1>4. opened[i].file \in Contents /\ opened[i].key \in Keys
  BY <1>3 DEF T
<1>5. opened[i].file.rows \in Seq(Seq(Int))
  BY <1>4, ContentsAssumption
<1> QED
  BY <1>2, <1>4, <1>5, LenProperties

\* Between files there is none under way, and none before the discovery is over.
Opening ==
    /\ pc \in {"start", "list"} => opened = <<>> /\ out = <<>>
    /\ pc = "rows" => opened # <<>>

LEMMA TypeStarts == Init => TypeOK /\ Opening
  BY KeysAssumption, BucketsAssumption, RequestsAssumption, SizesAssumption
     DEF Init, TypeOK, Opening

LEMMA DiscoveryTyped ==
    ASSUME TypeOK, Opening, Begin \/ NextPage \/ EndOfDay \/ EndOfList
    PROVE  TypeOK' /\ Opening'
<1>1. UNCHANGED <<source, request, reading>> /\ found' \subseteq Keys
  BY DEF Begin, NextPage, EndOfDay, EndOfList, Hits, Page, Remaining, listing, TypeOK
<1>2. request.from \in Nat /\ request.to \in Nat
  BY RequestsAssumption DEF TypeOK
<1>3. FirstDay \in Nat /\ LastDay \in Nat
  BY <1>2, DaysAreNumbers DEF FirstDay, LastDay
<1>4. day' \in Nat /\ marker' \in Keys \cup {0}
  BY <1>3 DEF Begin, NextPage, EndOfDay, EndOfList, Page, Remaining, TypeOK
<1>5. missing' \subseteq Nat
  <2>1. WantedDays \subseteq Nat
    BY <1>3 DEF WantedDays
  <2>2. missing \subseteq Nat /\ day \in Nat
    BY DEF TypeOK
  <2>3. missing' \subseteq missing \cup WantedDays \cup {day}
    BY DEF Begin, NextPage, EndOfDay, EndOfList
  <2> QED
    BY <2>1, <2>2, <2>3
<1>6. pc' \in {"list", "open", "failed"} /\ Opening'
  BY <1>1 DEF Begin, NextPage, EndOfDay, EndOfList, Opening, reading, TypeOK
<1> QED
  BY <1>1, <1>4, <1>5, <1>6 DEF TypeOK, source, reading

LEMMA OpeningTyped ==
    ASSUME TypeOK, Opening, NEW k \in Keys, SkipEmpty(k) \/ StartFile(k)
    PROVE  /\ TypeOK' /\ Opening'
           /\ opened' = Append(opened, [key |-> k, file |-> bucket[k]])
           /\ bucket[k] \in Contents
           /\ Len(opened') = Len(opened) + 1 /\ Len(opened) \in Nat
           /\ DOMAIN opened' = DOMAIN opened \cup {Len(opened')}
           /\ \A i \in DOMAIN opened : opened'[i] = opened[i] /\ i < Len(opened')
           /\ opened'[Len(opened')] = [key |-> k, file |-> bucket[k]]
<1> DEFINE e == [key |-> k, file |-> bucket[k]]
<1>1. opened' = Append(opened, e) /\ bucket[k] \in Contents
  BY DEF SkipEmpty, StartFile, Open, TypeOK
<1>2. e \in [key : Keys, file : Contents]
  BY <1>1
<1> HIDE DEF e
<1>3. /\ opened' \in Seq([key : Keys, file : Contents])
      /\ Len(opened') = Len(opened) + 1 /\ Len(opened) \in Nat
      /\ \A i \in 1..Len(opened) : opened'[i] = opened[i]
      /\ opened'[Len(opened) + 1] = e
  BY <1>1, <1>2, AppendProperties, LenProperties DEF TypeOK
<1>4. DOMAIN opened = 1..Len(opened) /\ DOMAIN opened' = 1..Len(opened')
  BY <1>3, LenProperties DEF TypeOK
<1>5. out' \in Seq(Positions)
  <2>1. <<<<Len(opened'), 0>>>> \in Seq(Positions)
    BY <1>3 DEF Positions
  <2>2. out' \in {out, <<<<Len(opened'), 0>>>>}
    BY DEF SkipEmpty, StartFile
  <2> QED
    BY <2>1, <2>2 DEF TypeOK
<1>6. TypeOK'
  <2>1. UNCHANGED <<source, request, listing, stats>> /\ row' = 0
    BY DEF SkipEmpty, StartFile, Open
  <2>2. pc' \in {pc, "rows"}
    BY DEF SkipEmpty, StartFile
  <2> QED
    BY <1>3, <1>5, <2>1, <2>2 DEF TypeOK, source, listing
<1>7. Opening'
  BY <1>1, <1>3 DEF SkipEmpty, StartFile, Open, Opening
<1> QED
  BY <1>1, <1>3, <1>4, <1>6, <1>7 DEF e

Counters == [scanned : Nat, matched : Nat, bad : Nat, malformed : Nat]

\* The counters after a row that is written, and after one that is passed over.
Matched(s, n, m, b) == [s EXCEPT !.scanned = n, !.matched = m, !.bad = b]
PassedOver(s, n, m) == [s EXCEPT !.scanned = n, !.malformed = m]

LEMMA CounterFields ==
    ASSUME NEW s \in Counters, NEW n \in Nat, NEW m \in Nat, NEW b \in Nat
    PROVE  /\ LET t == Matched(s, n, m, b) IN
              /\ t \in Counters /\ t.scanned = n /\ t.matched = m /\ t.bad = b
              /\ t.malformed = s.malformed
           /\ LET t == PassedOver(s, n, m) IN
              /\ t \in Counters /\ t.scanned = n /\ t.malformed = m
              /\ t.matched = s.matched /\ t.bad = s.bad
<1>1. LET t == Matched(s, n, m, b) IN
         /\ t \in Counters /\ t.scanned = n /\ t.matched = m /\ t.bad = b
         /\ t.malformed = s.malformed
  BY DEF Counters, Matched
<1>2. LET t == PassedOver(s, n, m) IN
         /\ t \in Counters /\ t.scanned = n /\ t.malformed = m
         /\ t.matched = s.matched /\ t.bad = s.bad
  BY DEF Counters, PassedOver
<1> QED
  BY <1>1, <1>2

LEMMA RowCounted ==
    ASSUME TypeOK, NEW cells, Write(cells) \/ PassOver(cells)
    PROVE  /\ stats' \in Counters /\ stats'.scanned = stats.scanned + 1
           /\ Write(cells) =>
                  /\ stats'.matched = stats.matched + 1
                  /\ stats'.malformed = stats.malformed
                  /\ stats'.bad = IF NoTime(Current, cells) THEN stats.bad + 1 ELSE stats.bad
           /\ PassOver(cells) =>
                  /\ stats'.matched = stats.matched /\ stats'.bad = stats.bad
                  /\ stats'.malformed = IF Short(Current, cells) THEN stats.malformed + 1
                                                                ELSE stats.malformed
<1> DEFINE n == stats.scanned + 1
           m == stats.matched + 1
           b == IF NoTime(Current, cells) THEN stats.bad + 1 ELSE stats.bad
           s == IF Short(Current, cells) THEN stats.malformed + 1 ELSE stats.malformed
<1>1. stats \in Counters
  BY DEF TypeOK, Counters
<1>2. /\ stats.scanned \in Nat /\ stats.matched \in Nat
      /\ stats.bad \in Nat /\ stats.malformed \in Nat
  BY <1>1 DEF Counters
<1>3. n \in Nat /\ m \in Nat /\ b \in Nat /\ s \in Nat
  BY <1>2
<1>4. Write(cells) => stats' = Matched(stats, n, m, b)
  BY DEF Write, Matched
<1>5. PassOver(cells) => stats' = PassedOver(stats, n, s)
  BY DEF PassOver, PassedOver
<1>6. ~(Write(cells) /\ PassOver(cells))
  BY DEF Write, PassOver
<1> HIDE DEF n, m, b, s
<1>7. Write(cells) => /\ stats' \in Counters /\ stats'.scanned = n /\ stats'.matched = m
                      /\ stats'.bad = b /\ stats'.malformed = stats.malformed
  <2>1. LET t == Matched(stats, n, m, b) IN
           /\ t \in Counters /\ t.scanned = n /\ t.matched = m /\ t.bad = b
           /\ t.malformed = stats.malformed
    BY <1>1, <1>3, CounterFields
  <2> QED
    BY <1>4, <2>1
<1>8. PassOver(cells) => /\ stats' \in Counters /\ stats'.scanned = n
                         /\ stats'.malformed = s
                         /\ stats'.matched = stats.matched /\ stats'.bad = stats.bad
  BY <1>1, <1>3, <1>5, CounterFields
<1> QED
  BY <1>6, <1>7, <1>8 DEF n, m, b, s

LEMMA RowTyped ==
    ASSUME TypeOK, Opening, ReadRow
    PROVE  TypeOK' /\ Opening'
<1>1. Len(opened) \in Nat /\ row \in Nat /\ <<Len(opened), row + 1>> \in Positions
  BY LenProperties DEF TypeOK, Positions
<1>2. PICK cells : Write(cells) \/ PassOver(cells)
  BY DEF ReadRow
<1>3. out' \in Seq(Positions)
  <2>1. out' = out \/ out' = Append(out, <<Len(opened), row + 1>>)
    BY <1>2 DEF Write, PassOver
  <2>2. out \in Seq(Positions)
    BY DEF TypeOK
  <2>3. Append(out, <<Len(opened), row + 1>>) \in Seq(Positions)
    BY <1>1, <2>2, AppendProperties
  <2> QED
    BY <2>1, <2>2, <2>3
<1>4. stats' \in Counters
  BY <1>2, RowCounted
<1>5. /\ UNCHANGED <<source, request, pc, listing, opened>>
      /\ pc = "rows" /\ row' = row + 1
  BY DEF ReadRow
<1> QED
  BY <1>1, <1>3, <1>4, <1>5 DEF TypeOK, Opening, source, listing, Counters

LEMMA TypeKept == TypeOK /\ Opening /\ [Next]_vars => (TypeOK /\ Opening)'
<1> SUFFICES ASSUME TypeOK, Opening, [Next]_vars PROVE TypeOK' /\ Opening'
  OBVIOUS
<1>1. ASSUME NEW k \in Keys, Change(k) PROVE TypeOK' /\ Opening'
  <2>1. PICK c \in Contents \cup {None} : bucket' = [bucket EXCEPT ![k] = c]
    BY <1>1 DEF Change
  <2>2. bucket' \in [Keys -> Contents \cup {None}]
    BY <2>1 DEF TypeOK
  <2>3. steady' \subseteq Keys /\ changes' \in 0..MaxChanges
    BY <1>1, SizesAssumption DEF Change, TypeOK
  <2>4. UNCHANGED <<request, pc, listing, reading>>
    BY <1>1 DEF Change
  <2> QED
    BY <2>2, <2>3, <2>4 DEF TypeOK, Opening, listing, reading
<1>2. CASE \/ AccessFails \/ CloseFile \/ Finish \/ UNCHANGED vars
           \/ \E k \in Keys : OpenFails(k)
  BY <1>2 DEF AccessFails, CloseFile, Finish, OpenFails, TypeOK, Opening, vars,
     source, listing, reading
<1> QED
  BY <1>1, <1>2, DiscoveryTyped, OpeningTyped, RowTyped DEF Next, Step

-----------------------------------------------------------------------------
(* Discovery.                                                               *)

\* A page is an initial part of what remains.
LEMMA PageIsInitial ==
    ASSUME TypeOK, NEW m \in Page, NEW k \in Remaining, k <= m PROVE k \in Page
<1>1. (\A j \in Remaining : j \in Nat) /\ m \in Remaining
  BY KeysAssumption DEF Remaining, Page
<1> DEFINE Upto(n) == {j \in Remaining : j <= n}
<1>2. IsFiniteSet(1..m) /\ Upto(m) \subseteq 1..m
  <2>1. \A j \in Remaining : j \in Nat \ {0}
    BY KeysAssumption DEF Remaining
  <2>2. IsFiniteSet(1..m)
    BY <1>1, FS_Interval
  <2> QED
    BY <1>1, <2>1, <2>2
<1>3. IsFiniteSet(Upto(m)) /\ Cardinality(Upto(m)) \in Nat
  BY <1>2, FS_Subset, FS_CardinalityType
<1>4. Upto(k) \subseteq Upto(m)
  BY <1>1
<1>5. Cardinality(Upto(k)) <= Cardinality(Upto(m)) /\ Cardinality(Upto(k)) \in Nat
  BY <1>3, <1>4, FS_Subset, FS_CardinalityType
<1>6. Cardinality(Upto(m)) <= PageSize
  BY DEF Page
<1> QED
  BY <1>3, <1>5, <1>6, SizesAssumption DEF Page

LEMMA HitsAreWanted ==
    ASSUME TypeOK PROVE /\ Hits \subseteq Wanted
                        /\ request.mode = "template" => \A k \in Hits : Day[k] = day
  BY DEF Hits, Page, Remaining, InPrefix, Wanted

\* A wanted key that the marker has not passed and the page covers is a hit.
LEMMA CoveredIsHit ==
    ASSUME TypeOK, NEW k \in Wanted, bucket[k] # None, k > marker,
           request.mode = "template" => Day[k] = day,
           Page = Remaining \/ \E m \in Page : k <= m
    PROVE  k \in Hits
<1>1. k \in Remaining
  BY KeysAssumption DEF Wanted, Remaining, InPrefix, TypeOK
<1>2. k \in Page
  BY <1>1, PageIsInitial
<1> QED
  BY <1>2 DEF Hits, Wanted

LEMMA ListingStarts == Init => Listed
  BY KeysAssumption DEF Init, Listed, Listing

LEMMA ListedByPage == ASSUME TypeOK, Listed, NextPage PROVE Listed'
<1>1. /\ found' = found \cup Hits /\ marker' \in Page /\ \A k \in Page : k <= marker'
      /\ UNCHANGED <<source, request, pc, day, missing>> /\ Listing /\ pc = "list"
  BY DEF NextPage, Listing
<1>2. found' \subseteq Wanted'
  BY <1>1, HitsAreWanted DEF Listed, Wanted, WantedDays, FirstDay, LastDay
<1>3. ASSUME NEW k \in steady \cap Wanted, Behind(k)' PROVE k \in found'
  <2>1. k \in Nat /\ marker \in Nat /\ marker' \in Nat /\ bucket[k] # None
    BY <1>1, KeysAssumption DEF Wanted, Page, Remaining, Listed, TypeOK
  <2>2. CASE Behind(k)
    BY <1>1, <2>2 DEF Listed
  <2>3. CASE ~Behind(k)
    <3>1. k > marker /\ k <= marker' /\ (request.mode = "template" => Day[k] = day)
      BY <1>1, <1>3, <2>1, <2>3 DEF Behind
    <3>2. k \in Hits
      BY <1>1, <2>1, <3>1, CoveredIsHit
    <3> QED
      BY <1>1, <3>2
  <2> QED
    BY <2>2, <2>3
<1>4. request.mode = "template" => \A d \in FirstDay..(day - 1) :
         HasFile(d, found') <=> HasFile(d, found)
  <2> SUFFICES ASSUME request.mode = "template", NEW d \in FirstDay..(day - 1)
               PROVE  HasFile(d, found') <=> HasFile(d, found)
    OBVIOUS
  <2>1. d # day
    BY DEF TypeOK
  <2> QED
    BY <1>1, <2>1, HitsAreWanted DEF HasFile
<1> QED
  BY <1>1, <1>2, <1>3, <1>4
     DEF Listed, Listing, Wanted, WantedDays, FirstDay, LastDay, source, HasFile

LEMMA DaysTyped ==
    ASSUME TypeOK
    PROVE  FirstDay \in Nat /\ LastDay \in Nat /\ \A k \in Keys : Day[k] \in Nat
<1>1. request.from \in Nat /\ request.to \in Nat
  BY RequestsAssumption DEF TypeOK
<1> QED
  BY <1>1, DaysAreNumbers, KeysAssumption DEF FirstDay, LastDay

LEMMA ListedByDay == ASSUME TypeOK, Listed, EndOfDay PROVE Listed' /\ Complete'
<1>1. /\ found' = found \cup Hits /\ Page = Remaining /\ pc = "list" /\ Listing
      /\ marker' = 0 /\ day' = day + 1 /\ request.mode = "template"
      /\ UNCHANGED <<source, request>>
      /\ pc' = IF day = LastDay THEN "open" ELSE "list"
      /\ missing' = IF HasFile(day, found') THEN missing ELSE missing \cup {day}
  BY DEF EndOfDay, Listing
<1>2. FirstDay \in Nat /\ LastDay \in Nat /\ day \in WantedDays /\ day \in Nat
  BY <1>1, DaysTyped DEF Listed, TypeOK
<1>3. UNCHANGED <<Wanted, WantedDays, FirstDay, LastDay>>
  BY <1>1 DEF Wanted, WantedDays, FirstDay, LastDay
<1>4. found' \subseteq Wanted
  BY <1>1, HitsAreWanted DEF Listed
<1>5. ASSUME NEW k \in steady \cap Wanted, Day[k] <= day PROVE k \in found'
  <2>1. /\ k \in Nat /\ marker \in Nat /\ bucket[k] # None /\ Day[k] \in Nat
    BY <1>1, KeysAssumption DEF Wanted, Listed, TypeOK
  <2>2. CASE Behind(k)
    BY <1>1, <2>2 DEF Listed
  <2>3. CASE ~Behind(k)
    <3>1. k > marker /\ Day[k] = day
      BY <1>1, <1>2, <1>5, <2>1, <2>3 DEF Behind
    <3>2. k \in Hits
      BY <1>1, <2>1, <3>1, CoveredIsHit
    <3> QED
      BY <1>1, <3>2
  <2> QED
    BY <2>2, <2>3
<1>6. missing' = {d \in FirstDay..day : ~HasFile(d, found')}
  <2>1. missing = {d \in FirstDay..(day - 1) : ~HasFile(d, found)}
    BY <1>1 DEF Listed
  <2>2. \A d \in FirstDay..(day - 1) : HasFile(d, found') <=> HasFile(d, found)
    <3> SUFFICES ASSUME NEW d \in FirstDay..(day - 1)
                 PROVE  HasFile(d, found') <=> HasFile(d, found)
      OBVIOUS
    <3>1. d # day
      BY <1>2
    <3> QED
      BY <1>1, <3>1, HitsAreWanted DEF HasFile
  <2>3. FirstDay..day = (FirstDay..(day - 1)) \cup {day}
    BY <1>2 DEF WantedDays
  <2> HIDE DEF HasFile
  <2>4. missing' = IF HasFile(day, found') THEN missing ELSE missing \cup {day}
    BY <1>1
  <2>5. missing = {d \in FirstDay..(day - 1) : ~HasFile(d, found')}
    BY <2>1, <2>2
  <2>6. CASE HasFile(day, found')
    BY <2>3, <2>4, <2>5, <2>6
  <2>7. CASE ~HasFile(day, found')
    BY <2>3, <2>4, <2>5, <2>7
  <2> QED
    BY <2>6, <2>7
<1>7. CASE day = LastDay
  <2>1. \A k \in Wanted : Day[k] <= day
    BY <1>7, <1>2, DaysTyped DEF Wanted, WantedDays, TypeOK
  <2>2. pc' = "open" /\ steady' = steady
    BY <1>1, <1>7 DEF source
  <2>3. steady' \cap Wanted' \subseteq found'
    BY <1>3, <1>5, <2>1, <2>2
  <2>4. missing' = {d \in WantedDays' : ~HasFile(d, found')}
    BY <1>3, <1>6, <1>7 DEF WantedDays
  <2> QED
    BY <1>3, <1>4, <2>2, <2>3, <2>4
       DEF Listed, Listing, Complete, SteadyFilesFound, MissingDaysTrue, Discovered
<1>8. CASE day # LastDay
  <2>1. pc' = "list" /\ steady' = steady /\ bucket' = bucket
    BY <1>1, <1>8 DEF source
  <2>2. day' \in WantedDays'
    BY <1>1, <1>2, <1>3, <1>8 DEF WantedDays
  <2>3. ASSUME NEW k \in steady \cap Wanted, Behind(k)' PROVE k \in found'
    <3>1. k \in Nat \ {0} /\ Day[k] \in Nat
      BY KeysAssumption DEF Wanted, TypeOK
    <3>2. Day[k] <= day
      BY <1>1, <1>2, <2>3, <3>1 DEF Behind
    <3> QED
      BY <1>5, <3>2
  <2>4. day' - 1 = day
    BY <1>1, <1>2
  <2>5. missing' = {d \in FirstDay'..(day' - 1) : ~HasFile(d, found')}
    BY <1>3, <1>6, <2>4
  <2>6. \A k \in steady' : bucket'[k] # None
    BY <1>1, <2>1 DEF Listed
  <2> QED
    BY <1>3, <1>4, <2>1, <2>2, <2>3, <2>5, <2>6
       DEF Listed, Listing, Complete, SteadyFilesFound, MissingDaysTrue, Discovered
<1> QED
  BY <1>7, <1>8

LEMMA ListedAtEnd == ASSUME TypeOK, Listed, EndOfList PROVE Listed' /\ Complete'
<1>1. /\ found' = found \cup Hits /\ Page = Remaining /\ pc = "list" /\ Listing
      /\ request.mode = "list" /\ UNCHANGED <<source, request, marker>> /\ pc' = "open"
      /\ missing' = {d \in WantedDays : ~HasFile(d, found')}
  BY DEF EndOfList, Listing
<1>2. UNCHANGED <<Wanted, WantedDays, FirstDay, LastDay>>
  BY <1>1 DEF Wanted, WantedDays, FirstDay, LastDay
<1>3. found' \subseteq Wanted
  BY <1>1, HitsAreWanted DEF Listed
<1>4. ASSUME NEW k \in steady \cap Wanted PROVE k \in found'
  <2>1. k \in Nat /\ marker \in Nat /\ bucket[k] # None
    BY <1>1, KeysAssumption DEF Wanted, Listed, TypeOK
  <2>2. CASE k <= marker
    BY <1>1, <2>2 DEF Listed, Behind
  <2>3. CASE k > marker
    BY <1>1, <2>1, <2>3, CoveredIsHit
  <2> QED
    BY <2>1, <2>2, <2>3
<1> QED
  BY <1>1, <1>2, <1>3, <1>4
     DEF Listed, Listing, Complete, SteadyFilesFound, MissingDaysTrue, Discovered, source,
         WantedDays, HasFile

\* What the client removes leaves the steady files, while there is a listing.
LEMMA ListedByChange ==
    ASSUME TypeOK, Listed, Complete, NEW k \in Keys, Change(k) PROVE Listed' /\ Complete'
<1>1. UNCHANGED <<request, pc, listing>> /\ steady' \subseteq steady
  BY DEF Change
<1>2. UNCHANGED <<Wanted, WantedDays, FirstDay, LastDay>>
  BY <1>1 DEF Wanted, WantedDays, FirstDay, LastDay
<1>3. pc \in {"start", "list"} => \A j \in steady' : bucket'[j] # None
  BY DEF Change, Listed, TypeOK
<1> QED
  BY <1>1, <1>2, <1>3
     DEF Listed, Listing, Behind, Complete, SteadyFilesFound, MissingDaysTrue, Discovered,
         listing

\* The listing starts on the first day, before every key.
LEMMA ListedByBegin == ASSUME TypeOK, Listed, Begin PROVE Listed' /\ Complete'
<1>1. /\ UNCHANGED <<source, request, marker, found, missing>>
      /\ pc = "start" /\ pc' \in {"list", "failed"}
      /\ pc' = "list" => day' = FirstDay /\ request.from <= request.to
  BY RequestsAssumption DEF Begin, TypeOK
<1>2. UNCHANGED <<Wanted, WantedDays, FirstDay, LastDay>>
  BY <1>1 DEF Wanted, WantedDays, FirstDay, LastDay
<1>3. marker = 0 /\ found = {} /\ missing = {} /\ \A k \in steady : bucket[k] # None
  BY <1>1 DEF Listed
<1>4. FirstDay \in Nat /\ LastDay \in Nat /\ \A k \in Keys : Day[k] \in Nat
  BY DaysTyped
<1>5. CASE pc' = "failed"
  BY <1>1, <1>2, <1>3, <1>5
     DEF Listed, Listing, Complete, SteadyFilesFound, MissingDaysTrue, Discovered
<1>6. CASE pc' = "list"
  <2>1. FirstDay <= LastDay
    <3>1. request.from \in Nat /\ request.to \in Nat /\ DayLength \in Nat \ {0}
      BY RequestsAssumption, SizesAssumption DEF TypeOK
    <3> QED
      BY <1>1, <1>6, <3>1 DEF FirstDay, LastDay, DayOf
  <2>2. ASSUME NEW k \in steady \cap Wanted PROVE ~Behind(k)'
    <3>1. k \in Nat \ {0} /\ Day[k] \in WantedDays /\ Day[k] \in Nat
      BY <1>4, KeysAssumption DEF Wanted, TypeOK
    <3> QED
      BY <1>1, <1>2, <1>3, <1>4, <1>6, <3>1 DEF Behind, WantedDays
  <2>3. day' \in WantedDays' /\ FirstDay'..(day' - 1) = {}
    BY <1>1, <1>2, <1>4, <1>6, <2>1 DEF WantedDays
  <2>4. missing' = {d \in FirstDay'..(day' - 1) : ~HasFile(d, found')}
    BY <1>1, <1>3, <2>3
  <2> QED
    BY <1>1, <1>2, <1>3, <1>6, <2>2, <2>3, <2>4
       DEF Listed, Listing, Complete, SteadyFilesFound, MissingDaysTrue, Discovered, source
<1> QED
  BY <1>1, <1>5, <1>6

LEMMA ListingKept ==
    TypeOK /\ Listed /\ Complete /\ [Next]_vars => (Listed /\ Complete)'
<1> SUFFICES ASSUME TypeOK, Listed, Complete, [Next]_vars PROVE Listed' /\ Complete'
  OBVIOUS
<1>1. ASSUME UNCHANGED <<source, request, listing>>,
             pc' = pc \/ pc' = "failed" \/ (Discovered /\ Discovered')
      PROVE  Listed' /\ Complete'
  <2>1. UNCHANGED <<Wanted, WantedDays, FirstDay, LastDay>>
    BY <1>1 DEF Wanted, WantedDays, FirstDay, LastDay
  <2> QED
    BY <1>1, <2>1
       DEF Listed, Listing, Behind, Complete, SteadyFilesFound, MissingDaysTrue,
           Discovered, source, listing
<1>2. ASSUME NEW k \in Keys, OpenFails(k) \/ SkipEmpty(k) \/ StartFile(k)
      PROVE  Listed' /\ Complete'
  BY <1>1, <1>2 DEF OpenFails, SkipEmpty, StartFile, Open, Discovered
<1>3. CASE ReadRow \/ CloseFile \/ Finish \/ AccessFails \/ UNCHANGED vars
  BY <1>1, <1>3 DEF ReadRow, CloseFile, Finish, AccessFails, Discovered, vars
<1>4. CASE NextPage
  <2>1. ~Discovered'
    BY <1>4 DEF NextPage, Discovered
  <2> QED
    BY <1>4, <2>1, ListedByPage DEF Complete, SteadyFilesFound, MissingDaysTrue
<1> QED
  BY <1>2, <1>3, <1>4, ListedByBegin, ListedByDay, ListedAtEnd, ListedByChange DEF Next, Step

-----------------------------------------------------------------------------
(* Reading.                                                                 *)

ReadInOrder ==
    /\ \A i \in DOMAIN opened : opened[i].key \in found
    /\ \A i \in DOMAIN opened : \A k \in Unread : Before(opened[i].key, k)
    /\ \A i, j \in DOMAIN opened : i < j => Before(opened[i].key, opened[j].key)
    /\ opened # <<>> => row <= Len(Current.rows)
    /\ pc \in {"open", "done"} /\ opened # <<>> => row = Len(Current.rows)
    /\ pc = "done" => Unread = {}

\* The rows of the files before the current one are all handled.
LEMMA HandledIs ==
    ASSUME TypeOK
    PROVE  /\ \A p : p \in Handled <=>
                  \E i \in DOMAIN opened : \E r \in 1..RowsHandled(i) : p = <<i, r>>
           /\ \A i \in DOMAIN opened : RowsHandled(i) \in Nat /\ i \in 1..Len(opened)
           /\ Len(opened) \in Nat
<1>1. \A p : p \in Handled <=>
          \E i \in DOMAIN opened : \E r \in 1..RowsHandled(i) : p = <<i, r>>
  BY DEF Handled
<1>2. Len(opened) \in Nat /\ DOMAIN opened = 1..Len(opened)
  BY LenProperties DEF TypeOK
<1>3. ASSUME NEW i \in DOMAIN opened PROVE RowsHandled(i) \in Nat
  BY OpenedTyped DEF RowsHandled, TypeOK
<1> QED
  BY <1>1, <1>2, <1>3

LEMMA OrderStarts == Init => ReadInOrder
  BY DEF Init, ReadInOrder, Unread

LEMMA OrderByOpening ==
    ASSUME TypeOK, Opening, ReadInOrder, NEW k \in Keys, SkipEmpty(k) \/ StartFile(k)
    PROVE  ReadInOrder'
<1> DEFINE n == Len(opened')
<1>1. /\ DOMAIN opened' = DOMAIN opened \cup {n} /\ opened'[n].key = k
      /\ opened'[n].file = bucket[k] /\ bucket[k] \in Contents
      /\ \A i \in DOMAIN opened : opened'[i] = opened[i] /\ i < n
      /\ n \in Nat
  <2>1. opened'[n] = [key |-> k, file |-> bucket[k]]
    BY OpeningTyped
  <2>2. opened'[n].key = k /\ opened'[n].file = bucket[k]
    BY <2>1
  <2>3. /\ DOMAIN opened' = DOMAIN opened \cup {n} /\ bucket[k] \in Contents
        /\ \A i \in DOMAIN opened : opened'[i] = opened[i] /\ i < n
        /\ n = Len(opened) + 1 /\ Len(opened) \in Nat
    BY OpeningTyped
  <2> QED
    BY <2>2, <2>3
<1> HIDE DEF n
<1>2. /\ k \in Unread /\ found' = found /\ row' = 0
      /\ \A j \in Unread : j = k \/ Before(k, j)
      /\ pc' \in {"open", "rows"}
  BY DEF SkipEmpty, StartFile, Open, IsNext, listing
<1>3. Unread' = Unread \ {k}
  BY <1>1, <1>2 DEF Unread
<1>4. pc' = "open" => Len(Current'.rows) = 0
  <2>1. Current' = opened'[n].file
    BY DEF Current, n
  <2>2. pc' = "open" => bucket[k].header = None
    BY DEF SkipEmpty, StartFile
  <2>3. pc' = "open" => Current'.rows = <<>>
    BY <1>1, <2>1, <2>2, ContentsAssumption
  <2> QED
    BY <2>3, EmptySeq
<1>8. Len(Current'.rows) >= 0
  <2>1. Current' = bucket[k]
    BY <1>1 DEF Current, n
  <2>2. bucket[k].rows \in Seq(Seq(Int))
    BY <1>1, ContentsAssumption
  <2> QED
    BY <2>1, <2>2, LenProperties
<1>5. \A i \in DOMAIN opened' : opened'[i].key \in found'
  BY <1>1, <1>2 DEF ReadInOrder, Unread
<1>6. \A i \in DOMAIN opened' : \A j \in Unread' : Before(opened'[i].key, j)
  BY <1>1, <1>2, <1>3 DEF ReadInOrder
<1>7. ASSUME NEW i \in DOMAIN opened', NEW j \in DOMAIN opened', i < j
      PROVE  Before(opened'[i].key, opened'[j].key)
  <2>1. i \in DOMAIN opened
    <3>1. j \in Nat /\ j <= n
      BY <1>1, HandledIs
    <3> QED
      BY <1>1, <1>7, <3>1
  <2>2. CASE j \in DOMAIN opened
    BY <1>1, <1>7, <2>1, <2>2 DEF ReadInOrder
  <2>3. CASE j = n
    BY <1>1, <1>2, <2>1, <2>3 DEF ReadInOrder
  <2> QED
    BY <1>1, <2>2, <2>3
<1> QED
  BY <1>2, <1>4, <1>5, <1>6, <1>7, <1>8 DEF ReadInOrder

LEMMA OrderKept ==
    TypeOK /\ Opening /\ ReadInOrder /\ [Next]_vars => ReadInOrder'
<1> SUFFICES ASSUME TypeOK, Opening, ReadInOrder, [Next]_vars PROVE ReadInOrder'
  OBVIOUS
<1>1. ASSUME NEW k \in Keys, Change(k) PROVE ReadInOrder'
  BY <1>1 DEF Change, ReadInOrder, Unread, Before, Current, listing, reading
<1>2. CASE Begin \/ NextPage \/ EndOfDay \/ EndOfList
  <2>1. opened = <<>> /\ opened' = opened /\ pc' # "done"
    BY <1>2 DEF Begin, NextPage, EndOfDay, EndOfList, Opening, reading
  <2> QED
    BY <2>1 DEF ReadInOrder
<1>3. CASE \/ AccessFails \/ CloseFile \/ Finish \/ UNCHANGED vars
           \/ \E k \in Keys : OpenFails(k)
  BY <1>3 DEF AccessFails, CloseFile, Finish, OpenFails, ReadInOrder, Unread, Before,
     Current, vars, listing, reading
<1>4. CASE ReadRow
  <2>1. /\ opened' = opened /\ found' = found /\ Current' = Current
        /\ row' = row + 1 /\ row < Len(Current.rows) /\ pc' = "rows" /\ opened # <<>>
        /\ row \in Nat
    BY <1>4 DEF ReadRow, listing, Current, Opening, TypeOK
  <2>2. Len(Current.rows) \in Nat
    <3>1. Len(opened) \in DOMAIN opened
      BY <2>1, EmptySeq, LenProperties DEF TypeOK
    <3> QED
      BY <3>1, OpenedTyped DEF Current
  <2>3. row' <= Len(Current'.rows)
    BY <2>1, <2>2
  <2> QED
    BY <2>1, <2>3 DEF ReadInOrder, Unread, Before
<1> QED
  BY <1>1, <1>2, <1>3, <1>4, OrderByOpening DEF Next, Step

LEMMA OrderIsEnough ==
    ASSUME TypeOK, ReadInOrder PROVE NothingLeftOut
<1> SUFFICES ASSUME pc = "done"
             PROVE  /\ {opened[i].key : i \in DOMAIN opened} = found
                    /\ \A i \in DOMAIN opened : RowsHandled(i) = Len(opened[i].file.rows)
  BY DEF NothingLeftOut, ReadInOrder
<1>1. {opened[i].key : i \in DOMAIN opened} = found
  BY DEF ReadInOrder, Unread
<1>2. opened # <<>> => row = Len(Current.rows)
  BY DEF ReadInOrder
<1> QED
  BY <1>1, <1>2 DEF RowsHandled, Current

-----------------------------------------------------------------------------
(* The output.                                                              *)

\* The rows in the output, without the header.
Lines == {out[n] : n \in 2..Len(out)}

Qualifying == {p \in Handled : Qualifies(File(p), Cells(p))}

Written ==
    /\ OutputExact
    /\ out # <<>> => /\ out[1][1] \in DOMAIN opened
                     /\ opened[out[1][1]].file.header # None
    /\ pc = "rows" => out # <<>>

\* Opening a file handles no row, and leaves what is known of the others.
LEMMA OpeningHandles ==
    ASSUME TypeOK, Opening, ReadInOrder, NEW k \in Keys, SkipEmpty(k) \/ StartFile(k)
    PROVE  /\ Handled' = Handled
           /\ \A p \in Handled : /\ File(p)' = File(p) /\ Cells(p)' = Cells(p)
                                 /\ p[1] < Len(opened')
<1> DEFINE n == Len(opened')
           After(i) == IF i = n THEN row' ELSE Len(opened'[i].file.rows)
<1>1. /\ DOMAIN opened' = DOMAIN opened \cup {n} /\ n = Len(opened) + 1
      /\ \A i \in DOMAIN opened : opened'[i] = opened[i] /\ i < n
      /\ Len(opened) \in Nat
  BY OpeningTyped
<1>2. row' = 0 /\ pc = "open" /\ After(n) = 0
  BY DEF SkipEmpty, StartFile, Open
<1>3. ASSUME NEW i \in DOMAIN opened PROVE After(i) = RowsHandled(i)
  <2>1. i \in 1..Len(opened)
    BY OpenedTyped
  <2>2. After(i) = Len(opened[i].file.rows)
    BY <1>1, <2>1
  <2>3. opened # <<>>
    BY <1>1, <2>1, EmptySeq
  <2>4. i = Len(opened) => row = Len(opened[i].file.rows)
    BY <1>2, <2>3 DEF ReadInOrder, Current
  <2> QED
    BY <2>2, <2>4 DEF RowsHandled
<1>4. Handled' = UNION {{i} \X (1..After(i)) : i \in DOMAIN opened'}
  BY DEF Handled, RowsHandled
<1> HIDE DEF n, After
<1>5. \A p : p \in Handled' <=> \E i \in DOMAIN opened' : \E r \in 1..After(i) : p = <<i, r>>
  BY <1>4
<1>6. \A p : p \in Handled' <=> p \in Handled
  BY <1>1, <1>2, <1>3, <1>5, HandledIs
<1>7. ASSUME NEW p \in Handled
      PROVE  File(p)' = File(p) /\ Cells(p)' = Cells(p) /\ p[1] < n
  <2>1. p[1] \in DOMAIN opened
    BY HandledIs
  <2> QED
    BY <1>1, <2>1 DEF File, Cells
<1>8. Handled' \subseteq Handled /\ Handled \subseteq Handled'
  BY <1>6
<1> QED
  BY <1>7, <1>8 DEF n

\* A step of the reading handles one row more.
LEMMA ReadingHandles ==
    ASSUME TypeOK, Opening, ReadRow
    PROVE  LET p == <<Len(opened), row + 1>> IN
           /\ Handled' = Handled \cup {p} /\ p \notin Handled
           /\ File(p) = Current /\ Cells(p) = Current.rows[row + 1]
           /\ \A q \in Handled : Earlier(q, p)
           /\ \A q : File(q)' = File(q) /\ Cells(q)' = Cells(q)
           /\ Len(opened) \in DOMAIN opened
<1> DEFINE n == Len(opened)
           p == <<n, row + 1>>
           After(i) == IF i = n THEN row + 1 ELSE Len(opened[i].file.rows)
<1>1. opened' = opened /\ row' = row + 1 /\ row \in Nat /\ opened # <<>>
  BY DEF ReadRow, TypeOK, Opening
<1>2. n \in DOMAIN opened /\ n \in Nat
  BY <1>1, EmptySeq, LenProperties DEF TypeOK
<1>3. RowsHandled(n) = row
  BY DEF RowsHandled
<1>4. Handled' = UNION {{i} \X (1..After(i)) : i \in DOMAIN opened}
  BY <1>1 DEF Handled, RowsHandled
<1>5. \A q : q \in Handled => q[1] \in DOMAIN opened /\ q[2] \in 1..RowsHandled(q[1])
                              /\ q[1] \in 1..n
  BY HandledIs
<1>6. ASSUME NEW i \in DOMAIN opened, NEW r
      PROVE  r \in 1..After(i) <=> r \in 1..RowsHandled(i) \/ (i = n /\ r = row + 1)
  <2>1. CASE i = n
    BY <1>1, <1>3, <2>1
  <2>2. CASE i # n
    BY <2>2 DEF RowsHandled
  <2> QED
    BY <2>1, <2>2
<1>7. \A q : q \in Handled' <=> \E i \in DOMAIN opened : \E r \in 1..After(i) : q = <<i, r>>
  BY <1>4
<1>8. Handled' = Handled \cup {p}
  <2> HIDE DEF p, After, n
  <2>2. \A q : q \in Handled' <=> q \in Handled \/ q = p
    BY <1>2, <1>6, <1>7, HandledIs DEF p
  <2> QED
    BY <2>2
<1>9. p \notin Handled /\ \A q \in Handled : Earlier(q, p)
  BY <1>1, <1>2, <1>3, <1>5 DEF Earlier
<1>10. File(p) = Current /\ Cells(p) = Current.rows[row + 1]
  BY DEF File, Cells, Current
<1>11. \A q : File(q)' = File(q) /\ Cells(q)' = Cells(q)
  BY <1>1 DEF File, Cells
<1> QED
  BY <1>2, <1>8, <1>9, <1>10, <1>11

\* What is written is what the policy says.
LEMMA KeptQualifies ==
    ASSUME NEW f, NEW cells PROVE Kept(f, cells) <=> Qualifies(f, cells)
  BY DEF Kept, Qualifies, Short, CodeMatches, DestinationMatches, TimeMatches, NoTime

LEMMA WrittenByOpening ==
    ASSUME TypeOK, Opening, ReadInOrder, Written, NEW k \in Keys,
           SkipEmpty(k) \/ StartFile(k)
    PROVE  Written'
<1> DEFINE n == Len(opened')
<1>1. request' = request /\ pc' \in {"open", "rows"}
  BY DEF SkipEmpty, StartFile, Open
<1>2. \A f, cells : Qualifies(f, cells)' <=> Qualifies(f, cells)
  BY <1>1 DEF Qualifies
<1>3. Qualifying' = Qualifying
  BY <1>2, OpeningHandles DEF Qualifying
<1>4. n \in DOMAIN opened' /\ \A i \in DOMAIN opened : opened'[i] = opened[i] /\ i \in DOMAIN opened'
  BY OpeningTyped
<1>5. CASE out' = out /\ (out # <<>> \/ SkipEmpty(k))
  <2>1. OutputExact'
    BY <1>3, <1>5 DEF Written, OutputExact, Qualifying, Earlier
  <2>2. pc' = "rows" => out' # <<>>
    BY <1>5 DEF SkipEmpty, Open
  <2> QED
    BY <1>4, <1>5, <2>1, <2>2 DEF Written
<1>6. CASE StartFile(k) /\ out = <<>>
  <2>1. out' = <<<<n, 0>>>> /\ bucket[k].header # None
    BY <1>6 DEF StartFile
  <2>2. Len(out') = 1 /\ DOMAIN out' = {1} /\ out'[1] = <<n, 0>> /\ out' # <<>>
    BY <2>1
  <2>3. Qualifying = {}
    <3>1. Len(out) = 0
      BY <1>6
    <3> QED
      BY <3>1 DEF Written, OutputExact, Qualifying
  <2>4. OutputExact'
    BY <1>3, <2>2, <2>3 DEF OutputExact, Qualifying
  <2>5. opened'[n].file.header # None
    <3>1. opened'[n] = [key |-> k, file |-> bucket[k]]
      BY OpeningTyped
    <3> QED
      BY <2>1, <3>1
  <2> QED
    BY <1>4, <2>2, <2>4, <2>5 DEF Written
<1> QED
  BY <1>5, <1>6 DEF SkipEmpty, StartFile

LEMMA WrittenByRow ==
    ASSUME TypeOK, Opening, Written, ReadRow
    PROVE  Written'
<1> DEFINE p == <<Len(opened), row + 1>>
<1>1. /\ Handled' = Handled \cup {p} /\ p \notin Handled
      /\ File(p) = Current /\ Cells(p) = Current.rows[row + 1]
      /\ \A q \in Handled : Earlier(q, p)
      /\ \A q : File(q)' = File(q) /\ Cells(q)' = Cells(q)
  BY ReadingHandles
<1>2. request' = request /\ opened' = opened /\ pc' = "rows" /\ out # <<>>
      /\ row \in Nat
  BY DEF ReadRow, Written, TypeOK
<1>3. \A f, cells : Qualifies(f, cells)' <=> Qualifies(f, cells)
  BY <1>2 DEF Qualifies
<1>4. Qualifying' = IF Kept(Current, Current.rows[row + 1])
                    THEN Qualifying \cup {p} ELSE Qualifying
  BY <1>1, <1>3, KeptQualifies DEF Qualifying
<1>5. p \in Positions /\ p[2] # 0
  BY <1>2, HandledIs DEF Positions
<1>6. /\ Lines = Qualifying /\ \A n \in DOMAIN out : out[n][2] = 0 <=> n = 1
      /\ \A m, n \in DOMAIN out : m < n => Earlier(out[m], out[n])
      /\ out[1][1] \in DOMAIN opened /\ opened[out[1][1]].file.header # None
  BY <1>2 DEF Written, OutputExact, Lines, Qualifying
<1>7. /\ Len(out) \in Nat \ {0} /\ DOMAIN out = 1..Len(out)
  BY <1>2, EmptySeq, LenProperties DEF TypeOK
<1> HIDE DEF p
<1>8. CASE PassOver(Current.rows[row + 1])
  BY <1>2, <1>4, <1>6, <1>8 DEF PassOver, Written, OutputExact, Lines, Qualifying, Earlier
<1>9. CASE Write(Current.rows[row + 1])
  <2>1. out' = Append(out, p) /\ Qualifying' = Qualifying \cup {p}
    BY <1>4, <1>9 DEF Write, p
  <2>2. /\ Len(out') = Len(out) + 1 /\ DOMAIN out' = 1..(Len(out) + 1)
        /\ \A i \in 1..Len(out) : out'[i] = out[i]
        /\ out'[Len(out) + 1] = p
    BY <1>5, <2>1, AppendProperties, LenProperties DEF TypeOK
  <2>3. Lines' = Lines \cup {p}
    <3>1. 2..Len(out') = (2..Len(out)) \cup {Len(out) + 1}
      BY <1>7, <2>2
    <3> QED
      BY <1>7, <2>2, <3>1 DEF Lines
  <2>4. \A n \in DOMAIN out' : out'[n][2] = 0 <=> n = 1
    BY <1>5, <1>6, <1>7, <2>2
  <2>5. \A m \in 1..Len(out) : Earlier(out[m], p)
    <3> SUFFICES ASSUME NEW m \in 1..Len(out) PROVE Earlier(out[m], p)
      OBVIOUS
    <3>1. CASE m = 1
      <4>1. out[1][1] \in 1..Len(opened) /\ out[1][2] = 0
        BY <1>6, <1>7, OpenedTyped
      <4> QED
        BY <1>2, <3>1, <4>1, HandledIs DEF Earlier, p
    <3>2. CASE m # 1
      <4>1. out[m] \in Handled
        BY <1>6, <3>2 DEF Lines, Qualifying
      <4> QED
        BY <1>1, <4>1 DEF p
    <3> QED
      BY <3>1, <3>2
  <2>6. ASSUME NEW m \in DOMAIN out', NEW n \in DOMAIN out', m < n
        PROVE  Earlier(out'[m], out'[n])
    <3>1. m \in 1..Len(out)
      BY <1>7, <2>2, <2>6
    <3>2. CASE n \in 1..Len(out)
      BY <1>6, <1>7, <2>2, <2>6, <3>1, <3>2
    <3>3. CASE n = Len(out) + 1
      BY <2>2, <2>5, <3>1, <3>3
    <3> QED
      BY <1>7, <2>2, <3>2, <3>3
  <2>7. OutputExact'
    <3>1. Lines' = Qualifying'
      BY <1>6, <2>1, <2>3
    <3>2. \A m, n \in DOMAIN out' : m < n => Earlier(out'[m], out'[n])
      BY <2>6
    <3> QED
      BY <2>4, <3>1, <3>2 DEF OutputExact, Lines, Qualifying, Earlier
  <2>8. out'[1] = out[1] /\ out' # <<>>
    BY <1>7, <2>2
  <2> QED
    BY <1>2, <1>6, <2>7, <2>8 DEF Written
<1> QED
  BY <1>8, <1>9 DEF ReadRow

LEMMA WrittenStarts == Init => Written
<1> SUFFICES ASSUME Init PROVE Written
  OBVIOUS
<1>1. out = <<>> /\ opened = <<>> /\ pc = "start"
  BY DEF Init
<1>2. Handled = {}
  BY <1>1 DEF Handled
<1>3. Len(out) = 0 /\ DOMAIN out = {}
  BY <1>1
<1>4. OutputExact
  BY <1>2, <1>3 DEF OutputExact
<1> QED
  BY <1>1, <1>4 DEF Written

\* Without a step of the reading nothing is handled and nothing changes.
LEMMA NothingHandled ==
    ASSUME UNCHANGED <<request, reading>>
    PROVE  /\ Handled' = Handled
           /\ \A q : File(q)' = File(q) /\ Cells(q)' = Cells(q)
           /\ \A f, cells : Qualifies(f, cells)' <=> Qualifies(f, cells)
  BY DEF Handled, RowsHandled, File, Cells, Qualifies, reading

LEMMA OtherSteps ==
    ASSUME [Next]_vars
    PROVE  \/ UNCHANGED <<request, reading>> /\ (pc' = "rows" => pc = "rows")
           \/ \E k \in Keys : SkipEmpty(k) \/ StartFile(k)
           \/ ReadRow
  BY DEF Next, Step, Begin, NextPage, EndOfDay, EndOfList, Change, OpenFails, CloseFile, Finish,
     AccessFails, vars

LEMMA WrittenKept ==
    TypeOK /\ Opening /\ ReadInOrder /\ Written /\ [Next]_vars => Written'
<1> SUFFICES ASSUME TypeOK, Opening, ReadInOrder, Written, [Next]_vars PROVE Written'
  OBVIOUS
<1>1. CASE UNCHANGED <<request, reading>> /\ (pc' = "rows" => pc = "rows")
  <2>1. OutputExact'
    BY <1>1, NothingHandled DEF Written, OutputExact, Earlier, reading
  <2> QED
    BY <1>1, <2>1 DEF Written, reading
<1> QED
  BY <1>1, OtherSteps, WrittenByOpening, WrittenByRow

-----------------------------------------------------------------------------
(* The figures.                                                             *)

BadTimes == {p \in Qualifying : NoTime(File(p), Cells(p))}
ShortRows == {p \in Handled : Short(File(p), Cells(p))}

Counted == IsFiniteSet(Handled) /\ StatsTrue

LEMMA CountedByRow ==
    ASSUME TypeOK, Opening, Counted, ReadRow PROVE Counted'
<1> DEFINE p == <<Len(opened), row + 1>>
           cells == Current.rows[row + 1]
           Figures == /\ stats.matched = Cardinality(Qualifying)
                      /\ stats.bad = Cardinality(BadTimes)
                      /\ stats.malformed = Cardinality(ShortRows)
<1>1. /\ Handled' = Handled \cup {p} /\ p \notin Handled
      /\ File(p) = Current /\ Cells(p) = cells
      /\ \A q : File(q)' = File(q) /\ Cells(q)' = Cells(q)
  BY ReadingHandles
<1>2. request' = request /\ (Write(cells) \/ PassOver(cells))
  BY DEF ReadRow
<1>3. \A f, c : /\ Qualifies(f, c)' <=> Qualifies(f, c)
                /\ NoTime(f, c)' <=> NoTime(f, c)
                /\ Short(f, c)' <=> Short(f, c)
  BY <1>2 DEF Qualifies, NoTime, Short
<1> HIDE DEF p, cells
<1>4. Qualifying' = IF Kept(Current, cells) THEN Qualifying \cup {p} ELSE Qualifying
  BY <1>1, <1>3, KeptQualifies DEF Qualifying
<1>5. BadTimes' = IF Kept(Current, cells) /\ NoTime(Current, cells)
                  THEN BadTimes \cup {p} ELSE BadTimes
  <2>1. BadTimes' = {q \in Qualifying' : NoTime(File(q), Cells(q))}
    BY <1>1, <1>3 DEF BadTimes
  <2>2. CASE Kept(Current, cells)
    <3>1. Qualifying' = Qualifying \cup {p}
      BY <1>4, <2>2
    <3> QED
      BY <1>1, <2>1, <2>2, <3>1 DEF BadTimes
  <2>3. CASE ~Kept(Current, cells)
    BY <1>4, <2>1, <2>3 DEF BadTimes
  <2> QED
    BY <2>2, <2>3
<1>6. ShortRows' = IF Short(Current, cells) THEN ShortRows \cup {p} ELSE ShortRows
  BY <1>1, <1>3 DEF ShortRows
<1>7. /\ IsFiniteSet(Handled) /\ IsFiniteSet(Qualifying) /\ IsFiniteSet(BadTimes)
      /\ IsFiniteSet(ShortRows)
      /\ p \notin Qualifying /\ p \notin BadTimes /\ p \notin ShortRows
  <2>1. /\ Qualifying \in SUBSET Handled /\ BadTimes \in SUBSET Handled
        /\ ShortRows \in SUBSET Handled
    BY DEF Qualifying, BadTimes, ShortRows
  <2>2. IsFiniteSet(Handled)
    BY DEF Counted
  <2> QED
    BY <1>1, <2>1, <2>2, FS_Subset
<1>8. /\ stats.scanned = Cardinality(Handled)
      /\ stats.matched = Cardinality(Qualifying)
      /\ stats.bad = Cardinality(BadTimes)
      /\ stats.malformed = Cardinality(ShortRows)
  <2>1. BadTimes = {q \in Handled : Qualifies(File(q), Cells(q)) /\ NoTime(File(q), Cells(q))}
    BY DEF BadTimes, Qualifying
  <2> QED
    BY <2>1 DEF Counted, StatsTrue, Qualifying, ShortRows
<1>9. stats'.scanned = Cardinality(Handled') /\ IsFiniteSet(Handled')
  BY <1>1, <1>2, <1>7, <1>8, RowCounted, FS_AddElement
<1>10. ASSUME Write(cells) PROVE Figures'
  <2>1. Kept(Current, cells) /\ ~Short(Current, cells)
    BY <1>10 DEF Write, Kept
  <2>2. /\ Cardinality(Qualifying') = Cardinality(Qualifying) + 1
        /\ Cardinality(ShortRows') = Cardinality(ShortRows)
    BY <1>4, <1>6, <1>7, <2>1, FS_AddElement
  <2>3. Cardinality(BadTimes') = IF NoTime(Current, cells) THEN Cardinality(BadTimes) + 1
                                                           ELSE Cardinality(BadTimes)
    BY <1>5, <1>7, <2>1, FS_AddElement
  <2> QED
    BY <1>8, <1>10, <2>2, <2>3, RowCounted
<1>11. ASSUME PassOver(cells) PROVE Figures'
  <2>1. ~Kept(Current, cells)
    BY <1>11 DEF PassOver
  <2>2. /\ Cardinality(Qualifying') = Cardinality(Qualifying)
        /\ Cardinality(BadTimes') = Cardinality(BadTimes)
    BY <1>4, <1>5, <2>1
  <2>3. Cardinality(ShortRows') = IF Short(Current, cells) THEN Cardinality(ShortRows) + 1
                                                           ELSE Cardinality(ShortRows)
    BY <1>6, <1>7, FS_AddElement
  <2> QED
    BY <1>8, <1>11, <2>2, <2>3, RowCounted
<1>12. (IsFiniteSet(Handled) /\ stats.scanned = Cardinality(Handled) /\ Figures => Counted)'
  <2>1. BadTimes' = {q \in Handled' : Qualifies(File(q), Cells(q))' /\ NoTime(File(q), Cells(q))'}
    BY DEF BadTimes, Qualifying
  <2> QED
    BY <2>1 DEF Counted, StatsTrue, Qualifying, ShortRows
<1> QED
  BY <1>2, <1>9, <1>10, <1>11, <1>12

LEMMA CountedByOpening ==
    ASSUME TypeOK, Opening, ReadInOrder, Counted, NEW k \in Keys,
           SkipEmpty(k) \/ StartFile(k)
    PROVE  Counted'
<1>1. request' = request /\ stats' = stats
  BY DEF SkipEmpty, StartFile, Open
<1>2. \A f, c : /\ Qualifies(f, c)' <=> Qualifies(f, c)
                /\ NoTime(f, c)' <=> NoTime(f, c)
                /\ Short(f, c)' <=> Short(f, c)
  BY <1>1 DEF Qualifies, NoTime, Short
<1>3. Handled' = Handled /\ \A p \in Handled : File(p)' = File(p) /\ Cells(p)' = Cells(p)
  BY OpeningHandles
<1> DEFINE Q == {p \in Handled : Qualifies(File(p), Cells(p))}
           B == {p \in Handled : Qualifies(File(p), Cells(p)) /\ NoTime(File(p), Cells(p))}
           M == {p \in Handled : Short(File(p), Cells(p))}
<1>4. Q' = Q /\ B' = B /\ M' = M
  BY <1>2, <1>3
<1> QED
  BY <1>1, <1>3, <1>4 DEF Counted, StatsTrue

LEMMA CountedKept ==
    TypeOK /\ Opening /\ ReadInOrder /\ Counted /\ [Next]_vars => Counted'
<1> SUFFICES ASSUME TypeOK, Opening, ReadInOrder, Counted, [Next]_vars PROVE Counted'
  OBVIOUS
<1>1. CASE UNCHANGED <<request, reading>>
  <2>1. \A f, c : /\ Qualifies(f, c)' <=> Qualifies(f, c)
                  /\ NoTime(f, c)' <=> NoTime(f, c)
                  /\ Short(f, c)' <=> Short(f, c)
    BY <1>1 DEF Qualifies, NoTime, Short
  <2> QED
    BY <1>1, <2>1, NothingHandled DEF Counted, StatsTrue, reading
<1> QED
  BY <1>1, OtherSteps, CountedByOpening, CountedByRow

LEMMA CountedStarts == Init => Counted
<1> SUFFICES ASSUME Init PROVE Counted
  OBVIOUS
<1>1. Handled = {}
  BY DEF Init, Handled
<1>2. IsFiniteSet({}) /\ Cardinality({}) = 0
  BY FS_EmptySet
<1>3. stats = [scanned |-> 0, matched |-> 0, bad |-> 0, malformed |-> 0]
  BY DEF Init
<1>4. /\ stats.scanned = 0 /\ stats.matched = 0 /\ stats.bad = 0 /\ stats.malformed = 0
  BY <1>3
<1> QED
  BY <1>1, <1>2, <1>4 DEF Counted, StatsTrue

-----------------------------------------------------------------------------
(* The theorems.                                                            *)

LEMMA TypeAlways == Spec => [](TypeOK /\ Opening)
  BY TypeStarts, TypeKept, PTL DEF Spec

\* Every variable keeps its type under every step of the job and the client.
THEOREM ExtractionTypeCorrect == Spec => []TypeOK
  BY TypeAlways, PTL

LEMMA ListingAlways == Spec => [](Listed /\ Complete)
<1>1. Init => Complete
  BY DEF Init, Complete, SteadyFilesFound, MissingDaysTrue, Discovered
<1> QED
  BY <1>1, ListingStarts, ListingKept, TypeAlways, PTL DEF Spec

\* Discovery finds every file that was there all along, whatever else the client
\* adds or removes between two pages (_discover_template, _discover_list), for any
\* page size and any bucket.
THEOREM SteadyFilesAreFound == Spec => []SteadyFilesFound
  BY ListingAlways, PTL DEF Complete

\* The missing days that the report shows its owner are those without a file
\* among the ones that are read (DiscoveryResult.missing_dates).
THEOREM MissingDaysAreTrue == Spec => []MissingDaysTrue
  BY ListingAlways, PTL DEF Complete

LEMMA OrderAlways == Spec => [](TypeOK /\ Opening /\ ReadInOrder)
  BY TypeAlways, OrderStarts, OrderKept, PTL DEF Spec

\* A successful extraction has read every file found, in order and to its end,
\* for any files and any changes of the client in between (run_extraction).
THEOREM NothingIsLeftOut == Spec => []NothingLeftOut
  BY OrderAlways, OrderIsEnough, PTL

LEMMA WrittenAlways == Spec => [](TypeOK /\ ReadInOrder /\ Written)
  BY OrderAlways, WrittenStarts, WrittenKept, PTL DEF Spec

\* The combined CSV holds one header and exactly the rows that qualify, in order,
\* whatever columns the files have (run_extraction's inner loop).
THEOREM OutputIsExact == Spec => []OutputExact
<1>1. Written => OutputExact
  BY DEF Written
<1> QED
  BY <1>1, WrittenAlways, PTL

\* The figures of the report count what was read, kept, kept without a time and
\* too short (ExtractionStats).
THEOREM StatsAreTrue == Spec => []StatsTrue
<1>1. Counted => StatsTrue
  BY DEF Counted
<1> QED
  BY <1>1, OrderAlways, CountedStarts, CountedKept, PTL DEF Spec

-----------------------------------------------------------------------------
(* Progress: what ExtractionEnds needs besides fairness.                    *)

\* Whatever the client does, the discovery and the loop over the files have a
\* next step: an answer that is not the last one of its listing has a last key
\* to go on from, among files still to be read one comes first, and a file that
\* is being read has a row left or is at its end.
CanGoOn ==
    /\ Listing => Page = Remaining \/ \E m \in Page : \A k \in Page : k <= m
    /\ pc = "open" => Unread = {} \/ \E k \in Unread : IsNext(k)
    /\ pc = "rows" => opened # <<>> /\ row <= Len(Current.rows)

\* While it lists, every step asks for a later day or page; while it reads, every
\* step takes an unread file off the list or handles one more row: no page is
\* asked for twice, no file read twice.  Only the client may step in between,
\* MaxChanges times.
Forward ==
    \/ changes' > changes
    \/ /\ Listing /\ Listing' => day' > day \/ (day' = day /\ marker' > marker)
       /\ pc = "open" /\ pc' \in {"open", "rows"} =>
              \E k \in Unread : Unread' = Unread \ {k} /\ opened'[Len(opened')].key = k
       /\ pc = "rows" => Unread' = Unread
       /\ pc = "rows" /\ pc' = "rows" => row' = row + 1

LEMMA LeastOf ==
    ASSUME NEW S \in SUBSET Nat, S # {} PROVE \E m \in S : \A k \in S : m <= k
<1> DEFINE R == OpToRel(<, Nat)
<1>1. IsWellFoundedOn(R, Nat)
  BY NatLessThanWellFounded
<1>2. \A x, y \in Nat : <<x, y>> \in R <=> x < y
  BY DEF OpToRel
<1> HIDE DEF R
<1>3. PICK m \in S : \A k \in S : ~ (<<k, m>> \in R)
  <2>1. S \subseteq Nat
    OBVIOUS
  <2> QED
    BY <1>1, <2>1, WFMin
<1>4. ASSUME NEW k \in S PROVE m <= k
  <2>1. ~ (<<k, m>> \in R) /\ k \in Nat /\ m \in Nat
    BY <1>3
  <2> QED
    BY <1>2, <2>1
<1> QED
  BY <1>4

\* ListObjectsV2's answer has a last key: it is not empty, since PageSize is
\* positive, and what it leaves out lies behind it.
LEMMA PageHasLast ==
    ASSUME TypeOK, Page # Remaining
    PROVE  \E m \in Page : \A k \in Page : k <= m
<1>1. Page \subseteq Remaining /\ Remaining \subseteq Nat \ {0}
  BY KeysAssumption DEF Page, Remaining
<1>2. PICK b \in Remaining : b \notin Page
  BY <1>1
<1>3. PICK f \in Remaining : \A k \in Remaining : f <= k
  BY <1>1, <1>2, LeastOf
<1>4. f \in Page
  <2>1. {j \in Remaining : j <= f} = {f}
    <3>1. \A j \in Remaining : j <= f => j = f
      BY <1>1, <1>3
    <3>2. f <= f
      BY <1>1, <1>3
    <3> QED
      BY <1>3, <3>1, <3>2
  <2>2. Cardinality({f}) = 1
    BY FS_Singleton
  <2> QED
    BY <2>1, <2>2, SizesAssumption DEF Page
<1>5. \A k \in Page : k < b /\ k \in Nat /\ b \in Nat
  BY <1>1, <1>2, PageIsInitial
<1> DEFINE Distances == {b - k : k \in Page}
<1>6. Distances \subseteq Nat /\ Distances # {}
  BY <1>4, <1>5
<1>7. PICK d \in Distances : \A e \in Distances : d <= e
  <2> HIDE DEF Distances
  <2> QED
    BY <1>6, LeastOf
<1>8. PICK m \in Page : d = b - m
  BY <1>7
<1>9. ASSUME NEW k \in Page PROVE k <= m
  <2>1. b - m <= b - k
    BY <1>7, <1>8
  <2> QED
    BY <1>5, <2>1
<1> QED
  BY <1>9

\* Of the files still to be read, one is of the earliest day and first by key.
LEMMA NextExists ==
    ASSUME TypeOK, Unread # {} PROVE \E k \in Unread : IsNext(k)
<1>1. Unread \subseteq Keys /\ Unread \subseteq Nat
  BY KeysAssumption DEF Unread, TypeOK
<1> DEFINE Days == {Day[k] : k \in Unread}
<1>2. Days \subseteq Nat /\ Days # {}
  BY <1>1, DaysTyped
<1>3. PICK d \in Days : \A e \in Days : d <= e
  <2> HIDE DEF Days
  <2> QED
    BY <1>2, LeastOf
<1> DEFINE OfDay == {k \in Unread : Day[k] = d}
<1>4. OfDay \subseteq Nat /\ OfDay # {}
  BY <1>1, <1>3
<1>5. PICK k \in OfDay : \A j \in OfDay : k <= j
  <2> HIDE DEF OfDay
  <2> QED
    BY <1>4, LeastOf
<1>6. ASSUME NEW j \in Unread PROVE j = k \/ Before(k, j)
  <2>1. d <= Day[j] /\ d = Day[k] /\ d \in Nat /\ Day[j] \in Nat
    BY <1>2, <1>3, <1>5
  <2>2. Day[j] = d => k <= j
    BY <1>5
  <2>3. j \in Nat /\ k \in Nat
    BY <1>1, <1>5
  <2> QED
    BY <2>1, <2>2, <2>3 DEF Before
<1> QED
  BY <1>5, <1>6 DEF IsNext

\* The worker is never left without a next step, whatever the bucket does.
THEOREM ExtractionCanGoOn == Spec => []CanGoOn
<1>1. TypeOK /\ Opening /\ ReadInOrder => CanGoOn
  BY PageHasLast, NextExists DEF CanGoOn, Opening, ReadInOrder
<1> QED
  BY <1>1, OrderAlways, PTL

\* Discovery and reading only go forward: with CanGoOn, all that ExtractionEnds
\* still asks for is that the worker is scheduled and the bucket is finite.
THEOREM ExtractionGoesForward == Spec => [][Forward]_vars
<1>1. TypeOK /\ Opening /\ ReadInOrder /\ [Next]_vars => [Forward]_vars
  <2> SUFFICES ASSUME TypeOK, Opening, ReadInOrder, Next PROVE Forward
    BY DEF vars
  <2>1. ASSUME NEW k \in Keys, SkipEmpty(k) \/ StartFile(k) PROVE Forward
    <3>1. /\ UNCHANGED <<day, marker, found>> /\ k \in Unread
          /\ pc = "open" /\ pc' \in {"open", "rows"}
      BY <2>1 DEF SkipEmpty, StartFile, Open, IsNext, listing
    <3> DEFINE n == Len(opened')
    <3>2. opened'[n] = [key |-> k, file |-> bucket[k]]
      BY <2>1, OpeningTyped
    <3>3. opened'[n].key = k
      BY <3>2
    <3>4. /\ DOMAIN opened' = DOMAIN opened \cup {n}
          /\ \A i \in DOMAIN opened : opened'[i] = opened[i]
      BY <2>1, OpeningTyped
    <3>5. Unread' = Unread \ {k}
      <4> HIDE DEF n
      <4> QED
        BY <3>1, <3>3, <3>4 DEF Unread
    <3> QED
      BY <3>1, <3>3, <3>5 DEF Forward, Listing
  <2>2. CASE NextPage
    <3>1. /\ marker' \in Page /\ Page \subseteq Remaining
          /\ \A k \in Remaining : k > marker
      BY <2>2 DEF NextPage, Page, Remaining
    <3>2. pc = "list" /\ day' = day
      BY <2>2 DEF NextPage
    <3> QED
      BY <3>1, <3>2 DEF Forward, Listing
  <2>3. CASE EndOfDay
    BY <2>3 DEF EndOfDay, Forward, Listing, TypeOK
  <2>4. CASE ReadRow \/ CloseFile
    BY <2>4 DEF ReadRow, CloseFile, Forward, Listing, Unread, listing, reading
  <2>5. ASSUME NEW k \in Keys, Change(k) PROVE Forward
    <3>1. changes' = changes + 1 /\ changes \in Nat
      BY <2>5 DEF Change, TypeOK
    <3> QED
      BY <3>1 DEF Forward
  <2>6. CASE Begin \/ EndOfList \/ Finish \/ \E k \in Keys : OpenFails(k)
    BY <2>6 DEF Begin, EndOfList, Finish, OpenFails, Forward, Listing
  <2>7. CASE AccessFails
    BY <2>7 DEF AccessFails, Forward, Listing, Unread, listing, reading
  <2> QED
    BY <2>1, <2>2, <2>3, <2>4, <2>5, <2>6, <2>7 DEF Next, Step
<1> QED
  BY <1>1, OrderAlways, PTL DEF Spec
=============================================================================
