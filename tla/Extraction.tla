----------------------------- MODULE Extraction -----------------------------
(***************************************************************************)
(* From the client's bucket to the combined CSV: the discovery of the daily *)
(* files (backend/app/services/s3_service.py) and the loop that filters     *)
(* their rows (backend/app/services/extraction_service.py), while the       *)
(* client goes on changing the bucket.                                      *)
(*                                                                         *)
(* A key is its rank in the bucket's listing order.  What its name says is  *)
(* in constants: the day, whether the whole name has the template's form,   *)
(* and whether it lies in a folder below the prefix.  A time is a number of *)
(* ticks, DayLength of them to a day; a cell is a number.                   *)
(***************************************************************************)
EXTENDS Integers, Sequences, FiniteSets

CONSTANTS
    Keys,        \* the keys the client uses, in listing order
    Day,         \* the day each name begins with
    Matching,    \* the keys whose whole name has the template's form
    Nested,      \* the keys in folders below the prefix
    Contents,    \* what a file can hold: [header, rows]; header None: nothing
    Buckets,     \* what the bucket can hold when the job starts
    Requests,    \* [mode, from, to, codes, dests]; mode is a setting
    PageSize,    \* keys in one answer of ListObjectsV2, 1000 in S3
    DayLength,   \* ticks in a day
    MaxChanges,  \* bound: changes the client makes meanwhile
    None         \* no object, no header

SC == "source_addr"
TS == "created_at"
DEST == "destination_addr"

ASSUME KeysAssumption ==
    /\ Keys \subseteq Nat \ {0}
    /\ Day \in [Keys -> Nat]
    /\ Matching \subseteq Keys /\ Nested \subseteq Keys
ASSUME BucketsAssumption ==
    /\ Buckets \subseteq [Keys -> Contents \cup {None}]
    /\ None \notin Contents
ASSUME ContentsAssumption ==
    \A f \in Contents : /\ f.rows \in Seq(Seq(Int))
                        /\ f.header # None => f.header \in Seq(STRING)
                        /\ f.header = None => f.rows = <<>>
ASSUME RequestsAssumption ==
    \A q \in Requests : q.from \in Nat /\ q.to \in Nat
ASSUME SizesAssumption ==
    PageSize \in Nat \ {0} /\ DayLength \in Nat \ {0} /\ MaxChanges \in Nat

VARIABLES
    bucket,      \* what each key holds
    changes,     \* how many changes the client has made
    steady       \* the keys that held a file from the start of the listing on

VARIABLES
    request,
    pc,          \* "start", "list", "open", "rows", "done", "failed"
    day,         \* the day being listed (template mode)
    marker,      \* the last key of the page before; 0: first page
    found,       \* DiscoveryResult.files
    missing      \* DiscoveryResult.missing_dates

VARIABLES
    opened,      \* the files read so far, the current one last: [key, file]
    row,         \* rows of the current file that are handled
    out,         \* the combined CSV: <<i, r>> is line r of opened[i], 0 its header
    stats        \* [scanned, matched, bad, malformed]

source == <<bucket, changes, steady>>
listing == <<day, marker, found, missing>>
reading == <<opened, row, out, stats>>
vars == <<source, request, pc, listing, reading>>

-----------------------------------------------------------------------------
(* Discovery.                                                               *)

DayOf(t) == t \div DayLength
FirstDay == DayOf(request.from)
LastDay == DayOf(request.to)
WantedDays == FirstDay..LastDay

\* The objects a list request asks for: in template mode those that begin
\* with the day's stem right under the prefix.
InPrefix(k) == request.mode = "template" => k \notin Nested /\ Day[k] = day

Remaining == {k \in Keys : bucket[k] # None /\ k > marker /\ InPrefix(k)}

Page == {k \in Remaining : Cardinality({j \in Remaining : j <= k}) <= PageSize}

\* The files of a page that the request is about.
Hits == {k \in Page \cap Matching : Day[k] \in WantedDays}

HasFile(d, files) == \E k \in files : Day[k] = d

\* The order in which the files are read.
Before(j, k) == Day[j] < Day[k] \/ (Day[j] = Day[k] /\ j < k)

-----------------------------------------------------------------------------
(* Rows.                                                                    *)

HasColumn(f, c) == \E i \in DOMAIN f.header : f.header[i] = c

Position(f, c) ==
    CHOOSE i \in DOMAIN f.header :
        f.header[i] = c /\ \A j \in 1..(i - 1) : f.header[j] # c

\* Does the row reach that column?
Reaches(f, cells, c) == Position(f, c) <= Len(cells)

Cell(f, cells, c) == cells[Position(f, c)]

Short(f, cells) == ~Reaches(f, cells, SC)

CodeMatches(f, cells) == Cell(f, cells, SC) \in request.codes

DestinationMatches(f, cells) ==
    request.dests # {} =>
        Reaches(f, cells, DEST) /\ Cell(f, cells, DEST) \in request.dests

\* A cell that is no timestamp is a negative number.
NoTime(f, cells) ==
    HasColumn(f, TS) /\ (Reaches(f, cells, TS) => Cell(f, cells, TS) < 0)

\* Mutant: the end of the range is excluded.
TimeMatchesBefore(f, cells) ==
    HasColumn(f, TS) /\ ~NoTime(f, cells) =>
        Cell(f, cells, TS) \in request.from..(request.to - 1)

TimeMatches(f, cells) ==
    HasColumn(f, TS) /\ ~NoTime(f, cells) =>
        Cell(f, cells, TS) \in request.from..request.to

\* The columns that the request needs are there.
Usable(f) == HasColumn(f, SC) /\ (request.dests # {} => HasColumn(f, DEST))

Current == opened[Len(opened)].file

-----------------------------------------------------------------------------

Init ==
    /\ request \in Requests
    /\ bucket \in Buckets
    /\ changes = 0
    /\ steady = {k \in Keys : bucket[k] # None}
    /\ pc = "start"
    /\ day = 0 /\ marker = 0
    /\ found = {} /\ missing = {}
    /\ opened = <<>> /\ row = 0 /\ out = <<>>
    /\ stats = [scanned |-> 0, matched |-> 0, bad |-> 0, malformed |-> 0]

\* The client adds, replaces or removes a file.
Change(k) ==
    /\ changes < MaxChanges
    /\ changes' = changes + 1
    /\ \E c \in Contents \cup {None} :
        /\ bucket' = [bucket EXCEPT ![k] = c]
        /\ steady' = IF c = None /\ pc \in {"start", "list"}
                     THEN steady \ {k} ELSE steady
    /\ UNCHANGED <<request, pc, listing, reading>>

\* run_extraction up to discover_files.
Begin ==
    /\ pc = "start"
    /\ IF request.codes = {} \/ request.from > request.to
       THEN pc' = "failed" /\ UNCHANGED day
       ELSE pc' = "list" /\ day' = FirstDay
    /\ UNCHANGED <<source, request, marker, found, missing, reading>>

\* Mutant: what follows the first page is not asked for.
NextPageNever ==
    /\ pc = "list"
    /\ Page # Remaining
    /\ found' = found \cup Hits
    /\ missing' = {d \in WantedDays : ~HasFile(d, found')}
    /\ pc' = "open"
    /\ UNCHANGED <<source, request, day, marker, reading>>

\* Mutant: the continuation token is not passed on.
NextPageAgain ==
    /\ pc = "list"
    /\ Page # Remaining
    /\ found' = found \cup Hits
    /\ UNCHANGED <<source, request, pc, day, marker, missing, reading>>

\* A page that is not the last one of its listing.
NextPage ==
    /\ pc = "list"
    /\ Page # Remaining
    /\ found' = found \cup Hits
    /\ marker' \in Page
    /\ \A k \in Page : k <= marker'
    /\ UNCHANGED <<source, request, pc, day, missing, reading>>

\* Mutant: any object with the day's stem makes the day present.
EndOfDayAnyObject ==
    /\ pc = "list"
    /\ request.mode = "template"
    /\ Page = Remaining
    /\ found' = found \cup Hits
    /\ missing' = IF Remaining # {} THEN missing ELSE missing \cup {day}
    /\ marker' = 0
    /\ day' = day + 1
    /\ pc' = IF day = LastDay THEN "open" ELSE "list"
    /\ UNCHANGED <<source, request, reading>>

\* The last page of a day's listing (template mode).
EndOfDay ==
    /\ pc = "list"
    /\ request.mode = "template"
    /\ Page = Remaining
    /\ found' = found \cup Hits
    /\ missing' = IF HasFile(day, found') THEN missing ELSE missing \cup {day}
    /\ marker' = 0
    /\ day' = day + 1
    /\ pc' = IF day = LastDay THEN "open" ELSE "list"
    /\ UNCHANGED <<source, request, reading>>

\* The last page of the one listing (list mode).
EndOfList ==
    /\ pc = "list"
    /\ request.mode = "list"
    /\ Page = Remaining
    /\ found' = found \cup Hits
    /\ missing' = {d \in WantedDays : ~HasFile(d, found')}
    /\ pc' = "open"
    /\ UNCHANGED <<source, request, day, marker, reading>>

\* S3 answers a request for a page or an object with an error, or breaks off.
AccessFails ==
    /\ pc \in {"list", "open", "rows"}
    /\ pc' = "failed"
    /\ UNCHANGED <<source, request, listing, reading>>

-----------------------------------------------------------------------------

Unread == found \ {opened[i].key : i \in DOMAIN opened}

\* The next file in the order of result.files.
IsNext(k) == k \in Unread /\ \A j \in Unread : j = k \/ Before(k, j)

\* Mutant: a file that cannot be used ends the reading, not the run.
OpenFailsQuietly(k) ==
    /\ pc = "open"
    /\ IsNext(k)
    /\ bucket[k] # None => bucket[k].header # None /\ ~Usable(bucket[k])
    /\ pc' = "done"
    /\ UNCHANGED <<source, request, listing, reading>>

\* An object that is gone, or lacks a column: the whole extraction fails.
OpenFails(k) ==
    /\ pc = "open"
    /\ IsNext(k)
    /\ bucket[k] # None => bucket[k].header # None /\ ~Usable(bucket[k])
    /\ pc' = "failed"
    /\ UNCHANGED <<source, request, listing, reading>>

Open(k) ==
    /\ pc = "open"
    /\ IsNext(k)
    /\ bucket[k] # None
    /\ opened' = Append(opened, [key |-> k, file |-> bucket[k]])
    /\ row' = 0
    /\ UNCHANGED <<source, request, listing, stats>>

SkipEmpty(k) ==
    /\ Open(k)
    /\ bucket[k].header = None
    /\ UNCHANGED <<pc, out>>

StartFile(k) ==
    /\ Open(k)
    /\ bucket[k].header # None
    /\ Usable(bucket[k])
    /\ pc' = "rows"
    /\ out' = IF out = <<>> THEN <<<<Len(opened'), 0>>>> ELSE out

Kept(f, cells) ==
    /\ ~Short(f, cells)
    /\ CodeMatches(f, cells)
    /\ DestinationMatches(f, cells)
    /\ TimeMatches(f, cells)

Write(cells) ==
    /\ Kept(Current, cells)
    /\ out' = Append(out, <<Len(opened), row + 1>>)
    /\ stats' = [stats EXCEPT
                    !.scanned = @ + 1,
                    !.matched = @ + 1,
                    !.bad = IF NoTime(Current, cells) THEN @ + 1 ELSE @]

\* Mutant: a row that is passed over is not counted as scanned.
PassOverUncounted(cells) ==
    /\ ~Kept(Current, cells)
    /\ stats' = [stats EXCEPT !.malformed = IF Short(Current, cells) THEN @ + 1 ELSE @]
    /\ UNCHANGED out

PassOver(cells) ==
    /\ ~Kept(Current, cells)
    /\ stats' = [stats EXCEPT
                    !.scanned = @ + 1,
                    !.malformed = IF Short(Current, cells) THEN @ + 1 ELSE @]
    /\ UNCHANGED out

ReadRow ==
    /\ pc = "rows"
    /\ row < Len(Current.rows)
    /\ Write(Current.rows[row + 1]) \/ PassOver(Current.rows[row + 1])
    /\ row' = row + 1
    /\ UNCHANGED <<source, request, pc, listing, opened>>

CloseFile ==
    /\ pc = "rows"
    /\ row = Len(Current.rows)
    /\ pc' = "open"
    /\ UNCHANGED <<source, request, listing, reading>>

Finish ==
    /\ pc = "open"
    /\ Unread = {}
    /\ pc' = "done"
    /\ UNCHANGED <<source, request, listing, reading>>

Step ==
    \/ Begin \/ NextPage \/ EndOfDay \/ EndOfList
    \/ \E k \in Keys : OpenFails(k) \/ SkipEmpty(k) \/ StartFile(k)
    \/ ReadRow \/ CloseFile \/ Finish

Next == Step \/ AccessFails \/ \E k \in Keys : Change(k)

Spec == Init /\ [][Next]_vars

\* The worker runs on: every request to S3 is answered or times out.
FairSpec == Spec /\ WF_vars(Step)

-----------------------------------------------------------------------------
(* Properties.                                                              *)

Positions == Nat \X Nat

TypeOK ==
    /\ request \in Requests
    /\ bucket \in [Keys -> Contents \cup {None}]
    /\ changes \in 0..MaxChanges
    /\ steady \subseteq Keys
    /\ pc \in {"start", "list", "open", "rows", "done", "failed"}
    /\ day \in Nat /\ marker \in Keys \cup {0}
    /\ found \subseteq Keys /\ missing \subseteq Nat
    /\ opened \in Seq([key : Keys, file : Contents])
    /\ row \in Nat
    /\ out \in Seq(Positions)
    /\ stats \in [scanned : Nat, matched : Nat, bad : Nat, malformed : Nat]

Discovered == pc \in {"open", "rows", "done"}

\* The keys a discovery is to find: in the requested days, of the template's
\* form, and, in template mode, right under the prefix.
Wanted ==
    {k \in Matching : /\ Day[k] \in WantedDays
                      /\ request.mode = "template" => k \notin Nested}

\* Whatever the client uploads or removes between two pages or two days'
\* listings, a file that was there all along is found (s3_service.py,
\* discover_files), and nothing outside the request is.
SteadyFilesFound ==
    Discovered => steady \cap Wanted \subseteq found /\ found \subseteq Wanted

\* The days reported as missing are the requested days without a file: a day
\* is never both missing and read, nor neither.
MissingDaysTrue ==
    Discovered => missing = {d \in WantedDays : ~HasFile(d, found)}

\* The agreed policy: shortcode, destination, and a time in the range or none.
Qualifies(f, cells) ==
    /\ Reaches(f, cells, SC) /\ Cell(f, cells, SC) \in request.codes
    /\ \/ request.dests = {}
       \/ Reaches(f, cells, DEST) /\ Cell(f, cells, DEST) \in request.dests
    /\ HasColumn(f, TS) /\ Reaches(f, cells, TS) =>
          \/ Cell(f, cells, TS) < 0
          \/ Cell(f, cells, TS) \in request.from..request.to

File(p) == opened[p[1]].file
Cells(p) == File(p).rows[p[2]]

\* The rows handled so far, as positions in the input.
RowsHandled(i) == IF i = Len(opened) THEN row ELSE Len(opened[i].file.rows)
Handled == UNION {{i} \X (1..RowsHandled(i)) : i \in DOMAIN opened}

Earlier(p, q) == p[1] < q[1] \/ (p[1] = q[1] /\ p[2] < q[2])

\* The header is written once and first, and after it come exactly the rows
\* that qualify, each once, in the order of files and lines (run_extraction).
OutputExact ==
    /\ {out[n] : n \in 2..Len(out)} = {p \in Handled : Qualifies(File(p), Cells(p))}
    /\ \A n \in DOMAIN out : out[n][2] = 0 <=> n = 1
    /\ \A m, n \in DOMAIN out : m < n => Earlier(out[m], out[n])

\* The figures that the report shows its owner (ExtractionStats) are what they
\* say, counted over the rows that were read.
StatsTrue ==
    /\ stats.scanned = Cardinality(Handled)
    /\ stats.matched = Cardinality({p \in Handled : Qualifies(File(p), Cells(p))})
    /\ stats.bad = Cardinality({p \in Handled : Qualifies(File(p), Cells(p))
                                                /\ NoTime(File(p), Cells(p))})
    /\ stats.malformed = Cardinality({p \in Handled : Short(File(p), Cells(p))})

\* An extraction that succeeds has read every file that was found, by date and
\* key, to its end: a file that is gone or useless fails it (get_object_stream).
NothingLeftOut ==
    pc = "done" =>
        /\ {opened[i].key : i \in DOMAIN opened} = found
        /\ \A i, j \in DOMAIN opened : i < j => Before(opened[i].key, opened[j].key)
        /\ \A i \in DOMAIN opened : RowsHandled(i) = Len(opened[i].file.rows)

\* What the extraction says of its output, and does not hold: that the combined
\* CSV preserves the original columns.  A row's values stand, under the header
\* at the top, in the columns they had in its own file (extraction_service.py).
ColumnsPreserved ==
    \A n \in DOMAIN out : \A i \in DOMAIN File(out[n]).header :
        /\ i \in DOMAIN File(out[1]).header
        /\ File(out[1]).header[i] = File(out[n]).header[i]

\* Whatever the client does meanwhile, the extraction comes to an end.
ExtractionEnds == <>(pc \in {"done", "failed"})
=============================================================================
