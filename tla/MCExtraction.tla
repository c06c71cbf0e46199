--------------------------- MODULE MCExtraction ---------------------------
(* A small instance of Extraction for TLC.                                  *)
EXTENDS Extraction

\* In listing order: archive/daily_02.csv, daily_01.csv, daily_01-part2.csv,
\* daily_01_old.csv (not of the template's form), daily_02.csv.
MCKeys == 1..5
MCDay == <<2, 1, 1, 1, 2>>
MCMatching == {1, 2, 3, 5}
MCNested == {1}

Wide == [header |-> <<SC, TS, DEST>>,
         rows |-> <<<<1, 3, 7>>, <<1, -1, 8>>, <<1, 5, 7>>, <<>>>>]
Turned == [header |-> <<TS, SC>>, rows |-> <<<<4, 1>>, <<2, 2>>, <<4>>>>]
Timeless == [header |-> <<SC, DEST>>, rows |-> <<<<2, 7>>, <<1>>>>]
Plain == [header |-> <<SC, TS, DEST>>, rows |-> <<<<2, 2, 7>>, <<1, 4>>>>]
Foreign == [header |-> <<TS>>, rows |-> <<<<3>>>>]
Blank == [header |-> None, rows |-> <<>>]

MCContents == {Wide, Turned, Timeless, Plain, Foreign, Blank}

MCBuckets ==
    {<<None, None, None, None, None>>,
     <<Plain, Wide, None, Foreign, Plain>>,
     <<None, Blank, Wide, None, Turned>>,
     <<Plain, Timeless, Plain, Blank, None>>,
     <<None, Turned, None, None, Foreign>>}

\* Days are two ticks long: 2 and 3 make day 1, 4 and 5 day 2, 6 is day 3.
MCRequests ==
    [mode : {"template", "list"}, from : {2}, to : {4, 6}, codes : {{1}}, dests : {{}}]
    \cup [mode : {"template", "list"}, from : {3}, to : {4}, codes : {{1, 2}}, dests : {{7}}]
    \cup [mode : {"list"}, from : {4}, to : {3}, codes : {{1}}, dests : {{}}]
    \cup [mode : {"list"}, from : {2}, to : {3}, codes : {{}}, dests : {{}}]
=============================================================================
