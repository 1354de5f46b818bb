---------------------------- MODULE ReadmeUpdate ----------------------------
(***************************************************************************)
(* src/scripts/update_readme_performance.py, run as CI runs it, with      *)
(* --output naming the README it reads, once per benchmark job.           *)
(*                                                                         *)
(* A README is a sequence of segments: START and END are the lines        *)
(* <!-- PERFORMANCE_METRICS_START --> and <!-- PERFORMANCE_METRICS_END -->, *)
(* TEXT any other text, and a natural number v the generated metrics      *)
(* table showing throughput v.  The table contains neither marker.         *)
(* The table also carries the UTC date of the run that wrote it (line 66), *)
(* so a table segment is Table(v, d) for throughput v and day d.          *)
(***************************************************************************)
EXTENDS BenchmarkData, FiniteSets

CONSTANTS
    Readmes,      \* the READMEs the repository may hold
    Datas,        \* the documents directory/baseline.json may hold, or NoData
    NoData,       \* model value: the file does not exist
    MaxRuns,      \* runs of the updater explored
    MaxDays       \* UTC days the runs are spread over

ASSUME MaxRuns \in Nat \ {0} /\ MaxDays \in Nat \ {0}

VARIABLES
    readme,       \* the README file
    data,         \* the benchmark document (fixed)
    warned,       \* the last run printed the missing-markers warning
    runs,
    first,        \* history: the README after the first run
    orig,         \* history: the README before any run
    day,          \* today's UTC date, as a day number
    firstDay      \* history: the day of the first run

vars == <<readme, data, warned, runs, first, orig, day, firstDay>>

START == -1
END   == -2
TEXT  == -3

\* The metrics table for throughput v written on day d, and the
\* throughput a table shows.
Table(v, d) == v * MaxDays + d
TableThroughput(t) == t \div MaxDays

\* Mutant: the generated section without its closing marker.
Block_no_end(v, d) == <<START, Table(v, d)>>

\* The text update_readme substitutes for each match (lines 62-77): the
\* markers around the table with metrics['date'] and the throughput.
Block(v, d) == <<START, Table(v, d), END>>

\* Position of the first x in s at or after position from, 0 if none.
FindFrom(s, x, from) == SelectInSubSeq(s, from, Len(s), LAMBDA y : y = x)

\* Mutant: a greedy .* in place of .*?, so a match runs to the LAST end marker.
SubMarkers_greedy(s, v, d) ==
    LET i == FindFrom(s, START, 1)
        j == IF i = 0 THEN 0 ELSE SelectLastInSeq(s, LAMBDA y : y = END)
    IN  IF i = 0 \/ j < i THEN s
        ELSE SubSeq(s, 1, i - 1) \o Block(v, d) \o SubSeq(s, j + 1, Len(s))

\* pattern.sub(new_metrics, content) for START.*?END with DOTALL (lines
\* 80-82): each leftmost start marker with an end marker after it, up to
\* the first such end marker, is replaced; the scan resumes after it.
RECURSIVE SubMarkers(_, _, _)
SubMarkers(s, v, d) ==
    LET i == FindFrom(s, START, 1)
        j == IF i = 0 THEN 0 ELSE FindFrom(s, END, i + 1)
    IN  IF i = 0 \/ j = 0 THEN s
        ELSE SubSeq(s, 1, i - 1) \o Block(v, d) \o SubMarkers(SubSeq(s, j + 1, Len(s)), v, d)

\* update_readme (lines 50-88): substitute when both markers occur
\* anywhere in the text, else warn and return the text unchanged.
update_readme(s, v, d) ==
    IF Contains(s, START) /\ Contains(s, END)
    THEN [text |-> SubMarkers(s, v, d), warn |-> FALSE]
    ELSE [text |-> s, warn |-> TRUE]

Init ==
    /\ readme \in Readmes
    /\ data \in Datas
    /\ warned = FALSE
    /\ runs = 0
    /\ first = readme
    /\ orig = readme
    /\ day = 0
    /\ firstDay = 0

\* main() (lines 90-118): without benchmark data return before touching
\* the README; otherwise extract the metrics with today's date, update,
\* and write --output.
Run ==
    /\ runs < MaxRuns
    /\ IF data = NoData
       THEN UNCHANGED <<readme, warned, first>>
       ELSE LET r == update_readme(readme, extract_metrics(data).throughput, day)
            IN  /\ readme' = r.text
                /\ warned' = r.warn
                /\ first' = IF runs = 0 THEN r.text ELSE first
    /\ firstDay' = IF runs = 0 THEN day ELSE firstDay
    /\ runs' = runs + 1
    /\ UNCHANGED <<data, orig, day>>

\* The UTC date moves on between runs.
NextDay ==
    /\ day < MaxDays - 1
    /\ day' = day + 1
    /\ UNCHANGED <<readme, data, warned, runs, first, orig, firstDay>>

Next == Run \/ NextDay

Spec == Init /\ [][Next]_vars

-----------------------------------------------------------------------------

\* The README with the date of every metrics table left out.
Undated(s) == [p \in DOMAIN s |-> IF s[p] >= 0 THEN TableThroughput(s[p]) ELSE s[p]]

\* Running the updater again with the same benchmark data changes nothing
\* on the day of the first run, and on a later day nothing but the dates
\* of the tables: the generated section carries both markers, so the next
\* run finds and replaces exactly it.
UpdateIdempotent ==
    runs >= 1 =>
        /\ Undated(readme) = Undated(first)
        /\ day = firstDay => readme = first

\* Reference definition of a metrics section: position p lies inside one
\* when a start marker precedes it and an end marker follows it with no
\* end marker in between.
Inside(s, p) ==
    \E i \in 1..(p - 1), j \in (p + 1)..Len(s) :
        /\ s[i] = START /\ s[j] = END
        /\ \A q \in (i + 1)..(j - 1) : s[q] # END

OutsideText(s) == Cardinality({p \in DOMAIN s : s[p] = TEXT /\ ~Inside(s, p)})

\* Nothing of the README outside its metrics sections is lost, however
\* many sections and stray markers it has and however often the updater
\* runs (the non-greedy match of line 80).
ProseUnchanged ==
    OutsideText(readme) = OutsideText(orig)

=============================================================================
