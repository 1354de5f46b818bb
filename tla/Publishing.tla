----------------------------- MODULE Publishing -----------------------------
(***************************************************************************)
(* The publishing scripts run, in any order, on the same baseline.json:   *)
(* update_performance_badge.py (the shields.io badge),                    *)
(* update_readme_performance.py (README.md, the component ReadmeUpdate   *)
(* instantiated over the same baseline.json) and                          *)
(* generate_performance_report.py (the Markdown report against           *)
(* BASELINE.md).                                                          *)
(***************************************************************************)
EXTENDS BenchmarkData

CONSTANTS
    Docs,        \* the documents baseline.json may hold
    Baselines,   \* what parse_baseline may find in BASELINE.md
    Missing,     \* model value: there is no baseline.json
    Readmes,     \* the READMEs the repository may hold
    MaxRuns,     \* runs of the README updater explored
    MaxDays      \* UTC days those runs are spread over

\* determine_color's default baseline (line 30).
BADGE_BASELINE == 1240000

NoOutput == [none |-> TRUE]

\* The script ended with a traceback before writing anything.
Crashed == [crashed |-> TRUE]

VARIABLES
    doc,         \* baseline.json, or Missing (fixed)
    otherBad,    \* another *.json of the report's input directory is not JSON (fixed)
    md,          \* parse_baseline(BASELINE.md) (fixed)
    badge,       \* [value, color] written by the badge script, or NoOutput
    report,      \* the report's rows and recommendation, or NoOutput
    readme, warned, runs, first, orig,  \* README.md and its updater (ReadmeUpdate)
    day, firstDay                       \* today's UTC date, the first run's

vars == <<doc, otherBad, md, badge, report, readme, warned, runs, first, orig, day, firstDay>>

\* The README updater reads the same baseline.json; without it the script
\* finds no data.
R == INSTANCE ReadmeUpdate WITH Datas <- Docs \cup {Missing}, NoData <- Missing, data <- doc

\* The README segments: START, END and TEXT of ReadmeUpdate.
Segments == {-1, -2, -3}

ASSUME Segments = {R!START, R!END, R!TEXT}

\* The integers f"{n/dd:.0f}" may show.  n/dd is first rounded to a
\* double: a quotient with a fraction other than one half rounds to the
\* nearest integer; an exact tie the double holds exactly (dd a divisor of
\* 2^k * 1000, as for /1_000) goes to the even neighbour, and a tie
\* whose double is inexact (a .xx5 of /1_000_000) goes either way.
RoundedSet(n, dd, exact) ==
    LET q == n \div dd
        r == n % dd
    IN  IF 2 * r < dd THEN {q}
        ELSE IF 2 * r > dd THEN {q + 1}
        ELSE IF exact THEN {IF q % 2 = 0 THEN q ELSE q + 1}
        ELSE {q, q + 1}

\* A message "<m / 10^d><unit> jobs/s".
Message(m, d, unit) == [m |-> m, d |-> d, unit |-> unit]

\* format_throughput (lines 21-28): the messages it may return for v.
format_throughput(v) ==
    IF v >= 1000000 THEN {Message(x, 2, "M") : x \in RoundedSet(v * 100, 1000000, FALSE)}
    ELSE IF v >= 1000 THEN {Message(x, 0, "K") : x \in RoundedSet(v, 1000, TRUE)}
    ELSE {Message(v, 0, "")}

\* determine_color (lines 30-41); baseline * 0.95 etc. are exact here.
determine_color(v) ==
    IF v >= BADGE_BASELINE THEN "brightgreen"
    ELSE IF v * 100 >= BADGE_BASELINE * 95 THEN "green"
    ELSE IF v * 100 >= BADGE_BASELINE * 90 THEN "yellow"
    ELSE IF v * 100 >= BADGE_BASELINE * 80 THEN "orange"
    ELSE "red"

\* Mutant: the arrow of a change taken the wrong way round.
calculate_change_reversed(cur, base) ==
    LET num == cur - base
    IN  IF base = 0 THEN [num |-> 0, den |-> 1, dir |-> "="]
        ELSE [num |-> num, den |-> base,
              dir |-> IF num * 100 < base /\ num * 100 > -base THEN "="
                      ELSE IF num > 0 THEN "down" ELSE "up"]

\* calculate_change (lines 78-91): the change is num/den (times 100 %);
\* under 1% either way it is "=".
calculate_change(cur, base) ==
    LET num == cur - base
    IN  IF base = 0 THEN [num |-> 0, den |-> 1, dir |-> "="]
        ELSE [num |-> num, den |-> base,
              dir |-> IF num * 100 < base /\ num * 100 > -base THEN "="
                      ELSE IF num > 0 THEN "up" ELSE "down"]

\* generate_report (lines 93-179), its tables reduced to the two key rows
\* (the latency arrow is the sign of the change, reversed) and the
\* recommendation: below -5% a warning, above +10% praise.
generate_report(m, b) ==
    LET t == calculate_change(m.throughput, b.tput)
        l == calculate_change(m.latency_ns, b.lat)
        both_t == m.has_tput /\ b.has_tput
    IN  [tput_row |-> IF both_t THEN [cur |-> m.throughput] @@ t ELSE NoOutput,
         lat_row  |-> IF m.has_lat /\ b.has_lat
                      THEN [l EXCEPT !.dir = IF l.num < 0 THEN "up"
                                             ELSE IF l.num > 0 THEN "down" ELSE "="]
                      ELSE NoOutput,
         rec |-> IF ~both_t THEN "none"
                 ELSE IF t.num * 100 < -5 * t.den THEN "warn"
                 ELSE IF t.num * 100 > 10 * t.den THEN "great"
                 ELSE "none"]

\* load_benchmark_results (lines 13-20): every *.json of the directory is
\* json.load-ed, unguarded; the report uses the one named baseline.
load_benchmark_results ==
    IF otherBad THEN Crashed
    ELSE IF doc = Missing THEN [baseline |-> FALSE]
    ELSE [baseline |-> TRUE, data |-> doc]

\* extract_key_metrics of a results dict without 'baseline': no metric.
NoMetrics == [has_tput |-> FALSE, has_lat |-> FALSE, throughput |-> 0, latency_ns |-> 0]

Init ==
    /\ R!Init
    /\ doc \in Docs \cup {Missing} /\ otherBad \in BOOLEAN /\ md \in Baselines
    /\ badge = NoOutput /\ report = NoOutput

\* update_performance_badge main (lines 43-65); open() of a missing
\* --input raises (line 12).
RunBadge ==
    /\ badge = NoOutput
    /\ IF doc = Missing THEN badge' = Crashed
       ELSE LET v == extract_throughput(doc)
            IN  \E msg \in format_throughput(v) :
                    badge' = [value |-> v, message |-> msg, color |-> determine_color(v)]
    /\ UNCHANGED <<doc, otherBad, md, report, readme, warned, runs, first, orig, day, firstDay>>

\* update_readme_performance main (lines 90-118) rewriting README.md;
\* without baseline.json it returns at line 104.
RunReadme ==
    /\ R!Run
    /\ UNCHANGED <<otherBad, md, badge, report>>

\* generate_performance_report main (lines 188-199).
RunReport ==
    /\ report = NoOutput
    /\ LET results == load_benchmark_results
       IN  report' = IF results = Crashed THEN Crashed
                     ELSE generate_report(IF results.baseline
                                          THEN extract_key_metrics(results.data)
                                          ELSE NoMetrics, md)
    /\ UNCHANGED <<doc, otherBad, md, badge, readme, warned, runs, first, orig, day, firstDay>>

\* The date moves on between the scripts' runs.
NextDay ==
    /\ R!NextDay
    /\ UNCHANGED <<otherBad, md, badge, report>>

Next == RunBadge \/ RunReadme \/ RunReport \/ NextDay

Spec == Init /\ [][Next]_vars

-----------------------------------------------------------------------------
\* The report's recommendation never contradicts its own table: a warning
\* about decreased throughput comes with a downward arrow, praise with an
\* upward one (calculate_change called twice, lines 117 and 171).
ReportVerdictsAgree ==
    report \notin {NoOutput, Crashed} =>
        /\ report.rec = "warn" => report.tput_row.dir = "down"
        /\ report.rec = "great" => report.tput_row.dir = "up"

\* Every throughput README.md shows agrees with the report's, both
\* published from the same baseline.json by two scripts each scanning it
\* for the Throughput benchmark (extract_metrics and extract_key_metrics).
ReadmeAgreesWithReport ==
    report \notin {NoOutput, Crashed} /\ report.tput_row # NoOutput =>
        \A p \in DOMAIN readme : readme[p] \in Nat => R!TableThroughput(readme[p]) = report.tput_row.cur

\* README.md as the updater leaves it over any order of the other scripts:
\* a second run with the same baseline.json changes nothing, and no text
\* outside a metrics section is ever lost (ReadmeUpdate's properties).
UpdateIdempotent == R!UpdateIdempotent
ProseUnchanged == R!ProseUnchanged
=============================================================================
