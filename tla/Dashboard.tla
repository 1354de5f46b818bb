------------------------------ MODULE Dashboard ------------------------------
(***************************************************************************)
(* src/scripts/generate_performance_dashboard.py: main() loads the        *)
(* history of benchmark documents (load_historical_data), the latest      *)
(* metrics (load_latest_metrics), computes the change badges              *)
(* (calculate_changes) and renders the page.  The HTML template is        *)
(* layout; the model keeps what is put into it: the two badges and the    *)
(* chart series.                                                           *)
(*                                                                         *)
(* Benchmark records are those of BenchmarkData.  A history value is     *)
(* kept as the file it was read from, which is all the chart properties  *)
(* tell apart.                                                             *)
(***************************************************************************)
EXTENDS BenchmarkData

CONSTANTS
    Files,          \* the paths a baseline.json may have under data_dir, in sorted order
    Top,            \* the path data_dir/baseline.json itself, or NoTop
    NoTop,
    Absent,         \* model value: no file at that path
    Date,           \* Date[f]: date[:10] of f's parent directory name
    Docs,           \* Docs[f]: the documents f may hold, or Absent
    Corrupt,        \* model value: a file that is not valid JSON
    HistoryWindow   \* the 10 of json_files[-10:]

ASSUME HistoryWindow \in Nat \ {0}

\* The baseline main() passes to calculate_changes (line 412), latency in ns.
BASE_THROUGHPUT == 1240000
BASE_LATENCY_NS == 800

VARIABLES
    content,        \* content[f]: the document in file f (fixed)
    pc,             \* "history", "latest", "render", "done" or "crashed"
    k,              \* position in the history window
    history,        \* [dates, throughput, latency]
    metrics,        \* [throughput_raw, latency_ns] of load_latest_metrics
    page            \* what main() put into the template, or NoPage

vars == <<content, pc, k, history, metrics, page>>

\* A badge: the css class and the change as a fraction num/den of 1;
\* NoBadge is the empty string.
Badge(cls, num, den) == [cls |-> cls, num |-> num, den |-> den]
NoBadge == Badge("", 0, 1)

NoPage == [tput_change |-> NoBadge, lat_change |-> NoBadge, dates |-> <<>>,
           tput |-> <<>>, lat |-> <<>>, sample |-> FALSE]

\* sorted(glob.glob(f"{data_dir}/**/baseline.json", recursive=True)):
\* the files that exist, data_dir/baseline.json among them (** matches
\* no directory too) at its place in the sort order.
Found == SelectSeq(Files, LAMBDA f : content[f] # Absent)

\* json_files[-10:]
Window ==
    IF Len(Found) <= HistoryWindow THEN Found
    ELSE SubSeq(Found, Len(Found) - HistoryWindow + 1, Len(Found))

Init ==
    /\ content \in [DOMAIN Docs -> UNION Range(Docs)]
    /\ \A f \in DOMAIN Docs : content[f] \in Docs[f]
    /\ pc = "history"
    /\ k = 1
    /\ history = [dates |-> <<>>, throughput |-> <<>>, latency |-> <<>>]
    /\ metrics = [throughput_raw |-> 0, latency_ns |-> 0]
    /\ page = NoPage

\* Mutant: the file's own name taken for the date.
DateOf_file_name(f) == "baseline.json"

\* date = file_path.parent.name, cut to 10 characters (lines 314-315, 330).
DateOf(f) == Date[f]

\* Mutant: the latency series compared with the dates.
DateDue_latency(tput, lat, dates) == Len(lat) > Len(dates)

\* if len(history['throughput']) > len(history['dates']) (line 329)
DateDue(tput, lat, dates) == Len(tput) > Len(dates)

\* Mutant: the history loop without its try, so an unreadable file ends
\* the process.
LoadHistoryFile_unguarded ==
    /\ pc = "history" /\ k <= Len(Window)
    /\ LET f == Window[k]
           doc == content[f]
           tput == history.throughput \o
                     [j \in 1..Len(SelectSeq(doc, IsThroughput)) |-> f]
           lat == history.latency \o
                     [j \in 1..Len(SelectSeq(doc, IsSubmission)) |-> f]
       IN  IF doc = Corrupt
           THEN pc' = "crashed" /\ UNCHANGED history
           ELSE /\ history' = [dates |-> IF DateDue(tput, lat, history.dates)
                                          THEN Append(history.dates, DateOf(f))
                                          ELSE history.dates,
                                throughput |-> tput, latency |-> lat]
                /\ UNCHANGED pc
    /\ k' = k + 1
    /\ UNCHANGED <<content, metrics, page>>

\* One iteration of the loop of lines 308-334: an unreadable file is
\* reported and skipped; otherwise every Throughput benchmark appends a
\* throughput value, every TaskSubmission benchmark a latency value, and
\* the file's date is appended when throughput has outgrown the dates.
LoadHistoryFile ==
    /\ pc = "history" /\ k <= Len(Window)
    /\ LET f == Window[k]
           doc == content[f]
           tput == history.throughput \o
                     [j \in 1..Len(SelectSeq(doc, IsThroughput)) |-> f]
           lat == history.latency \o
                     [j \in 1..Len(SelectSeq(doc, IsSubmission)) |-> f]
       IN  history' = IF doc = Corrupt THEN history
                      ELSE [dates |-> IF DateDue(tput, lat, history.dates)
                                      THEN Append(history.dates, DateOf(f))
                                      ELSE history.dates,
                            throughput |-> tput, latency |-> lat]
    /\ k' = k + 1
    /\ UNCHANGED <<content, pc, metrics, page>>

\* The file load_latest_metrics reads (lines 349-357): data_dir/baseline.json
\* if it exists, else the last file the glob finds.
Latest == IF Top # NoTop /\ content[Top] # Absent THEN Top ELSE Last(Found)

\* load_latest_metrics (lines 338-377): its json.load is not guarded, so
\* a corrupt latest file ends the process.
load_latest_metrics ==
    /\ pc = "history" /\ k > Len(Window)
    /\ LET doc == content[Latest]
       IN  IF Found # <<>> /\ doc = Corrupt
           THEN /\ pc' = "crashed" /\ UNCHANGED metrics
           ELSE /\ pc' = "render"
                /\ metrics' =
                     IF Found = <<>> THEN metrics
                     ELSE [throughput_raw |-> extract_metrics(doc).throughput,
                           latency_ns |-> extract_metrics(doc).latency_ns]
    /\ UNCHANGED <<content, k, history, page>>

\* abs(change_pct) > 1 for change_pct = num / den * 100.
Significant(num, den) == num * 100 > den \/ num * 100 < -den

\* calculate_changes (lines 379-397), badges as <<throughput, latency>>.
\* The latency branch assigns throughput_change (line 395).
calculate_changes(m) ==
    LET tnum == m.throughput_raw - BASE_THROUGHPUT
        lnum == m.latency_ns - BASE_LATENCY_NS
        t1 == IF m.throughput_raw > 0 /\ Significant(tnum, BASE_THROUGHPUT)
              THEN Badge(IF tnum > 0 THEN "positive" ELSE "negative",
                         tnum, BASE_THROUGHPUT)
              ELSE NoBadge
        t2 == IF m.latency_ns > 0 /\ Significant(lnum, BASE_LATENCY_NS)
              THEN Badge(IF lnum < 0 THEN "positive" ELSE "negative",
                         lnum, BASE_LATENCY_NS)
              ELSE t1
    IN  <<t2, NoBadge>>

\* main() lines 418-451: the badges, the sample history when no date was
\* loaded, and the page written.
Render ==
    /\ pc = "render"
    /\ LET ch == calculate_changes(metrics)
           sample == history.dates = <<>>
       IN  page' = [tput_change |-> ch[1], lat_change |-> ch[2],
                    dates |-> IF sample THEN <<>> ELSE history.dates,
                    tput |-> IF sample THEN <<>> ELSE history.throughput,
                    lat |-> IF sample THEN <<>> ELSE history.latency,
                    sample |-> sample]
    /\ pc' = "done"
    /\ UNCHANGED <<content, k, history, metrics>>

Next == LoadHistoryFile \/ load_latest_metrics \/ Render

Spec == Init /\ [][Next]_vars

\* main() is one sequential process and every step of the model is one
\* of its own; none waits on anything.
FairSpec == Spec /\ WF_vars(Next)
-----------------------------------------------------------------------------
TypeOK ==
    /\ pc \in {"history", "latest", "render", "done", "crashed"}
    /\ k \in 1..(Len(Window) + 1)
    /\ history.dates \in Seq(Range(Date))
    /\ history.throughput \in Seq(ToSet(Files))
    /\ history.latency \in Seq(ToSet(Files))
    /\ metrics.throughput_raw \in Nat /\ metrics.latency_ns \in Nat

HasThroughput(f) ==
    content[f] # Corrupt /\ \E j \in DOMAIN content[f] : IsThroughput(content[f][j])

\* Every history file read so far that holds a Throughput benchmark has
\* its date on the dates axis, and the axis never has more dates than
\* there are throughput values (the length test of line 329).
ThroughputFilesDated ==
    /\ \A f \in ToSet(SubSeq(Window, 1, k - 1)) :
          HasThroughput(f) => Date[f] \in ToSet(history.dates)
    /\ Len(history.dates) <= Len(history.throughput)

\* The throughput chart pairs dates[i] with throughput[i] (lines 437-440):
\* each throughput point is plotted under the date of the file it was
\* read from, one date per point.
ChartSeriesAligned ==
    pc = "done" /\ ~page.sample =>
        /\ Len(page.tput) = Len(page.dates)
        /\ \A j \in DOMAIN page.dates : Date[page.tput[j]] = page.dates[j]

\* The throughput card's badge describes throughput: marked positive
\* exactly when the latest throughput is above the baseline (lines
\* 384-388; the latency branch writes the same variable at line 395).
ThroughputCardTruthful ==
    pc = "done" /\ page.tput_change # NoBadge =>
        (page.tput_change.cls = "positive" <=> metrics.throughput_raw > BASE_THROUGHPUT)

\* The generator always writes the dashboard, unless the latest file is
\* not valid JSON: load_historical_data survives unreadable files (lines
\* 332-334), and only the unguarded json.load of line 359 ends the run.
DashboardWrittenUnlessLatestCorrupt ==
    <>(pc = "done") \/ (Found # <<>> /\ content[Latest] = Corrupt)
=============================================================================
