--------------------------- MODULE RegressionCheck ---------------------------
(***************************************************************************)
(* src/scripts/check_performance_regression.py: main() loads the current  *)
(* and the baseline Google-Benchmark documents, check_regression compares  *)
(* them benchmark by benchmark, the report is written and the exit status  *)
(* tells CI whether a regression was found.                                *)
(*                                                                         *)
(* A document is Missing (FileNotFoundError, load_json returns {}),        *)
(* Corrupt (json.load raises, which main() does not catch), or the list   *)
(* of its benchmark records [name, cpu].  cpu is the cpu_time, or NoTime   *)
(* when the record has no such key; times are integers, so the float     *)
(* test change_pct > threshold is the exact integer test                   *)
(* (curr - base) * 100 > threshold * base for base > 0.                   *)
(***************************************************************************)
EXTENDS Integers, Sequences, SequencesExt

CONSTANTS
    BenchNames,    \* benchmark names
    Times,         \* cpu_time values a record may carry
    NoTime,        \* model value: the record has no cpu_time key
    Missing,       \* model value: the file does not exist
    Corrupt,       \* model value: the file is not valid JSON
    Threshold,     \* --threshold (percent)
    Docs           \* the documents --current and --baseline may name

ASSUME Threshold \in Nat /\ Times \subseteq Nat

VARIABLES
    curFile, baseFile,      \* the two input documents (fixed)
    pc,                     \* "start", "loop" or "exited"
    current, baseline,      \* current_benchmarks, baseline_benchmarks
    keys, i,                \* iteration order of current_benchmarks; position
    regressions, improvements,
    report,                 \* the report written, or NoReport
    exitCode

vars == <<curFile, baseFile, pc, current, baseline, keys, i, regressions,
          improvements, report, exitCode>>

NoReport == [written |-> FALSE, regs |-> {}, imps |-> {}]

\* load_json(...).get('benchmarks', []) for a document that parses.
Benchmarks(doc) == IF doc = Missing THEN <<>> ELSE doc

\* {b['name']: b for b in benchmarks}: a key's position is its first
\* appearance, its value the last record with that name.
ByName(bs) ==
    [n \in {b.name : b \in ToSet(bs)} |->
        bs[SelectLastInSeq(bs, LAMBDA b : b.name = n)]]

KeyOrder(bs) ==
    FoldLeft(LAMBDA acc, b : IF Contains(acc, b.name) THEN acc
                             ELSE Append(acc, b.name), <<>>, bs)

\* bench.get('cpu_time', 0)
CpuTime(b) == IF b.cpu = NoTime THEN 0 ELSE b.cpu

Init ==
    /\ curFile \in Docs /\ baseFile \in Docs
    /\ pc = "start"
    /\ current = <<>> /\ baseline = <<>> /\ keys = <<>> /\ i = 0
    /\ regressions = <<>> /\ improvements = <<>>
    /\ report = NoReport
    /\ exitCode = -1

\* main() lines 102-105 and check_regression lines 20-24: load both
\* documents (a JSON error ends the process with a traceback, status 1)
\* and index them by name.
Start ==
    /\ pc = "start"
    /\ IF curFile = Corrupt \/ baseFile = Corrupt
       THEN /\ pc' = "exited" /\ exitCode' = 1
            /\ UNCHANGED <<current, baseline, keys, i>>
       ELSE /\ current' = ByName(Benchmarks(curFile))
            /\ baseline' = ByName(Benchmarks(baseFile))
            /\ keys' = KeyOrder(Benchmarks(curFile))
            /\ i' = 1
            /\ pc' = "loop"
            /\ UNCHANGED exitCode
    /\ UNCHANGED <<curFile, baseFile, regressions, improvements, report>>

\* Mutant: a change of exactly the threshold counted as a regression.
Slower_inclusive(c, b) == (c - b) * 100 >= Threshold * b

\* change_pct > threshold (line 41), for b > 0.
Slower(c, b) == (c - b) * 100 > Threshold * b

\* change_pct < -threshold (line 48), for b > 0.
Faster(c, b) == (c - b) * 100 < -(Threshold * b)

\* The classification of keys[i] (lines 27-54).
Classify(n) ==
    LET c == CpuTime(current[n])
        b == IF n \in DOMAIN baseline THEN CpuTime(baseline[n]) ELSE 0
        rec == [name |-> n, current |-> c, baseline |-> b]
    IN  /\ regressions' = IF b # 0 /\ Slower(c, b)
                          THEN Append(regressions, rec) ELSE regressions
        /\ improvements' = IF b # 0 /\ Faster(c, b)
                           THEN Append(improvements, rec) ELSE improvements

\* Mutant: the loop index moved past the next benchmark as well.
Compare_double_advance ==
    /\ pc = "loop" /\ i <= Len(keys)
    /\ Classify(keys[i])
    /\ i' = i + 2
    /\ UNCHANGED <<curFile, baseFile, pc, current, baseline, keys, report, exitCode>>

\* One iteration of the loop of lines 26-54: skip a benchmark with no
\* baseline or a zero baseline time, else classify its change.
Compare ==
    /\ pc = "loop" /\ i <= Len(keys)
    /\ Classify(keys[i])
    /\ i' = i + 1
    /\ UNCHANGED <<curFile, baseFile, pc, current, baseline, keys, report, exitCode>>

\* generate_regression_report (lines 58-90): a table of the regressions
\* and one of the improvements, each sorted by change, or the "no
\* significant changes" line; the model keeps which names each lists.
generate_regression_report(regs, imps) ==
    [written |-> TRUE, regs |-> {r.name : r \in ToSet(regs)},
     imps |-> {r.name : r \in ToSet(imps)}]

\* Mutant: the loop left one benchmark early.
Finish_early ==
    /\ pc = "loop" /\ i >= Len(keys)
    /\ report' = generate_regression_report(regressions, improvements)
    /\ exitCode' = IF regressions # <<>> THEN 1 ELSE 0
    /\ pc' = "exited"
    /\ UNCHANGED <<curFile, baseFile, current, baseline, keys, i,
                   regressions, improvements>>

\* Lines 107-118: write the report and exit 1 iff there are regressions.
Finish ==
    /\ pc = "loop" /\ i > Len(keys)
    /\ report' = generate_regression_report(regressions, improvements)
    /\ exitCode' = IF regressions # <<>> THEN 1 ELSE 0
    /\ pc' = "exited"
    /\ UNCHANGED <<curFile, baseFile, current, baseline, keys, i,
                   regressions, improvements>>

Next == Start \/ Compare \/ Finish

Spec == Init /\ [][Next]_vars

-----------------------------------------------------------------------------
Entry  == [name : BenchNames, current : Nat, baseline : Nat]

TypeOK ==
    /\ pc \in {"start", "loop", "exited"}
    /\ i \in 0..(Len(keys) + 1)
    /\ regressions \in Seq(Entry) /\ improvements \in Seq(Entry)
    /\ exitCode \in {-1, 0, 1}

\* Reference reading of the two documents: the last record of each name.
LastRecord(doc, n) == doc[SelectLastInSeq(doc, LAMBDA b : b.name = n)]
Compared(n) ==
    /\ curFile \notin {Missing, Corrupt} /\ baseFile \notin {Missing, Corrupt}
    /\ \E k \in DOMAIN curFile : curFile[k].name = n
    /\ \E k \in DOMAIN baseFile : baseFile[k].name = n
    /\ CpuTime(LastRecord(baseFile, n)) > 0
Change(n) == CpuTime(LastRecord(curFile, n)) - CpuTime(LastRecord(baseFile, n))

\* The report lists as regressions exactly the benchmarks of both runs
\* whose cpu_time grew by more than the threshold, and as improvements
\* exactly those that shrank by more than it (check_regression over the
\* name-indexed documents, report written by main()).
ReportExact ==
    report.written =>
        /\ report.regs = {n \in BenchNames : Compared(n) /\
              Change(n) * 100 > Threshold * CpuTime(LastRecord(baseFile, n))}
        /\ report.imps = {n \in BenchNames : Compared(n) /\
              Change(n) * 100 < -(Threshold * CpuTime(LastRecord(baseFile, n)))}

\* CI's verdict: when the script exits 0, no benchmark present in both
\* documents slowed down by more than the threshold.
ExitZeroMeansNoRegression ==
    pc = "exited" /\ exitCode = 0 =>
        \A n \in BenchNames : Compared(n) =>
            Change(n) * 100 <= Threshold * CpuTime(LastRecord(baseFile, n))

\* A benchmark reported as faster was measured in the current run: its
\* record carries a positive cpu_time.  A record without the key (a BigO
\* or RMS aggregate) and an errored run's zero time are read as 0 at
\* line 33 and so come out 100% faster at line 48.
ImprovementMeasured ==
    \A k \in DOMAIN improvements :
        CpuTime(LastRecord(curFile, improvements[k].name)) > 0
=============================================================================
