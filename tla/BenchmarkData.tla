---------------------------- MODULE BenchmarkData ----------------------------
(***************************************************************************)
(* The benchmark document the scripts under src/scripts/ read, and the    *)
(* way each of them picks its numbers out of it.                           *)
(*                                                                         *)
(* A document is the list of its benchmark records [cls, ips, cpu]: cls   *)
(* says which of the substrings the scripts test a name for it contains   *)
(* ("Throughput", "TaskSubmission", "Both" or "Other"), ips is            *)
(* items_per_second and cpu the cpu_time in ns (integers; a missing key   *)
(* reads as the scripts' default 0).                                       *)
(***************************************************************************)
EXTENDS Integers, Sequences, SequencesExt

\* 'Throughput' in name / 'TaskSubmission' in name.
IsThroughput(b) == b.cls \in {"Throughput", "Both"}
IsSubmission(b) == b.cls \in {"TaskSubmission", "Both"}

\* The record a scan that overwrites on every match ends with, and the
\* one a scan that returns on the first match returns.
LastOf(doc, Test(_)) == doc[SelectLastInSeq(doc, Test)]
FirstOf(doc, Test(_)) == doc[SelectInSeq(doc, Test)]
Has(doc, Test(_)) == \E j \in DOMAIN doc : Test(doc[j])

\* update_performance_badge.extract_throughput: returns on the first
\* Throughput benchmark, 0 without one.
extract_throughput(doc) ==
    IF Has(doc, IsThroughput) THEN FirstOf(doc, IsThroughput).ips ELSE 0

\* Mutant: the README updater returning on the first match as well.
extract_metrics_first(doc) ==
    [throughput |-> extract_throughput(doc),
     latency_ns |-> IF Has(doc, IsSubmission) THEN LastOf(doc, IsSubmission).cpu ELSE 0]

\* update_readme_performance.extract_metrics: every match overwrites the
\* previous one; 0 without one.
extract_metrics(doc) ==
    [throughput |-> IF Has(doc, IsThroughput) THEN LastOf(doc, IsThroughput).ips ELSE 0,
     latency_ns |-> IF Has(doc, IsSubmission) THEN LastOf(doc, IsSubmission).cpu ELSE 0]

\* generate_performance_report.extract_key_metrics: as extract_metrics,
\* but a metric without a matching benchmark is absent (has_* FALSE).
extract_key_metrics(doc) ==
    [has_tput |-> Has(doc, IsThroughput), has_lat |-> Has(doc, IsSubmission),
     throughput |-> IF Has(doc, IsThroughput) THEN LastOf(doc, IsThroughput).ips ELSE 0,
     latency_ns |-> IF Has(doc, IsSubmission) THEN LastOf(doc, IsSubmission).cpu ELSE 0]
=============================================================================
