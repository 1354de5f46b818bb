---------------------------- MODULE MCDashboard ----------------------------
(* Three history files, a window of two, each file holding up to two    *)
(* records: a throughput above or below the 1.24M baseline, a latency   *)
(* above or below 0.8 us, a name matching both substrings, or neither.  *)
(*                                                                        *)
(* The passing run stores results by date and by commit: data_dir is    *)
(* benchmark-results, which may hold its own baseline.json (fTop).  It  *)
(* sorts after the dated directory and before a commit directory whose  *)
(* SHA begins with a letter above 'b'.                                  *)
EXTENDS Dashboard, TLC

CONSTANTS f1, f2, f3, fTop

MCFiles == <<f1, f2, f3>>
MCDate == (f1 :> "2024-01-01") @@ (f2 :> "2024-01-02") @@ (f3 :> "2024-01-03")
MCRecords ==
    { [cls |-> "Throughput", ips |-> 1000000, cpu |-> 900],
      [cls |-> "Throughput", ips |-> 1300000, cpu |-> 900],
      [cls |-> "TaskSubmission", ips |-> 0, cpu |-> 700],
      [cls |-> "TaskSubmission", ips |-> 0, cpu |-> 900],
      [cls |-> "Other", ips |-> 0, cpu |-> 0] }
MCDoc == BoundedSeq(MCRecords, 2) \cup {Corrupt}
MCDocs == [f \in {f1, f2, f3} |-> MCDoc]

\* data_dir/2024-01-01/, data_dir/ itself, data_dir/e5a1f3c9d2.../
MCTopFiles == <<f1, fTop, f3>>
MCTopDate == (f1 :> "2024-01-01") @@ (fTop :> "benchmark-") @@ (f3 :> "e5a1f3c9d2")
MCTopDocs == (f1 :> MCDoc) @@ (fTop :> (MCDoc \cup {Absent})) @@ (f3 :> MCDoc)
=============================================================================
