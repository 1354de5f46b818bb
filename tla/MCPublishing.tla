---------------------------- MODULE MCPublishing ----------------------------
(* Documents of up to two records: throughputs 11% below, 5% above and   *)
(* 13% above the 1.24M baseline, latencies 0.5% below, 0.5% above and    *)
(* 12.5% above 800 ns; BASELINE.md with both figures or with neither.   *)
(* READMEs of up to five segments over the two markers and text, so that *)
(* two sections, a section holding old text, a marker without its pair   *)
(* and markers in the wrong order all occur; two runs on one UTC day or  *)
(* on two.                                                               *)
EXTENDS Publishing, TLC

MCRecords ==
    {[cls |-> "Throughput", ips |-> v, cpu |-> 0] : v \in {1100000, 1300000, 1400000}}
    \cup {[cls |-> "TaskSubmission", ips |-> 0, cpu |-> c] : c \in {796, 804, 900}}
MCDocs == BoundedSeq(MCRecords, 2)
MCReadmes == BoundedSeq(Segments, 5)
MCBaselines ==
    { [has_tput |-> TRUE, tput |-> 1240000, has_lat |-> TRUE, lat |-> 800],
      [has_tput |-> FALSE, tput |-> 0, has_lat |-> FALSE, lat |-> 0] }
=============================================================================
