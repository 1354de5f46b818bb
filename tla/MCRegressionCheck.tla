-------------------------- MODULE MCRegressionCheck --------------------------
(* Documents of up to two records over two benchmark names, with cpu     *)
(* times around the 5% threshold of a 100 ns baseline: 105 is exactly on *)
(* it, 106 and 94 beyond it, 0 and a missing key at the edge.            *)
EXTENDS RegressionCheck, TLC

CONSTANTS b1, b2

MCRecords == [name : {b1, b2}, cpu : {NoTime, 0, 94, 100, 105, 106}]
MCDocs == BoundedSeq(MCRecords, 2) \cup {Missing, Corrupt}
=============================================================================
