------------------------------ MODULE MCOracle ------------------------------
(* OraclePoll for TLC: one market, a few results, polls and faults.       *)
EXTENDS OraclePoll
=============================================================================
