-------------------------- MODULE MCConnectionManager --------------------------
(* Instances of ConnectionManager for TLC.                                   *)
EXTENDS ConnectionManager, TLC

CONSTANTS s1, s2, s3, q1, q2, q3, q4

MCSession == {s1, s2, s3}
MCConn == {q1, q2, q3, q4}

Symmetry == Permutations(MCSession) \cup Permutations(MCConn)
================================================================================
