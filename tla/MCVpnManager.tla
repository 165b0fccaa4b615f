----------------------------- MODULE MCVpnManager -----------------------------
(* VpnManager for TLC: two chains that the model may exchange.               *)
EXTENDS VpnManager, TLC

CONSTANTS c1, c2

Symmetry == Permutations({c1, c2})
================================================================================
