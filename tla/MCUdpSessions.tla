----------------------------- MODULE MCUdpSessions -----------------------------
(* Instances of UdpSessions for TLC.                                         *)
EXTENDS UdpSessions, TLC

CONSTANTS a1, a2, d1, d2, k1, k2

MCSrc == {a1, a2}
MCDst == {d1, d2}
MCTask == {k1, k2}

\* Sources and tasks are interchangeable; destinations only when none of them
\* is private.
ProxySymmetry == Permutations(MCSrc) \cup Permutations(MCDst) \cup Permutations(MCTask)
MixedSymmetry == Permutations(MCSrc) \cup Permutations(MCTask)
================================================================================
