----------------------------- MODULE MCPacketTunnel -----------------------------
(* Instances of PacketTunnel for TLC.                                        *)
EXTENDS PacketTunnel

CONSTANTS c1, c2, b1, b2, l1, l2

MCCore == {c1, c2}
MCBridge == {b1, b2}
MCLoop == {l1, l2}
=================================================================================
