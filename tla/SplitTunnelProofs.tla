---------------------------- MODULE SplitTunnelProofs ----------------------------
(* The split-tunnelling decision is right for each of the 2^32 addresses.    *)
EXTENDS SplitTunnel, TLAPS

\* is_private_v4 decides membership of the address blocks, for every address.
THEOREM PrivateIffInBlock ==
    \A o \in Address : IsPrivateV4(o) <=> InPrivateBlock(o)
<1> SUFFICES ASSUME NEW o \in Address PROVE IsPrivateV4(o) <=> InPrivateBlock(o)
  OBVIOUS
<1>1. /\ o[1] \in 0 .. 255 /\ o[2] \in 0 .. 255 /\ o[3] \in 0 .. 255 /\ o[4] \in 0 .. 255
  BY DEF Address
<1> DEFINE In(first, last) == AtMost(first, o) /\ AtMost(o, last)
<1>2. In(<<10, 0, 0, 0>>, <<10, 255, 255, 255>>) <=> o[1] = 10
  BY <1>1 DEF AtMost
<1>3. In(<<172, 16, 0, 0>>, <<172, 31, 255, 255>>) <=> Private172(o)
  BY <1>1 DEF AtMost, Private172
<1>4. In(<<192, 168, 0, 0>>, <<192, 168, 255, 255>>) <=> o[1] = 192 /\ o[2] = 168
  BY <1>1 DEF AtMost
<1>5. In(<<127, 0, 0, 0>>, <<127, 255, 255, 255>>) <=> o[1] = 127
  BY <1>1 DEF AtMost
<1>6. In(<<169, 254, 0, 0>>, <<169, 254, 255, 255>>) <=> o[1] = 169 /\ o[2] = 254
  BY <1>1 DEF AtMost
<1>7. InPrivateBlock(o) <=>
        \/ In(<<10, 0, 0, 0>>, <<10, 255, 255, 255>>)
        \/ In(<<172, 16, 0, 0>>, <<172, 31, 255, 255>>)
        \/ In(<<192, 168, 0, 0>>, <<192, 168, 255, 255>>)
        \/ In(<<127, 0, 0, 0>>, <<127, 255, 255, 255>>)
        \/ In(<<169, 254, 0, 0>>, <<169, 254, 255, 255>>)
  BY DEF InPrivateBlock, Blocks
<1> QED
  BY <1>2, <1>3, <1>4, <1>5, <1>6, <1>7 DEF IsPrivateV4
================================================================================
