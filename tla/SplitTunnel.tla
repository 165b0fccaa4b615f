------------------------------- MODULE SplitTunnel -------------------------------
(***************************************************************************)
(* The split-tunnelling decision of stunnel-core: is_private_v4 looks at   *)
(* the octets of a packet's destination, and a private destination is      *)
(* connected to directly instead of through the tunnel.  It is compared    *)
(* with the address blocks it names, taken as ranges of addresses.         *)
(***************************************************************************)
EXTENDS Naturals

Address == [1 .. 4 -> 0 .. 255]

\* Mutant: the /12 block taken to end before its last sixteenth.
Private172Short(o) == o[1] = 172 /\ o[2] >= 16 /\ o[2] < 31

Private172(o) == o[1] = 172 /\ o[2] >= 16 /\ o[2] <= 31

\* is_private_v4; octets are counted from 1.
IsPrivateV4(o) ==
    \/ o[1] = 10
    \/ Private172(o)
    \/ o[1] = 192 /\ o[2] = 168
    \/ o[1] = 127
    \/ o[1] = 169 /\ o[2] = 254

--------------------------------------------------------------------------------

\* The order of addresses.
AtMost(a, b) == \/ a[1] < b[1]
                \/ a[1] = b[1] /\ \/ a[2] < b[2]
                                  \/ a[2] = b[2] /\ \/ a[3] < b[3]
                                                    \/ a[3] = b[3] /\ a[4] <= b[4]

\* The blocks that the comments of is_private_v4 name, first address and last.
Blocks == {<< <<10, 0, 0, 0>>, <<10, 255, 255, 255>> >>,          \* 10.0.0.0/8
           << <<172, 16, 0, 0>>, <<172, 31, 255, 255>> >>,        \* 172.16.0.0/12
           << <<192, 168, 0, 0>>, <<192, 168, 255, 255>> >>,      \* 192.168.0.0/16
           << <<127, 0, 0, 0>>, <<127, 255, 255, 255>> >>,        \* 127.0.0.0/8
           << <<169, 254, 0, 0>>, <<169, 254, 255, 255>> >>}      \* 169.254.0.0/16

InPrivateBlock(o) == \E b \in Blocks : AtMost(b[1], o) /\ AtMost(o, b[2])
================================================================================
