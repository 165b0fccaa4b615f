--------------------------- MODULE MCTcpInterception ---------------------------
(* TcpInterception for TLC: one connection goes to the addresses at and next *)
(* to the edges of the private blocks, the other one to the same address or  *)
(* to a public one.                                                          *)
EXTENDS TcpInterception, TLC

CONSTANTS c1, c2, t1, t2, t3

EdgeAddresses ==
    {<<9, 255, 255, 255>>, <<10, 0, 0, 0>>, <<10, 255, 255, 255>>, <<11, 0, 0, 0>>,
     <<172, 15, 255, 255>>, <<172, 16, 0, 0>>, <<172, 31, 255, 255>>, <<172, 32, 0, 0>>,
     <<192, 167, 255, 255>>, <<192, 168, 0, 0>>, <<192, 168, 255, 255>>, <<192, 169, 0, 0>>,
     <<126, 255, 255, 255>>, <<127, 0, 0, 0>>, <<127, 255, 255, 255>>, <<128, 0, 0, 0>>,
     <<169, 253, 255, 255>>, <<169, 254, 0, 0>>, <<169, 254, 255, 255>>, <<169, 255, 0, 0>>}

Other == <<8, 8, 8, 8>>

EdgeDests == {c1 :> a @@ c2 :> b : a \in EdgeAddresses, b \in {Other}}
                 \cup {c1 :> a @@ c2 :> a : a \in {<<10, 0, 0, 0>>, Other}}

Symmetry == Permutations({t1, t2, t3})
================================================================================
