-------------------------------- MODULE UdpRelay --------------------------------
(***************************************************************************)
(* What UDP interception promises the device's applications: a source      *)
(* endpoint has one destination at a time, that of the datagram its        *)
(* session was made for, and what leaves the device in its name are the    *)
(* bytes of its own datagrams to that destination, one at a time.  No      *)
(* sockets, no slots, no wakers, no tasks; a datagram may be lost at any   *)
(* time.                                                                   *)
(*                                                                         *)
(* The address that goes with the bytes is the destination's only when the *)
(* destination is private.  A proxied datagram enters the tunnel with the  *)
(* address of its source: nothing here says that its destination is        *)
(* conveyed, because no session conveys it.                                *)
(***************************************************************************)
CONSTANTS
    Src,      \* source endpoints
    Dst,      \* destination endpoints
    Private,  \* destinations reached without the tunnel
    NoDst,    \* no session
    Nothing   \* nothing leaves the device

VARIABLES
    serving,  \* Src -> destination of its session
    inHand,   \* datagrams taken from their sources and not sent out yet
    out       \* the packet that leaves the device in this step

relay == <<serving, inHand, out>>

Init == serving = [s \in Src |-> NoDst] /\ inHand = {} /\ out = Nothing

NothingOf(s) == \A d \in inHand : d.src # s

Open(s, d) ==
    /\ serving[s] = NoDst
    /\ serving' = [serving EXCEPT ![s] = d]
    /\ out' = Nothing
    /\ UNCHANGED inHand

Take(s) ==
    /\ serving[s] # NoDst /\ NothingOf(s)
    /\ inHand' = inHand \cup {[src |-> s, dst |-> serving[s]]}
    /\ out' = Nothing
    /\ UNCHANGED serving

Send(d) ==
    /\ inHand' = inHand \ {d}
    /\ out' = [payload |-> d, addr |-> IF d.dst \in Private THEN d.dst ELSE d.src]
    /\ UNCHANGED serving

\* The session fails or ends.
Lose(d) ==
    /\ inHand' = inHand \ {d}
    /\ out' = Nothing
    /\ UNCHANGED serving

End(s) ==
    /\ serving[s] # NoDst /\ NothingOf(s)
    /\ serving' = [serving EXCEPT ![s] = NoDst]
    /\ out' = Nothing
    /\ UNCHANGED inHand

\* Nothing happens that an application could tell.
Rest == out' = Nothing /\ UNCHANGED <<serving, inHand>>

Next == \/ \E s \in Src : Take(s) \/ End(s)
        \/ \E s \in Src, d \in Dst : Open(s, d)
        \/ \E d \in inHand : Send(d) \/ Lose(d)
        \/ Rest

Spec == Init /\ [][Next]_relay
================================================================================
