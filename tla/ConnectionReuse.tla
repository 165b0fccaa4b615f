----------------------------- MODULE ConnectionReuse -----------------------------
(***************************************************************************)
(* What the connection manager promises its sessions: one QUIC connection, *)
(* shared by all of them as long as it is in good condition, and replaced  *)
(* only once it is not.  No mutex, no steps in between, no failures: a     *)
(* request that fails changes nothing here.                                *)
(***************************************************************************)
CONSTANTS
    Conn,     \* identities of connections
    Session,  \* those who use them
    None      \* no connection

VARIABLES
    current,  \* the connection new sessions are given
    held,     \* Session -> the connection it was given
    good      \* connections in good condition

vars == <<current, held, good>>

Init ==
    /\ current = None
    /\ held = [s \in Session |-> None]
    /\ good = {}

Reuse(s) ==
    /\ held[s] = None /\ current \in good
    /\ held' = [held EXCEPT ![s] = current]
    /\ UNCHANGED <<current, good>>

Replace(s, c) ==
    /\ held[s] = None /\ current \notin good
    /\ c # current /\ \A u \in Session : held[u] # c
    /\ current' = c
    /\ held' = [held EXCEPT ![s] = c]
    /\ good' = good \cup {c}

Release(s) ==
    /\ held[s] # None
    /\ held' = [held EXCEPT ![s] = None]
    /\ UNCHANGED <<current, good>>

Break ==
    /\ \E c \in good : good' = good \ {c}
    /\ UNCHANGED <<current, held>>

Next == \/ \E s \in Session : Reuse(s) \/ Release(s)
        \/ \E s \in Session, c \in Conn : Replace(s, c)
        \/ Break

Spec == Init /\ [][Next]_vars
================================================================================
