---------------------------- MODULE ConnectionManager ----------------------------
(***************************************************************************)
(* ConnectionManager::get_s2n_handle in stunnel-core: sessions ask for the *)
(* shared QUIC handle concurrently, and the tokio mutex around it is held  *)
(* from the check of the cached handle to the storing of a new one, over   *)
(* every await in between.  A step is what runs between two awaits.        *)
(*                                                                         *)
(* s2n-quic is external: a connection, once made, may break at any time    *)
(* and never recovers; keep_alive fails on a broken one.                   *)
(***************************************************************************)
EXTENDS Naturals, Sequences

CONSTANTS
    Session,  \* proxied TCP and UDP sessions
    Conn,     \* identities of QUIC connections, reused once nobody has them
    None

ASSUME NoneAssumption == None \notin Conn /\ None \notin Session

VARIABLES
    s2n_client,  \* the OnceCell holds a client
    s2n_handle,  \* the cached handle, or None
    owner,       \* session that holds the mutex, or None
    waiters,     \* sessions waiting for the mutex: tokio's Mutex is first-in first-out
    good,        \* connections in good condition
    pc,          \* Session -> where its call is
    conn         \* Session -> connection it has made or been given

vars == <<s2n_client, s2n_handle, owner, waiters, good, pc, conn>>

Init ==
    /\ s2n_client = FALSE /\ s2n_handle = None
    /\ owner = None /\ waiters = <<>>
    /\ good = {}
    /\ pc = [s \in Session |-> "idle"]
    /\ conn = [s \in Session |-> None]

\* Mutant: the last to come is served first.
LastInFirstOut(q, s) == <<s>> \o q

Enqueue(q, s) == Append(q, s)

\* self.s2n_handle.lock().await
Request(s) ==
    /\ pc[s] = "idle"
    /\ waiters' = Enqueue(waiters, s)
    /\ pc' = [pc EXCEPT ![s] = "lock"]
    /\ UNCHANGED <<s2n_client, s2n_handle, owner, good, conn>>

Acquire(s) ==
    /\ pc[s] = "lock" /\ owner = None
    /\ waiters # <<>> /\ Head(waiters) = s
    /\ owner' = s /\ waiters' = Tail(waiters)
    /\ pc' = [pc EXCEPT ![s] = "check"]
    /\ UNCHANGED <<s2n_client, s2n_handle, good, conn>>

\* The guard is dropped when the call returns, with Ok or with Err.
Return(s, where, c) ==
    /\ owner' = None
    /\ pc' = [pc EXCEPT ![s] = where]
    /\ conn' = [conn EXCEPT ![s] = c]

\* Mutant: whatever is cached counts as good.
AnyCached == s2n_handle # None

\* Mutant: the check always fails, every call reconnects.
NeverGood == FALSE

\* handle.in_good_condition().is_ok()
CachedIsGood == s2n_handle \in good

\* The cached handle is cloned and checked: returned if good, else reconnect.
CheckCached(s) ==
    /\ pc[s] = "check"
    /\ \/ /\ CachedIsGood
          /\ Return(s, "held", s2n_handle)
       \/ /\ ~CachedIsGood
          /\ pc' = [pc EXCEPT ![s] = "client"]
          /\ UNCHANGED <<owner, conn>>
    /\ UNCHANGED <<s2n_client, s2n_handle, waiters, good>>

\* get_or_try_init: keeps the client it has, or makes one.
GetClient(s) ==
    /\ pc[s] = "client"
    /\ s2n_client' = TRUE
    /\ pc' = [pc EXCEPT ![s] = "connect"]
    /\ UNCHANGED <<s2n_handle, owner, waiters, good, conn>>

\* The client cannot be made (the cell stays empty), server_addr does not parse,
\* or the connection attempt fails: the cached handle stays as it is.
GetFails(s) ==
    /\ \/ pc[s] = "client" /\ ~s2n_client
       \/ pc[s] = "connect"
    /\ Return(s, "idle", None)
    /\ UNCHANGED <<s2n_client, s2n_handle, waiters, good>>

\* client.connect(connect).await succeeds.
Connect(s) ==
    /\ pc[s] = "connect"
    /\ \E c \in Conn \ {s2n_handle} :
          /\ \A u \in Session : conn[u] # c
          /\ conn' = [conn EXCEPT ![s] = c]
          /\ good' = good \cup {c}
    /\ pc' = [pc EXCEPT ![s] = "store"]
    /\ UNCHANGED <<s2n_client, s2n_handle, owner, waiters>>

\* *lock = Some(handle.clone())
Cache(c) == c

\* keep_alive(true) on the new connection, then store it and return it; when it
\* broke already the connection is dropped and the call fails.
Store(s) ==
    /\ pc[s] = "store"
    /\ \/ /\ conn[s] \in good
          /\ s2n_handle' = Cache(conn[s])
          /\ Return(s, "held", conn[s])
       \/ /\ conn[s] \notin good
          /\ Return(s, "idle", None)
          /\ UNCHANGED s2n_handle
    /\ UNCHANGED <<s2n_client, waiters, good>>

\* The session is over and drops its clone of the handle.
SessionEnds(s) ==
    /\ pc[s] = "held"
    /\ pc' = [pc EXCEPT ![s] = "idle"]
    /\ conn' = [conn EXCEPT ![s] = None]
    /\ UNCHANGED <<s2n_client, s2n_handle, owner, waiters, good>>

\* A connection is lost.
Break ==
    /\ \E c \in good : good' = good \ {c}
    /\ UNCHANGED <<s2n_client, s2n_handle, owner, waiters, pc, conn>>

Step(s) == \/ Acquire(s) \/ CheckCached(s) \/ GetClient(s) \/ GetFails(s)
           \/ Connect(s) \/ Store(s)

Next == Break \/ \E s \in Session : Request(s) \/ SessionEnds(s) \/ Step(s)

Spec == Init /\ [][Next]_vars

\* The runtime runs every task that can run, and a connection attempt ends one
\* way or the other (s2n-quic gives up on a silent server).
FairSpec == Spec /\ \A s \in Session : WF_vars(Step(s))

--------------------------------------------------------------------------------
(* Properties                                                                *)

\* State is of its type.
TypeOK ==
    /\ s2n_client \in BOOLEAN
    /\ s2n_handle \in Conn \cup {None}
    /\ owner \in Session \cup {None}
    /\ waiters \in Seq(Session)
    /\ good \subseteq Conn
    /\ pc \in [Session -> {"idle", "lock", "check", "client", "connect", "store", "held"}]
    /\ conn \in [Session -> Conn \cup {None}]

\* At most one connection is in good condition, whichever sessions ask for it at
\* once and whenever it breaks: a connection is made only while none is good.
OneGoodConnection == \A c, d \in good : c = d

\* Every call returns, whatever the other sessions do: no session starves on the
\* mutex.
CallReturns == \A s \in Session : pc[s] = "lock" ~> pc[s] \in {"idle", "held"}

\* The manager implements the abstract connection: what a session holds while
\* its call has not returned is not given out yet.
HeldBy == [s \in Session |-> IF pc[s] = "held" THEN conn[s] ELSE None]
GivenOut == {c \in good : c = s2n_handle \/ \E s \in Session : HeldBy[s] = c}

Reuse == INSTANCE ConnectionReuse WITH
    current <- s2n_handle, held <- HeldBy, good <- GivenOut

ImplementsReuse == Reuse!Spec
================================================================================
