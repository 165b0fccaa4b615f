------------------------- MODULE ConnectionManagerProofs -------------------------
(***************************************************************************)
(* Proofs about ConnectionManager for any number of sessions and           *)
(* connections: at most one good connection, and the refinement of         *)
(* ConnectionReuse.                                                        *)
(***************************************************************************)
EXTENDS ConnectionManager, TLAPS

InCall == {"check", "client", "connect", "store"}

\* The mutex is held from the check to the return.
Mutex == \A s \in Session : pc[s] \in InCall <=> owner = s

\* Which connections exist at each point of a call.
Connections ==
    /\ \A s \in Session : pc[s] \notin {"store", "held"} => conn[s] = None
    /\ \A s \in Session : pc[s] \in {"store", "held"} => conn[s] \in Conn
    /\ \A s \in Session : pc[s] \in {"client", "connect", "store"} => s2n_handle \notin good
    /\ \A s \in Session : pc[s] = "store" =>
          conn[s] # s2n_handle /\ \A u \in Session : u # s => conn[u] # conn[s]
    /\ \A c \in good : c = s2n_handle \/ \E s \in Session : pc[s] = "store" /\ conn[s] = c

Inv == TypeOK /\ Mutex /\ Connections

\* The initial state satisfies the invariant.
LEMMA InvInit == Init => Inv
<1> SUFFICES ASSUME Init PROVE Inv
  OBVIOUS
<1>1. TypeOK
  <2>1. s2n_client \in BOOLEAN /\ good \subseteq Conn
    BY DEF Init
  <2>2. waiters \in Seq(Session) /\ owner \in Session \cup {None} /\ s2n_handle \in Conn \cup {None}
    BY DEF Init
  <2>3. /\ pc \in [Session -> {"idle", "lock", "check", "client", "connect", "store", "held"}]
        /\ conn \in [Session -> Conn \cup {None}]
    BY DEF Init
  <2> QED BY <2>1, <2>2, <2>3 DEF TypeOK
<1>2. Mutex /\ Connections
  BY NoneAssumption DEF Init, Mutex, Connections, InCall
<1> QED BY <1>1, <1>2 DEF Inv

\* Every step preserves the invariant.
LEMMA InvStep == Inv /\ [Next]_vars => Inv'
<1> SUFFICES ASSUME Inv, [Next]_vars PROVE Inv'
  OBVIOUS
<1> USE NoneAssumption DEF Inv
<1>1. ASSUME NEW s \in Session, Request(s) PROVE Inv'
  <2>1. TypeOK'
    <3>1. waiters' \in Seq(Session)
      BY <1>1 DEF Request, Enqueue, TypeOK
    <3> QED BY <1>1, <3>1 DEF Request, TypeOK
  <2> QED BY <1>1, <2>1 DEF Request, TypeOK, Mutex, Connections, InCall
<1>2. ASSUME NEW s \in Session, Acquire(s) PROVE Inv'
  <2>1. TypeOK'
    <3>1. waiters' \in Seq(Session)
      BY <1>2 DEF Acquire, TypeOK
    <3> QED BY <1>2, <3>1 DEF Acquire, TypeOK
  <2>2. Mutex' /\ Connections'
    BY <1>2 DEF Acquire, TypeOK, Mutex, Connections, InCall
  <2> QED BY <2>1, <2>2
<1>3. ASSUME NEW s \in Session, CheckCached(s) PROVE Inv'
  <2>1. TypeOK' /\ Mutex'
    BY <1>3 DEF CheckCached, CachedIsGood, Return, TypeOK, Mutex, InCall
  <2>2. Connections'
    BY <1>3 DEF CheckCached, CachedIsGood, Return, TypeOK, Mutex, InCall, Connections
  <2> QED BY <2>1, <2>2
<1>4. ASSUME NEW s \in Session, GetClient(s) \/ GetFails(s) PROVE Inv'
  <2>1. TypeOK'
    BY <1>4 DEF GetClient, GetFails, Return, TypeOK
  <2>2. Mutex'
    BY <1>4 DEF GetClient, GetFails, Return, TypeOK, Mutex, InCall
  <2>3. Connections'
    BY <1>4 DEF GetClient, GetFails, Return, TypeOK, Connections
  <2> QED BY <2>1, <2>2, <2>3
<1>5. ASSUME NEW s \in Session, Connect(s) PROVE Inv'
  <2>1. PICK c \in Conn \ {s2n_handle} :
            /\ \A u \in Session : conn[u] # c
            /\ conn' = [conn EXCEPT ![s] = c]
            /\ good' = good \cup {c}
    BY <1>5 DEF Connect
  <2>2. TypeOK' /\ Mutex'
    BY <1>5, <2>1 DEF Connect, TypeOK, Mutex, InCall
  <2>3. \A u \in Session : u # s => pc[u] # "store"
    BY <1>5 DEF Connect, Mutex, InCall
  <2>4. Connections'
    BY <1>5, <2>1, <2>3 DEF Connect, TypeOK, Connections
  <2> QED BY <2>2, <2>4
<1>6. ASSUME NEW s \in Session, Store(s) PROVE Inv'
  <2>1. \A u \in Session : u # s => pc[u] \notin InCall
    BY <1>6 DEF Store, Mutex, InCall
  <2>2. TypeOK' /\ Mutex'
    BY <1>6, <2>1 DEF Store, Cache, Return, TypeOK, Mutex, InCall, Connections
  <2>3. Connections'
    BY <1>6, <2>1 DEF Store, Cache, Return, TypeOK, InCall, Connections
  <2> QED BY <2>2, <2>3
<1>7. ASSUME NEW s \in Session, SessionEnds(s) PROVE Inv'
  BY <1>7 DEF SessionEnds, TypeOK, Mutex, InCall, Connections
<1>8. CASE Break
  BY <1>8 DEF Break, TypeOK, Mutex, Connections
<1>9. CASE UNCHANGED vars
  BY <1>9 DEF vars, TypeOK, Mutex, Connections
<1> QED
  BY <1>1, <1>2, <1>3, <1>4, <1>5, <1>6, <1>7, <1>8, <1>9 DEF Next, Step

\* The invariant holds in every reachable state.
THEOREM ManagerInvariant == Spec => []Inv
BY InvInit, InvStep, PTL DEF Spec

\* get_s2n_handle never leaves two good connections behind, however calls and
\* failures interleave.
THEOREM OneConnection == Spec => []OneGoodConnection
<1>1. Inv => OneGoodConnection
  <2> SUFFICES ASSUME Inv, NEW c \in good, NEW d \in good PROVE c = d
    BY DEF OneGoodConnection
  <2>1. \A s, u \in Session : pc[s] = "store" /\ pc[u] = "store" => s = u
    BY DEF Inv, Mutex, InCall
  <2> QED
    BY <2>1 DEF Inv, Connections
<1> QED
  BY <1>1, ManagerInvariant, PTL

\* A good connection that a session uses is the cached one, which the next
\* session will be given.
GoodIsShared ==
    \A s \in Session : pc[s] = "held" /\ conn[s] \in good => conn[s] = s2n_handle

\* Sessions with a good connection share the cached one.
THEOREM GoodShared == Spec => []GoodIsShared
<1>1. Inv => GoodIsShared
  BY DEF Inv, Connections, GoodIsShared
<1> QED
  BY <1>1, ManagerInvariant, PTL

\* A good cached connection is never replaced or forgotten.
GoodConnectionKept == [][s2n_handle' # s2n_handle => s2n_handle \notin good]_vars

\* A good cached connection stays cached until it breaks.
THEOREM GoodKept == Spec => GoodConnectionKept
<1>1. Inv /\ [Next]_vars => [s2n_handle' # s2n_handle => s2n_handle \notin good]_vars
  BY DEF Inv, Connections, Next, Step, Request, Acquire, CheckCached, GetClient, GetFails, Connect,
         Store, SessionEnds, Break, vars
<1> QED
  BY <1>1, ManagerInvariant, PTL DEF Spec, GoodConnectionKept

--------------------------------------------------------------------------------
(* The queue                                                                 *)

\* The queue holds the sessions that wait for the mutex, each of them once.
Queue ==
    /\ \A s \in Session : pc[s] = "lock" <=> \E i \in DOMAIN waiters : waiters[i] = s
    /\ \A i, j \in DOMAIN waiters : waiters[i] = waiters[j] => i = j

\* What joining the queue and leaving it do to the places in it.
LEMMA Places ==
    ASSUME NEW q \in Seq(Session)
    PROVE  /\ DOMAIN q = 1 .. Len(q) /\ \A i \in DOMAIN q : q[i] \in Session
           /\ \A s \in Session : /\ Append(q, s) \in Seq(Session)
                                 /\ DOMAIN Append(q, s) = 1 .. Len(q) + 1
                                 /\ \A i \in DOMAIN q : Append(q, s)[i] = q[i]
                                 /\ Append(q, s)[Len(q) + 1] = s
           /\ q # <<>> => /\ 1 \in DOMAIN q /\ Head(q) = q[1]
                          /\ DOMAIN Tail(q) = 1 .. Len(q) - 1
                          /\ \A i \in DOMAIN q : i # 1 => Tail(q)[i - 1] = q[i]
                          /\ \A i \in DOMAIN Tail(q) : Tail(q)[i] = q[i + 1]
<1>1. DOMAIN q = 1 .. Len(q) /\ \A i \in DOMAIN q : q[i] \in Session
  OBVIOUS
<1>2. \A s \in Session : /\ Append(q, s) \in Seq(Session)
                         /\ DOMAIN Append(q, s) = 1 .. Len(q) + 1
                         /\ \A i \in DOMAIN q : Append(q, s)[i] = q[i]
                         /\ Append(q, s)[Len(q) + 1] = s
  OBVIOUS
<1>3. ASSUME q # <<>>
      PROVE  /\ 1 \in DOMAIN q /\ Head(q) = q[1]
             /\ DOMAIN Tail(q) = 1 .. Len(q) - 1
             /\ \A i \in DOMAIN q : i # 1 => Tail(q)[i - 1] = q[i]
             /\ \A i \in DOMAIN Tail(q) : Tail(q)[i] = q[i + 1]
  BY <1>3
<1> QED BY <1>1, <1>2, <1>3

\* A step other than those that change the queue moves no session in or out of it.
LEMMA QueueUntouched ==
    ASSUME Inv, NEW s \in Session,
           \/ CheckCached(s) \/ GetClient(s) \/ GetFails(s) \/ Connect(s) \/ Store(s)
           \/ SessionEnds(s)
    PROVE  waiters' = waiters /\ \A u \in Session : pc'[u] = "lock" <=> pc[u] = "lock"
BY DEF CheckCached, GetClient, GetFails, Connect, Store, SessionEnds, Return, Inv, TypeOK

\* Every step keeps the queue.
LEMMA QueueStep == Inv /\ Queue /\ [Next]_vars => Queue'
<1> SUFFICES ASSUME Inv, Queue, [Next]_vars PROVE Queue'
  OBVIOUS
<1>0. waiters \in Seq(Session)
  BY DEF Inv, TypeOK
<1>1. ASSUME NEW s \in Session, Request(s) PROVE Queue'
  <2>1. waiters' = Append(waiters, s) /\ pc[s] = "idle" /\ pc' = [pc EXCEPT ![s] = "lock"]
    BY <1>1 DEF Request, Enqueue
  <2>2. /\ DOMAIN waiters' = 1 .. Len(waiters) + 1 /\ Len(waiters) \in Nat
        /\ DOMAIN waiters = 1 .. Len(waiters)
        /\ \A i \in DOMAIN waiters : waiters'[i] = waiters[i] /\ waiters[i] # s
        /\ waiters'[Len(waiters) + 1] = s
    BY <1>0, <2>1, Places DEF Queue
  <2>3. \A u \in Session : pc'[u] = "lock" <=> pc[u] = "lock" \/ u = s
    BY <2>1 DEF Inv, TypeOK
  <2>4. \A u \in Session : (\E i \in DOMAIN waiters' : waiters'[i] = u) <=>
                               (\E i \in DOMAIN waiters : waiters[i] = u) \/ u = s
    BY <2>2
  <2>5. \A i, j \in DOMAIN waiters' : waiters'[i] = waiters'[j] => i = j
    BY <2>2 DEF Queue
  <2> QED BY <2>3, <2>4, <2>5 DEF Queue
<1>2. ASSUME NEW s \in Session, Acquire(s) PROVE Queue'
  <2>1. /\ waiters' = Tail(waiters) /\ waiters # <<>> /\ Head(waiters) = s
        /\ pc[s] = "lock" /\ pc' = [pc EXCEPT ![s] = "check"]
    BY <1>2 DEF Acquire
  <2>2. /\ DOMAIN waiters = 1 .. Len(waiters) /\ Len(waiters) \in Nat
        /\ DOMAIN waiters' = 1 .. Len(waiters) - 1
        /\ 1 \in DOMAIN waiters /\ waiters[1] = s
        /\ \A i \in DOMAIN waiters : i # 1 => waiters'[i - 1] = waiters[i]
        /\ \A i \in DOMAIN waiters' : waiters'[i] = waiters[i + 1]
    BY <1>0, <2>1, Places
  <2>3. \A u \in Session : pc'[u] = "lock" <=> pc[u] = "lock" /\ u # s
    BY <2>1 DEF Inv, TypeOK
  <2>4. \A i \in DOMAIN waiters' : i + 1 \in DOMAIN waiters /\ waiters'[i] # s
    <3>1. \A i \in DOMAIN waiters' : i + 1 \in DOMAIN waiters /\ i + 1 # 1
      BY <2>2
    <3> QED BY <2>2, <3>1 DEF Queue
  <2>5. ASSUME NEW u \in Session, u # s, NEW i \in DOMAIN waiters, waiters[i] = u
        PROVE  i - 1 \in DOMAIN waiters' /\ waiters'[i - 1] = u
    BY <2>2, <2>5
  <2>6. \A u \in Session : (\E i \in DOMAIN waiters' : waiters'[i] = u) <=>
                               (\E i \in DOMAIN waiters : waiters[i] = u) /\ u # s
    BY <2>2, <2>4, <2>5
  <2>7. \A i, j \in DOMAIN waiters' : waiters'[i] = waiters'[j] => i = j
    <3>1. ASSUME NEW i \in DOMAIN waiters', NEW j \in DOMAIN waiters', waiters'[i] = waiters'[j]
          PROVE  i = j
      <4>1. i + 1 = j + 1
        BY <2>2, <2>4, <3>1 DEF Queue
      <4> QED BY <2>2, <4>1
    <3> QED BY <3>1
  <2> QED BY <2>3, <2>6, <2>7 DEF Queue
<1>3. ASSUME NEW s \in Session,
             \/ CheckCached(s) \/ GetClient(s) \/ GetFails(s) \/ Connect(s) \/ Store(s)
             \/ SessionEnds(s)
      PROVE  Queue'
  BY <1>3, QueueUntouched DEF Queue
<1>4. CASE Break \/ UNCHANGED vars
  BY <1>4 DEF Break, vars, Queue
<1> QED BY <1>1, <1>2, <1>3, <1>4 DEF Next, Step

\* The queue is what tokio's first-in first-out mutex keeps, in every reachable state.
THEOREM QueueInvariant == Spec => []Queue
<1>1. Init => Queue
  <2>1. Init => waiters = <<>> /\ \A s \in Session : pc[s] = "idle"
    BY DEF Init
  <2> QED BY <2>1 DEF Queue
<1> QED BY <1>1, QueueStep, ManagerInvariant, PTL DEF Spec

\* Nobody waits for the mutex in vain: a session that has it is still inside its call,
\* and when none has it the first in the queue is a session that waits for it.
CallsMoveOn ==
    \A s \in Session : pc[s] = "lock" =>
        \/ owner # None /\ pc[owner] \in {"check", "client", "connect", "store"}
        \/ owner = None /\ waiters # <<>> /\ pc[Head(waiters)] = "lock"

\* Nobody waits for the mutex of get_s2n_handle in vain: its owner is inside its call,
\* or the mutex is free and the first session in the queue can take it.
THEOREM NoDeadlock == Spec => []CallsMoveOn
<1>1. Inv /\ Queue => CallsMoveOn
  <2> SUFFICES ASSUME Inv, Queue, NEW s \in Session, pc[s] = "lock"
               PROVE  \/ owner # None /\ pc[owner] \in InCall
                      \/ owner = None /\ waiters # <<>> /\ pc[Head(waiters)] = "lock"
    BY DEF CallsMoveOn, InCall
  <2>1. owner # None => pc[owner] \in InCall
    BY DEF Inv, TypeOK, Mutex
  <2>2. waiters \in Seq(Session) /\ waiters # <<>>
    BY DEF Inv, TypeOK, Queue
  <2>3. pc[Head(waiters)] = "lock"
    BY <2>2, Places DEF Queue
  <2> QED BY <2>1, <2>2, <2>3
<1> QED BY <1>1, ManagerInvariant, QueueInvariant, PTL

\* A session that waits is not overtaken, however many sessions come after it and
\* however often their calls fail and are made again.
NoOvertaking ==
    [][\A s \in Session : \A i \in DOMAIN waiters :
          waiters[i] = s /\ pc'[s] = "lock" =>
              \E j \in DOMAIN waiters' : j <= i /\ waiters'[j] = s]_vars

\* A session that waits only moves forward in the queue.
THEOREM FirstComeFirstServed == Spec => NoOvertaking
<1>1. ASSUME Inv, Queue, [Next]_vars, NEW s \in Session, NEW i \in DOMAIN waiters,
             waiters[i] = s, pc'[s] = "lock"
      PROVE  \E j \in DOMAIN waiters' : j <= i /\ waiters'[j] = s
  <2>0. waiters \in Seq(Session) /\ i \in Nat
    BY <1>1 DEF Inv, TypeOK
  <2>1. CASE waiters' = waiters
    BY <1>1, <2>0, <2>1
  <2>2. ASSUME NEW u \in Session, Request(u)
        PROVE  \E j \in DOMAIN waiters' : j <= i /\ waiters'[j] = s
    <3>1. waiters' = Append(waiters, u)
      BY <2>2 DEF Request, Enqueue
    <3>2. i \in DOMAIN waiters' /\ waiters'[i] = s
      BY <1>1, <2>0, <3>1, Places
    <3> QED BY <2>0, <3>2
  <2>3. ASSUME NEW u \in Session, Acquire(u)
        PROVE  \E j \in DOMAIN waiters' : j <= i /\ waiters'[j] = s
    <3>1. waiters' = Tail(waiters) /\ waiters # <<>> /\ Head(waiters) = u /\ pc'[u] = "check"
      BY <1>1, <2>3 DEF Acquire, Inv, TypeOK
    <3>2. i # 1
      BY <1>1, <2>0, <3>1, Places
    <3>3. i - 1 \in DOMAIN waiters' /\ waiters'[i - 1] = s
      BY <1>1, <2>0, <3>1, <3>2, Places
    <3> QED BY <2>0, <3>3
  <2> QED
    BY <1>1, <2>1, <2>2, <2>3, QueueUntouched DEF Next, Step, Break, vars
<1>2. Inv /\ Queue /\ [Next]_vars =>
         [\A s \in Session : \A i \in DOMAIN waiters :
             waiters[i] = s /\ pc'[s] = "lock" =>
                 \E j \in DOMAIN waiters' : j <= i /\ waiters'[j] = s]_vars
  BY <1>1
<1> QED BY <1>2, ManagerInvariant, QueueInvariant, PTL DEF Spec, NoOvertaking

--------------------------------------------------------------------------------
(* The refinement                                                            *)

\* The initial state of the manager is an initial state of the abstract one.
LEMMA ReuseInit == Init => Reuse!Init
BY NoneAssumption DEF Init, Reuse!Init, HeldBy, GivenOut

\* Every step of the manager is a step of the abstract connection, or changes
\* nothing of it.
LEMMA ReuseStep == Inv /\ Inv' /\ [Next]_vars => [Reuse!Next]_Reuse!vars
<1> SUFFICES ASSUME Inv, Inv', [Next]_vars PROVE Reuse!Next \/ UNCHANGED Reuse!vars
  OBVIOUS
<1> USE NoneAssumption DEF Inv
<1>0. \A s \in Session : HeldBy[s] = IF pc[s] = "held" THEN conn[s] ELSE None
  BY DEF HeldBy
<1>1. ASSUME NEW s \in Session,
             Request(s) \/ Acquire(s) \/ GetClient(s) \/ GetFails(s)
      PROVE  UNCHANGED Reuse!vars
  <2>1. HeldBy' = HeldBy /\ UNCHANGED <<s2n_handle, good>>
    BY <1>1 DEF Request, Acquire, GetClient, GetFails, Return, HeldBy, TypeOK
  <2> QED BY <2>1 DEF Reuse!vars, GivenOut
<1>2. ASSUME NEW s \in Session, CheckCached(s) PROVE Reuse!Next \/ UNCHANGED Reuse!vars
  <2>1. CASE CachedIsGood
    <3>1. /\ pc[s] = "check" /\ pc' = [pc EXCEPT ![s] = "held"]
          /\ conn' = [conn EXCEPT ![s] = s2n_handle] /\ s2n_handle \in good
          /\ UNCHANGED <<s2n_handle, good>>
      BY <1>2, <2>1 DEF CheckCached, Return, CachedIsGood
    <3>2. HeldBy[s] = None /\ HeldBy' = [HeldBy EXCEPT ![s] = s2n_handle]
      BY <3>1 DEF HeldBy, TypeOK
    <3>a. \A u \in Session : HeldBy'[u] = IF u = s THEN s2n_handle ELSE HeldBy[u]
      BY <3>2 DEF HeldBy
    <3>3. s2n_handle \in GivenOut /\ GivenOut' = GivenOut
      <4>1. s2n_handle \in GivenOut
        BY <3>1 DEF GivenOut
      <4>2. \A c : c \in GivenOut' <=> c \in GivenOut
        BY <3>1, <3>2, <3>a DEF GivenOut, TypeOK
      <4> QED BY <4>1, <4>2
    <3>4. Reuse!Reuse(s)
      BY <3>1, <3>2, <3>3 DEF Reuse!Reuse
    <3> QED BY <3>4 DEF Reuse!Next
  <2>2. CASE ~CachedIsGood
    <3>1. HeldBy' = HeldBy /\ UNCHANGED <<s2n_handle, good>>
      BY <1>2, <2>2 DEF CheckCached, Return, HeldBy, TypeOK
    <3> QED BY <3>1 DEF Reuse!vars, GivenOut
  <2> QED BY <2>1, <2>2
<1>3. ASSUME NEW s \in Session, Connect(s) PROVE UNCHANGED Reuse!vars
  <2>1. PICK c \in Conn \ {s2n_handle} :
            (\A u \in Session : conn[u] # c) /\ good' = good \cup {c}
    BY <1>3 DEF Connect
  <2>2. HeldBy' = HeldBy /\ s2n_handle' = s2n_handle
    BY <1>3 DEF Connect, HeldBy, TypeOK
  <2>3. c # s2n_handle /\ \A u \in Session : HeldBy[u] # c
    BY <2>1 DEF HeldBy
  <2>4. GivenOut' = GivenOut
    BY <2>1, <2>2, <2>3 DEF GivenOut
  <2> QED BY <2>2, <2>4 DEF Reuse!vars
<1>4. ASSUME NEW s \in Session, Store(s) PROVE Reuse!Next \/ UNCHANGED Reuse!vars
  <2>1. CASE conn[s] \in good
    <3>1. /\ pc[s] = "store" /\ pc' = [pc EXCEPT ![s] = "held"]
          /\ s2n_handle' = conn[s] /\ conn' = conn /\ good' = good
      BY <1>4, <2>1 DEF Store, Cache, Return, TypeOK
    <3>2. /\ HeldBy[s] = None /\ HeldBy' = [HeldBy EXCEPT ![s] = conn[s]]
      BY <3>1 DEF HeldBy, TypeOK
    <3>3. /\ s2n_handle \notin good /\ conn[s] # s2n_handle
          /\ \A u \in Session : HeldBy[u] # conn[s]
      BY <3>1 DEF Connections, HeldBy
    <3>4. \A c \in good : c = conn[s]
      BY <3>1, <3>3 DEF Connections, Mutex, InCall
    <3>5. GivenOut = {} /\ GivenOut' = {conn[s]}
      BY <2>1, <3>1, <3>3, <3>4 DEF GivenOut
    <3>6. Reuse!Replace(s, conn[s])
      BY <3>1, <3>2, <3>3, <3>5 DEF Reuse!Replace
    <3> QED BY <3>1, <3>6 DEF Reuse!Next, Connections
  <2>2. CASE conn[s] \notin good
    <3>1. HeldBy' = HeldBy /\ UNCHANGED <<s2n_handle, good>>
      BY <1>4, <2>2 DEF Store, Return, HeldBy, TypeOK
    <3> QED BY <3>1 DEF Reuse!vars, GivenOut
  <2> QED BY <2>1, <2>2
<1>5. ASSUME NEW s \in Session, SessionEnds(s) PROVE Reuse!Next
  <2>0. /\ pc[s] = "held" /\ pc' = [pc EXCEPT ![s] = "idle"]
        /\ conn' = [conn EXCEPT ![s] = None]
        /\ UNCHANGED <<s2n_handle, good>>
    BY <1>5 DEF SessionEnds
  <2>a. \A u \in Session : HeldBy'[u] = IF u = s THEN None ELSE HeldBy[u]
    BY <2>0 DEF HeldBy, TypeOK
  <2>1. /\ pc[s] = "held" /\ conn[s] \in Conn
        /\ HeldBy[s] = conn[s] /\ HeldBy' = [HeldBy EXCEPT ![s] = None]
        /\ UNCHANGED <<s2n_handle, good>>
    <3>1. HeldBy' = [HeldBy EXCEPT ![s] = None]
      BY <2>a DEF HeldBy
    <3> QED BY <2>0, <3>1, <1>0 DEF Connections
  <2>2. conn[s] \in good => conn[s] = s2n_handle
    BY <2>1 DEF Connections
  <2>3. GivenOut' = GivenOut
    <3>1. \A c : c \in GivenOut' <=> c \in GivenOut
      BY <2>1, <2>2, <2>a DEF GivenOut, TypeOK
    <3> QED BY <3>1
  <2>4. Reuse!Release(s)
    BY <2>1, <2>3 DEF Reuse!Release
  <2> QED BY <2>4 DEF Reuse!Next
<1>6. CASE Break
  <2>1. PICK c \in good : good' = good \ {c}
    BY <1>6 DEF Break
  <2>2. HeldBy' = HeldBy /\ s2n_handle' = s2n_handle
    BY <1>6 DEF Break, HeldBy
  <2>3. GivenOut' = GivenOut \ {c}
    BY <2>1, <2>2 DEF GivenOut
  <2>4. CASE c \in GivenOut
    BY <2>2, <2>3, <2>4 DEF Reuse!Break, Reuse!Next
  <2>5. CASE c \notin GivenOut
    BY <2>2, <2>3, <2>5 DEF Reuse!vars
  <2> QED BY <2>4, <2>5
<1>7. CASE UNCHANGED vars
  BY <1>7 DEF vars, Reuse!vars, HeldBy, GivenOut
<1> QED
  BY <1>1, <1>2, <1>3, <1>4, <1>5, <1>6, <1>7 DEF Next, Step

\* The manager implements the abstract shared connection.
THEOREM ManagerImplementsReuse == Spec => ImplementsReuse
<1>1. Inv /\ Inv' /\ [Next]_vars => [Reuse!Next]_Reuse!vars
  BY ReuseStep
<1> QED
  BY ReuseInit, <1>1, ManagerInvariant, PTL DEF Spec, ImplementsReuse, Reuse!Spec
================================================================================
