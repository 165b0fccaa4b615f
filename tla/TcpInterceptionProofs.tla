-------------------------- MODULE TcpInterceptionProofs --------------------------
(***************************************************************************)
(* Proofs about TcpInterception, for any number of connections, sessions   *)
(* and sockets and any destinations.                                       *)
(***************************************************************************)
EXTENDS TcpInterception, SplitTunnelProofs, WellFoundedInduction

\* What a session was made for: its socket listens on its destination, and the path
\* is the one the destination calls for.
SessionsBound ==
    \A t \in Task : handle[t] # None =>
        /\ target[t] \in Address
        /\ sockets[handle[t]].listen = target[t]
        /\ direct[t] = IsPrivateV4(target[t])

\* A connection is carried by a socket that listens on its destination.
TuplesBound ==
    \A s \in Slot : \A c \in Conn : sockets[s].tuple = c => sockets[s].listen = dest[c]

\* The inductive invariant.
Inv == TypeOK /\ SocketOwnership /\ SessionsBound /\ TuplesBound

\* The sentinel is none of the values it stands beside.
LEMMA NoneFacts ==
    /\ None \notin Slot /\ None \notin Conn /\ None \notin Address
    /\ Anywhere \notin Address /\ Anywhere # None /\ NoSocket.listen = None
    /\ NoSocket \notin Socket /\ NoSocket.tuple = None /\ NoSocket.state = "free"
    /\ \A k \in Socket : k # NoSocket
BY ConnAssumption DEF Slot, NoSocket, Socket

\* Nothing is there at first.
LEMMA InvInit == Init => Inv
<1> SUFFICES ASSUME Init PROVE Inv
  OBVIOUS
<1>1. TypeOK
  BY ConnAssumption DEF Init, TypeOK
<1>2. SocketOwnership /\ SessionsBound
  BY NoneFacts DEF Init, SocketOwnership, SessionsBound
<1>3. TuplesBound
  BY NoneFacts DEF Init, TuplesBound
<1> QED BY <1>1, <1>2, <1>3 DEF Inv

\* What a segment does to one socket.
LEMMA ReceivedFacts ==
    ASSUME NEW k \in Socket, NEW s, NEW c \in Conn, NEW kind
    PROVE  /\ Received(k, s, c, kind) \in Socket
           /\ Received(k, s, c, kind).listen = k.listen
           /\ \/ Received(k, s, c, kind).tuple \in {k.tuple, None}
              \/ Received(k, s, c, kind).tuple = c /\ k.state = "Listen" /\ kind = "syn"
BY DEF Received, Socket

\* What a segment does to a set of sockets.
LEMMA IngressFacts ==
    ASSUME NEW set \in [Slot -> Socket \cup {NoSocket}], NEW c \in Conn, NEW kind
    PROVE  /\ Ingress(set, c, kind) \in [Slot -> Socket \cup {NoSocket}]
           /\ \A s \in Slot :
                 /\ Ingress(set, c, kind)[s] = NoSocket <=> set[s] = NoSocket
                 /\ Ingress(set, c, kind)[s].listen = set[s].listen
                 /\ \/ Ingress(set, c, kind)[s].tuple \in {set[s].tuple, None}
                    \/ Ingress(set, c, kind)[s].tuple = c /\ set[s].listen \in {dest[c], Anywhere}
<1> DEFINE I == Ingress(set, c, kind)
<1>1. ASSUME NEW s \in Slot
      PROVE  /\ I[s] \in Socket \cup {NoSocket}
             /\ I[s] = NoSocket <=> set[s] = NoSocket
             /\ I[s].listen = set[s].listen
             /\ \/ I[s].tuple \in {set[s].tuple, None}
                \/ I[s].tuple = c /\ set[s].listen \in {dest[c], Anywhere}
  <2>1. I[s] = IF First(set, s, c, kind) THEN Received(set[s], s, c, kind) ELSE set[s]
    BY DEF Ingress
  <2>2. CASE ~First(set, s, c, kind)
    BY <2>1, <2>2
  <2>3. CASE First(set, s, c, kind)
    <3>1. Accepts(set[s], c, kind)
      BY <2>3 DEF First
    <3>2. set[s] \in Socket
      BY <3>1, NoneFacts DEF Accepts
    <3>3. kind = "syn" /\ set[s].state = "Listen" => set[s].listen \in {dest[c], Anywhere}
      BY <3>1 DEF Accepts
    <3> HIDE DEF I
    <3> QED BY <2>1, <2>3, <3>2, <3>3, ReceivedFacts, NoneFacts
  <2> QED BY <2>2, <2>3
<1>2. I = [s \in Slot |-> I[s]]
  BY DEF Ingress
<1> HIDE DEF I
<1>3. I \in [Slot -> Socket \cup {NoSocket}]
  BY <1>1, <1>2
<1> QED BY <1>1, <1>3 DEF I

\* A packet keeps sockets and sessions together.
LEMMA InvPacket ==
    ASSUME Inv, NEW c \in Conn, NEW kind, Packet(c, kind), dest' = dest
    PROVE  /\ sockets' \in [Slot -> Socket \cup {NoSocket}]
           /\ handle' \in [Task -> Slot \cup {None}]
           /\ target' \in [Task -> Address \cup {None}]
           /\ direct' \in [Task -> BOOLEAN]
           /\ SocketOwnership' /\ SessionsBound' /\ TuplesBound'
<1> USE DEF Inv, TypeOK
<1>1. dest[c] \in Address
  BY ConnAssumption
<1>2. CASE ~Intercepts(kind) /\ sockets' = Ingress(sockets, c, kind) /\ UNCHANGED taskVars
  <2>1. /\ sockets' \in [Slot -> Socket \cup {NoSocket}]
        /\ \A s \in Slot :
              /\ sockets'[s] = NoSocket <=> sockets[s] = NoSocket
              /\ sockets'[s].listen = sockets[s].listen
              /\ \/ sockets'[s].tuple \in {sockets[s].tuple, None}
                 \/ sockets'[s].tuple = c /\ sockets[s].listen \in {dest[c], Anywhere}
    BY <1>2, IngressFacts
  <2>2. UNCHANGED <<handle, target, direct>>
    BY <1>2 DEF taskVars
  <2>3. SocketOwnership'
    BY <2>1, <2>2 DEF SocketOwnership
  <2>4. SessionsBound'
    BY <2>1, <2>2 DEF SessionsBound
  <2>5. TuplesBound'
    <3> SUFFICES ASSUME NEW s \in Slot, NEW d \in Conn, sockets'[s].tuple = d
                 PROVE  sockets'[s].listen = dest[d]
      BY DEF TuplesBound
    <3>1. sockets[s].listen # Anywhere
      BY NoneFacts DEF Socket
    <3> QED BY <2>1, <3>1, NoneFacts DEF TuplesBound
  <2> QED BY <2>1, <2>2, <2>3, <2>4, <2>5
<1>3. ASSUME NEW s \in Slot, NEW t \in Task, FreeSlot(s), handle[t] = None,
             sockets' = AddAndPoll(s, c, kind),
             handle' = [handle EXCEPT ![t] = s],
             target' = [target EXCEPT ![t] = dest[c]],
             direct' = [direct EXCEPT ![t] = IsPrivateV4(dest[c])]
      PROVE  /\ sockets' \in [Slot -> Socket \cup {NoSocket}]
             /\ handle' \in [Task -> Slot \cup {None}]
             /\ target' \in [Task -> Address \cup {None}]
             /\ direct' \in [Task -> BOOLEAN]
             /\ SocketOwnership' /\ SessionsBound' /\ TuplesBound'
  <2> DEFINE added == [sockets EXCEPT ![s] = Listener(dest[c])]
  <2>1. Listener(dest[c]) \in Socket /\ Listener(dest[c]).listen = dest[c]
        /\ Listener(dest[c]).tuple = None
    BY <1>1 DEF Listener, Socket
  <2>2. /\ added \in [Slot -> Socket \cup {NoSocket}]
        /\ added[s] \in Socket /\ added[s].listen = dest[c] /\ added[s].tuple = None
        /\ \A r \in Slot : r # s => added[r] = sockets[r]
    BY <2>1
  <2>3. sockets' = Ingress(added, c, kind)
    BY <1>3 DEF AddAndPoll
  <2> HIDE DEF added
  <2>4. /\ sockets' \in [Slot -> Socket \cup {NoSocket}]
        /\ \A r \in Slot :
              /\ sockets'[r] = NoSocket <=> added[r] = NoSocket
              /\ sockets'[r].listen = added[r].listen
              /\ \/ sockets'[r].tuple \in {added[r].tuple, None}
                 \/ sockets'[r].tuple = c /\ added[r].listen \in {dest[c], Anywhere}
    BY <2>2, <2>3, IngressFacts
  <2>5. /\ handle' \in [Task -> Slot \cup {None}]
        /\ target' \in [Task -> Address \cup {None}]
        /\ handle'[t] = s /\ target'[t] = dest[c] /\ direct'[t] = IsPrivateV4(dest[c])
        /\ \A u \in Task : u # t =>
              handle'[u] = handle[u] /\ target'[u] = target[u] /\ direct'[u] = direct[u]
    BY <1>1, <1>3
  <2>6. direct' \in [Task -> BOOLEAN]
    BY <1>3 DEF IsPrivateV4
  <2>7. \A u \in Task : handle[u] # s
    BY <1>3, NoneFacts DEF FreeSlot, SocketOwnership
  <2>8. SocketOwnership'
    <3>1. ASSUME NEW r \in Slot, sockets'[r] # NoSocket PROVE \E u \in Task : handle'[u] = r
      <4>1. CASE r = s
        BY <4>1, <2>5
      <4>2. CASE r # s
        <5>1. sockets[r] # NoSocket
          BY <3>1, <4>2, <2>2, <2>4
        <5>2. PICK u \in Task : handle[u] = r
          BY <5>1 DEF SocketOwnership
        <5>3. u # t
          BY <5>2, <1>3, NoneFacts
        <5> QED BY <5>2, <5>3, <2>5
      <4> QED BY <4>1, <4>2
    <3>2. ASSUME NEW u \in Task, handle'[u] # None PROVE sockets'[handle'[u]] # NoSocket
      <4>1. CASE u = t
        BY <4>1, <2>2, <2>4, <2>5, NoneFacts
      <4>2. CASE u # t
        <5>1. handle[u] \in Slot /\ handle[u] # s /\ handle'[u] = handle[u]
          BY <4>2, <3>2, <2>5, <2>7
        <5>2. sockets[handle[u]] # NoSocket
          BY <5>1, NoneFacts DEF SocketOwnership
        <5> QED BY <5>1, <5>2, <2>2, <2>4
      <4> QED BY <4>1, <4>2
    <3>3. \A u, v \in Task : handle'[u] # None /\ handle'[u] = handle'[v] => u = v
      BY <2>5, <2>7, NoneFacts DEF SocketOwnership
    <3> QED BY <3>1, <3>2, <3>3 DEF SocketOwnership
  <2>9. SessionsBound'
    <3> SUFFICES ASSUME NEW u \in Task, handle'[u] # None
                 PROVE  /\ target'[u] \in Address
                        /\ sockets'[handle'[u]].listen = target'[u]
                        /\ direct'[u] = IsPrivateV4(target'[u])
      BY DEF SessionsBound
    <3>1. CASE u = t
      BY <3>1, <1>1, <2>2, <2>4, <2>5
    <3>2. CASE u # t
      <4>1. handle[u] \in Slot /\ handle[u] # s /\ handle'[u] = handle[u]
        BY <3>2, <2>5, <2>7
      <4> QED BY <3>2, <4>1, <2>2, <2>4, <2>5 DEF SessionsBound
    <3> QED BY <3>1, <3>2
  <2>10. TuplesBound'
    <3> SUFFICES ASSUME NEW r \in Slot, NEW d \in Conn, sockets'[r].tuple = d
                 PROVE  sockets'[r].listen = dest[d]
      BY DEF TuplesBound
    <3>1. added[r].listen # Anywhere
      BY <2>2, NoneFacts DEF Socket
    <3>2. added[r].tuple = d => added[r].listen = dest[d]
      BY <2>2, NoneFacts DEF TuplesBound
    <3> QED BY <2>4, <3>1, <3>2, NoneFacts
  <2> QED BY <2>4, <2>5, <2>6, <2>8, <2>9, <2>10
<1> QED BY <1>2, <1>3 DEF Packet

\* Every step of the device preserves the invariant.
LEMMA InvDevice ==
    ASSUME Inv, NEW c \in Conn, Syn(c) \/ SynAgain(c) \/ Ack(c) \/ Rst(c) \/ End(c)
    PROVE  Inv'
<1>1. dest' = dest /\ \E kind \in {"syn", "ack", "rst", "end"} : Packet(c, kind)
  BY DEF Syn, SynAgain, Ack, Rst, End
<1>2. /\ sockets' \in [Slot -> Socket \cup {NoSocket}]
      /\ handle' \in [Task -> Slot \cup {None}]
      /\ target' \in [Task -> Address \cup {None}]
      /\ direct' \in [Task -> BOOLEAN]
      /\ SocketOwnership' /\ SessionsBound' /\ TuplesBound'
  BY <1>1, InvPacket
<1>3. app' \in [Conn -> {"closed", "syn", "open"}]
  BY DEF Syn, SynAgain, Ack, Rst, End, Inv, TypeOK
<1>4. syns' \in [Conn -> 0 .. MaxSyn]
  <2>1. CASE Syn(c)
    BY <2>1, ConnAssumption DEF Syn, Inv, TypeOK
  <2>2. CASE SynAgain(c)
    <3>1. syns[c] + 1 \in 0 .. MaxSyn /\ syns' = [syns EXCEPT ![c] = syns[c] + 1]
      BY <2>2, ConnAssumption DEF SynAgain, Inv, TypeOK
    <3> QED BY <3>1 DEF Inv, TypeOK
  <2> QED BY <2>1, <2>2 DEF Ack, Rst, End, Inv, TypeOK
<1>5. peer' \in [Conn -> Slot \cup {None}]
  <2>1. Route(sockets', c) \in Slot \cup {None}
    BY DEF Route
  <2> QED BY <2>1 DEF Syn, SynAgain, Ack, Rst, End, Inv, TypeOK
<1>6. TypeOK'
  BY <1>1, <1>2, <1>3, <1>4, <1>5 DEF Inv, TypeOK
<1> QED BY <1>2, <1>6 DEF Inv

\* Every step of a session preserves the invariant.
LEMMA InvSession ==
    ASSUME Inv, NEW t \in Task, PollShutdown(t) \/ DropSocket(t)
    PROVE  Inv'
<1> USE DEF Inv, TypeOK
<1>1. CASE PollShutdown(t)
  <2>1. handle[t] \in Slot /\ sockets[handle[t]] \in Socket
    BY <1>1 DEF PollShutdown, SocketOwnership
  <2>2. /\ sockets' \in [Slot -> Socket \cup {NoSocket}]
        /\ \A s \in Slot : /\ sockets'[s] = NoSocket <=> sockets[s] = NoSocket
                           /\ sockets'[s].listen = sockets[s].listen
                           /\ sockets'[s].tuple = sockets[s].tuple
    <3> DEFINE k(st) == [sockets[handle[t]] EXCEPT !.state = st]
    <3>1. \A st \in {"Closed", "Open"} :
             /\ k(st) \in Socket
             /\ k(st).listen = sockets[handle[t]].listen
             /\ k(st).tuple = sockets[handle[t]].tuple
      BY <2>1 DEF Socket
    <3>2. \/ sockets' = sockets
          \/ \E st \in {"Closed", "Open"} : sockets' = [sockets EXCEPT ![handle[t]] = k(st)]
      BY <1>1 DEF PollShutdown
    <3> HIDE DEF k
    <3> QED BY <2>1, <3>1, <3>2, NoneFacts
  <2>3. UNCHANGED <<dest, app, syns, peer, handle, target, direct>>
    BY <1>1 DEF PollShutdown, appVars, taskVars
  <2>4. TypeOK'
    BY <2>2, <2>3
  <2>5. SocketOwnership'
    BY <2>2, <2>3 DEF SocketOwnership
  <2>6. SessionsBound' /\ TuplesBound'
    BY <2>2, <2>3 DEF SessionsBound, TuplesBound
  <2> QED BY <2>4, <2>5, <2>6
<1>2. CASE DropSocket(t)
  <2>1. /\ handle[t] \in Slot
        /\ sockets' = [sockets EXCEPT ![handle[t]] = NoSocket]
        /\ handle' = [handle EXCEPT ![t] = None]
        /\ target' = [target EXCEPT ![t] = None]
        /\ direct' = [direct EXCEPT ![t] = FALSE]
        /\ UNCHANGED <<dest, app, syns>>
    BY <1>2 DEF DropSocket
  <2>2. peer' \in [Conn -> Slot \cup {None}]
    BY <1>2 DEF DropSocket
  <2>3. TypeOK'
    BY <2>1, <2>2
  <2>4. SocketOwnership'
    BY <2>1, NoneFacts DEF SocketOwnership
  <2>5. SessionsBound'
    BY <2>1, NoneFacts DEF SessionsBound, SocketOwnership
  <2>6. TuplesBound'
    BY <2>1, NoneFacts DEF TuplesBound
  <2> QED BY <2>3, <2>4, <2>5, <2>6
<1> QED BY <1>1, <1>2

\* The invariant holds in every reachable state.
THEOREM InterceptionInvariant == Spec => []Inv
<1>1. Inv /\ [Next]_vars => Inv'
  <2>1. ASSUME Inv, UNCHANGED vars PROVE Inv'
    BY <2>1 DEF vars, appVars, taskVars, Inv, TypeOK, SocketOwnership, SessionsBound, TuplesBound
  <2> QED BY <2>1, InvDevice, InvSession DEF Next
<1> QED
  BY InvInit, <1>1, PTL DEF Spec

\* State is of its type and every socket in the set listens, for any set of
\* connections, sessions and slots.
THEOREM InterceptionTypes == Spec => []TypeOK
BY InterceptionInvariant, PTL DEF Inv

\* Every socket has exactly one session and every session its socket.
THEOREM SocketsOwned == Spec => []SocketOwnership
BY InterceptionInvariant, PTL DEF Inv

\* A session is connected to the destination of whatever connection it carries.
THEOREM OwnDestination == Spec => []ServesOwnDestination
<1>1. Inv => ServesOwnDestination
  BY DEF Inv, TypeOK, ServesOwnDestination, SessionsBound, TuplesBound
<1> QED BY <1>1, InterceptionInvariant, PTL

\* Every connection takes the path that its destination calls for.
THEOREM DirectExactly == Spec => []DirectIffPrivate
<1>1. Inv => DirectIffPrivate
  <2> SUFFICES ASSUME Inv, NEW t \in Task, NEW c \in Conn, handle[t] # None,
                      sockets[handle[t]].tuple = c
               PROVE  direct[t] <=> InPrivateBlock(dest[c])
    BY DEF DirectIffPrivate
  <2>1. target[t] = dest[c] /\ target[t] \in Address /\ direct[t] = IsPrivateV4(target[t])
    BY DEF Inv, TypeOK, SessionsBound, TuplesBound
  <2> QED BY <2>1, PrivateIffInBlock
<1> QED BY <1>1, InterceptionInvariant, PTL

--------------------------------------------------------------------------------
(* Which socket takes a SYN                                                  *)

\* One of several slots comes first.
LEMMA LeastSlot ==
    ASSUME NEW T \in SUBSET Slot, T # {}
    PROVE  \E s \in T : \A r \in T : s <= r
<1>1. T \subseteq Nat BY ConnAssumption DEF Slot
<1>2. PICK s \in T : \A r \in T : <<r, s>> \notin OpToRel(<, Nat)
  BY <1>1, NatLessThanWellFounded, WFMin, Zenon
<1>3. \A r \in T : ~(r < s)
  BY <1>1, <1>2 DEF OpToRel
<1> QED BY <1>1, <1>3

\* At most one socket gets a segment.
LEMMA FirstUnique ==
    ASSUME NEW set, NEW c, NEW kind, NEW s \in Slot, NEW r \in Slot,
           First(set, s, c, kind), First(set, r, c, kind)
    PROVE  s = r
BY DEF First, Slot

\* The SYN of a connection that no socket has goes to one listening socket: to the
\* one that was added for it, or to one that was left listening before.
LEMMA SynTaken ==
    ASSUME Inv, NEW c \in Conn, Packet(c, "syn"), \A s \in Slot : sockets[s].tuple # c
    PROVE  \E added \in Slot, taker \in Slot :
              /\ taker # added => sockets[taker].state = "Listen"
              /\ sockets'[taker].state = "SynReceived" /\ sockets'[taker].tuple = c
              /\ \A r \in Slot : r # taker =>
                    sockets'[r] = IF r = added THEN Listener(dest[c]) ELSE sockets[r]
<1>1. PICK added \in Slot : sockets' = AddAndPoll(added, c, "syn")
  BY DEF Packet, Intercepts
<1> DEFINE set == [sockets EXCEPT ![added] = Listener(dest[c])]
           T == {s \in Slot : Accepts(set[s], c, "syn")}
<1>2. /\ set[added] = Listener(dest[c])
      /\ \A r \in Slot : r # added => set[r] = sockets[r]
      /\ sockets' = Ingress(set, c, "syn")
  BY <1>1 DEF AddAndPoll, Inv, TypeOK
<1>3. set \in [Slot -> Socket \cup {NoSocket}]
  BY ConnAssumption DEF Listener, Socket, Inv, TypeOK
<1> HIDE DEF set
<1>4. \A r \in Slot : set[r].tuple # c
  BY <1>2, NoneFacts DEF Listener
<1>5. added \in T
  BY <1>2 DEF Accepts, Listener
<1>6. PICK taker \in T : \A r \in T : taker <= r
  BY <1>5, LeastSlot
<1>7. taker \in Slot /\ First(set, taker, c, "syn")
  BY <1>6 DEF First
<1>8. set[taker].state = "Listen"
  BY <1>4, <1>7 DEF First, Accepts
<1>9. set[taker] \in Socket
  BY <1>3, <1>7, <1>8, NoneFacts
<1>10. sockets'[taker] = [set[taker] EXCEPT !.state = "SynReceived", !.tuple = c]
  BY <1>2, <1>7, <1>8 DEF Ingress, Received
<1>11. sockets'[taker].state = "SynReceived" /\ sockets'[taker].tuple = c
  BY <1>9, <1>10 DEF Socket
<1>12. \A r \in Slot : r # taker => sockets'[r] = set[r]
  BY <1>2, <1>7, FirstUnique DEF Ingress
<1> QED BY <1>2, <1>7, <1>8, <1>11, <1>12

\* The SYN of a new connection is answered in the same step, by a socket that belongs
\* to a session, whatever sockets have been left listening.
THEOREM SynIsAnswered == Spec => SynAnswered
<1>1. ASSUME Inv, Inv', NEW c \in Conn, [Next]_vars, app[c] = "closed", app'[c] = "syn"
      PROVE  \E t \in Task : /\ handle'[t] # None /\ handle'[t] = peer'[c]
                             /\ sockets'[handle'[t]].state = "SynReceived"
                             /\ sockets'[handle'[t]].tuple = c
  <2>1. Syn(c)
    BY <1>1 DEF Next, vars, appVars, Syn, SynAgain, Ack, Rst, End, PollShutdown, DropSocket,
        Inv, TypeOK
  <2>2. PICK added \in Slot, taker \in Slot :
              /\ sockets'[taker].state = "SynReceived" /\ sockets'[taker].tuple = c
              /\ \A r \in Slot : r # taker =>
                    sockets'[r] = IF r = added THEN Listener(dest[c]) ELSE sockets[r]
    BY <1>1, <2>1, SynTaken DEF Syn
  <2>3. \A r \in Slot : r # taker => sockets'[r].tuple # c
    BY <2>1, <2>2, NoneFacts DEF Syn, Listener
  <2>4. \A r \in Slot : First(sockets', r, c, "ack") <=> r = taker
    <3>1. \A r \in Slot : Accepts(sockets'[r], c, "ack") <=> r = taker
      BY <2>2, <2>3 DEF Accepts
    <3> QED BY <3>1 DEF First, Slot
  <2>5. Route(sockets', c) = taker
    BY <2>4 DEF Route
  <2>6. peer'[c] = taker
    BY <1>1, <2>1, <2>5 DEF Syn, Inv, TypeOK
  <2>7. sockets'[taker] # NoSocket
    BY <2>2, NoneFacts
  <2>8. PICK t \in Task : handle'[t] = taker
    BY <1>1, <2>7 DEF Inv, SocketOwnership
  <2> QED BY <2>2, <2>6, <2>8, NoneFacts
<1>2. Inv /\ Inv' /\ [Next]_vars =>
         [\A c \in Conn : app[c] = "closed" /\ app'[c] = "syn" =>
             \E t \in Task : /\ handle'[t] # None /\ handle'[t] = peer'[c]
                             /\ sockets'[handle'[t]].state = "SynReceived"
                             /\ sockets'[handle'[t]].tuple = c]_vars
  BY <1>1
<1> QED BY <1>2, InterceptionInvariant, PTL DEF Spec, SynAnswered

\* A segment that is not a SYN makes a socket listen only if its connection was not
\* established yet.
LEMMA ListensAgain ==
    ASSUME Inv, NEW c \in Conn, NEW kind \in {"ack", "rst", "end"}, Packet(c, kind),
           NEW s \in Slot, sockets[s].state # "Listen", sockets'[s].state = "Listen"
    PROVE  sockets[s].state = "SynReceived"
<1>1. sockets' = Ingress(sockets, c, kind)
  BY DEF Packet, Intercepts
<1>2. sockets'[s] = Received(sockets[s], s, c, kind)
  BY <1>1 DEF Ingress
<1>3. First(sockets, s, c, kind)
  BY <1>1 DEF Ingress
<1>4. sockets[s] \in Socket
  BY <1>3, NoneFacts DEF First, Accepts, Inv, TypeOK
<1> QED BY <1>2, <1>4 DEF Received, Socket

\* A socket is left listening only by a SYN that was sent again or a connection that
\* was given up before it was established, or in exchange for one that was listening.
THEOREM OrphansAreExplained == Spec => OrphansExplained
<1>1. ASSUME Inv, NEW s \in Slot, [Next]_vars,
             sockets[s].state # "Listen", sockets'[s].state = "Listen"
      PROVE  \/ \E c \in Conn : app[c] = "syn" /\ syns'[c] = syns[c] + 1
             \/ sockets[s].state = "SynReceived"
             \/ \E r \in Slot : sockets[r].state = "Listen" /\ sockets'[r].state = "SynReceived"
  <2>1. ASSUME NEW c \in Conn, Syn(c)
        PROVE  \E r \in Slot : sockets[r].state = "Listen" /\ sockets'[r].state = "SynReceived"
    <3>1. PICK added \in Slot, taker \in Slot :
                /\ taker # added => sockets[taker].state = "Listen"
                /\ sockets'[taker].state = "SynReceived"
                /\ \A r \in Slot : r # taker =>
                      sockets'[r] = IF r = added THEN Listener(dest[c]) ELSE sockets[r]
      BY <1>1, <2>1, SynTaken DEF Syn
    <3>2. s # taker /\ s = added
      BY <1>1, <3>1
    <3> QED BY <3>1, <3>2
  <2>2. ASSUME NEW c \in Conn, SynAgain(c) PROVE app[c] = "syn" /\ syns'[c] = syns[c] + 1
    BY <1>1, <2>2 DEF SynAgain, Inv, TypeOK
  <2>3. ASSUME NEW c \in Conn, Ack(c) \/ Rst(c) \/ End(c)
        PROVE  sockets[s].state = "SynReceived"
    BY <1>1, <2>3, ListensAgain DEF Ack, Rst, End
  <2>4. ASSUME NEW t \in Task, PollShutdown(t) \/ DropSocket(t) PROVE FALSE
    <3>1. handle[t] \in Slot /\ sockets[handle[t]] \in Socket
      BY <1>1, <2>4 DEF PollShutdown, DropSocket, Inv, TypeOK, SocketOwnership
    <3>2. CASE PollShutdown(t)
      BY <1>1, <3>1, <3>2 DEF PollShutdown, Inv, TypeOK, Socket
    <3>3. CASE DropSocket(t)
      BY <1>1, <3>1, <3>3, NoneFacts DEF DropSocket, Inv, TypeOK
    <3> QED BY <2>4, <3>2, <3>3
  <2> QED BY <1>1, <2>1, <2>2, <2>3, <2>4 DEF Next, vars
<1>2. Inv /\ [Next]_vars =>
         [\A s \in Slot : sockets[s].state # "Listen" /\ sockets'[s].state = "Listen" =>
             \/ \E c \in Conn : app[c] = "syn" /\ syns'[c] = syns[c] + 1
             \/ sockets[s].state = "SynReceived"
             \/ \E r \in Slot : sockets[r].state = "Listen" /\ sockets'[r].state = "SynReceived"]_vars
  BY <1>1
<1> QED BY <1>2, InterceptionInvariant, PTL DEF Spec, OrphansExplained
--------------------------------------------------------------------------------
(* Where the segments of a connection go                                     *)

\* The socket has the connection.
Carries(k, c) == k.state \in {"SynReceived", "Open"} /\ k.tuple = c

\* A segment that is not a SYN goes to the first socket that has its connection.
LEMMA AckToCarrier ==
    ASSUME NEW set, NEW s, NEW c
    PROVE  First(set, s, c, "ack") <=>
              Carries(set[s], c) /\ \A r \in Slot : Carries(set[r], c) => s <= r
BY DEF First, Accepts, Carries

\* A segment of one connection takes no other connection from a socket and gives none
\* to it.
LEMMA OthersUntouched ==
    ASSUME NEW set \in [Slot -> Socket \cup {NoSocket}], NEW c \in Conn, NEW d \in Conn, c # d,
           NEW kind, NEW s \in Slot
    PROVE  Carries(Ingress(set, d, kind)[s], c) <=> Carries(set[s], c)
<1>1. CASE ~First(set, s, d, kind)
  BY <1>1 DEF Ingress
<1>2. CASE First(set, s, d, kind)
  <2>1. Accepts(set[s], d, kind) /\ Ingress(set, d, kind)[s] = Received(set[s], s, d, kind)
    BY <1>2 DEF First, Ingress
  <2>2. set[s] \in Socket
    BY <2>1, NoneFacts DEF Accepts
  <2>3. ~Carries(set[s], c)
    BY <2>1 DEF Accepts, Carries
  <2>4. CASE set[s].state = "Listen"
    <3>1. kind = "syn"
      BY <2>1, <2>4 DEF Accepts
    <3>2. Received(set[s], s, d, kind).tuple = d
      BY <2>2, <2>4, <3>1 DEF Received, Socket
    <3> QED BY <2>1, <2>3, <3>2 DEF Carries
  <2>5. CASE set[s].state # "Listen"
    <3>1. set[s].tuple = d
      BY <2>1, <2>5 DEF Accepts
    <3>2. Received(set[s], s, d, kind).tuple \in {d, None}
      BY <2>2, <2>5, <3>1, ReceivedFacts
    <3> QED BY <2>1, <2>3, <3>2, NoneFacts DEF Carries
  <2> QED BY <2>4, <2>5
<1> QED BY <1>1, <1>2

\* A packet of one connection leaves the sockets that have another one as they are, the
\* socket that is added for a SYN included.
LEMMA PacketOfOther ==
    ASSUME Inv, NEW c \in Conn, NEW d \in Conn, c # d, NEW kind, Packet(d, kind), NEW s \in Slot
    PROVE  Carries(sockets'[s], c) <=> Carries(sockets[s], c)
<1>1. CASE ~Intercepts(kind) /\ sockets' = Ingress(sockets, d, kind)
  BY <1>1, OthersUntouched DEF Inv, TypeOK
<1>2. ASSUME NEW added \in Slot, FreeSlot(added), sockets' = AddAndPoll(added, d, kind)
      PROVE  Carries(sockets'[s], c) <=> Carries(sockets[s], c)
  <2> DEFINE set == [sockets EXCEPT ![added] = Listener(dest[d])]
  <2>1. dest[d] \in Address
    BY ConnAssumption DEF Inv, TypeOK
  <2>2. set \in [Slot -> Socket \cup {NoSocket}]
    BY <2>1 DEF Listener, Socket, Inv, TypeOK
  <2>3. Carries(set[s], c) <=> Carries(sockets[s], c)
    BY <1>2, NoneFacts DEF Carries, Listener, FreeSlot, Inv, TypeOK
  <2>4. sockets' = Ingress(set, d, kind)
    BY <1>2 DEF AddAndPoll
  <2> HIDE DEF set
  <2> QED BY <2>2, <2>3, <2>4, OthersUntouched
<1> QED BY <1>1, <1>2 DEF Packet

\* The acknowledgement that finds its connection changes no carrier.
LEMMA AckKeepsCarriers ==
    ASSUME Inv, NEW c \in Conn, Packet(c, "ack"), NEW s \in Slot,
           First(sockets, peer[c], c, "ack")
    PROVE  Carries(sockets'[s], c) <=> Carries(sockets[s], c)
<1>1. sockets' = Ingress(sockets, c, "ack")
  BY DEF Packet, Intercepts
<1>2. CASE ~First(sockets, s, c, "ack")
  BY <1>1, <1>2 DEF Ingress
<1>3. CASE First(sockets, s, c, "ack")
  <2>1. sockets'[s] = Received(sockets[s], s, c, "ack") /\ Carries(sockets[s], c)
    BY <1>1, <1>3, AckToCarrier DEF Ingress
  <2>2. sockets[s] \in Socket
    BY <2>1, NoneFacts DEF Carries, Inv, TypeOK
  <2> QED BY <2>1, <2>2 DEF Carries, Received, Socket
<1> QED BY <1>2, <1>3

\* The segments of an open connection keep finding the socket it was established with.
LEMMA ReachStep == Inv /\ SegmentsReachPeer /\ [Next]_vars => SegmentsReachPeer'
<1> SUFFICES ASSUME Inv, SegmentsReachPeer, [Next]_vars,
                    NEW c \in Conn, app'[c] = "open", peer'[c] # None
             PROVE  /\ Carries(sockets'[peer'[c]], c)
                    /\ \A r \in Slot : Carries(sockets'[r], c) => peer'[c] <= r
  BY DEF SegmentsReachPeer, First, Accepts, Carries
<1>0. peer[c] # None => peer[c] \in Slot
  BY DEF Inv, TypeOK
<1>1. ASSUME app[c] = "open", peer'[c] = peer[c],
             \A r \in Slot : Carries(sockets'[r], c) => Carries(sockets[r], c),
             Carries(sockets[peer[c]], c) => Carries(sockets'[peer[c]], c)
      PROVE  /\ Carries(sockets'[peer'[c]], c)
             /\ \A r \in Slot : Carries(sockets'[r], c) => peer'[c] <= r
  BY <1>1, AckToCarrier DEF SegmentsReachPeer
<1>2. ASSUME NEW d \in Conn, c # d, Syn(d) \/ SynAgain(d) \/ Ack(d) \/ Rst(d) \/ End(d)
      PROVE  /\ Carries(sockets'[peer'[c]], c)
             /\ \A r \in Slot : Carries(sockets'[r], c) => peer'[c] <= r
  <2>1. \E kind \in {"syn", "ack", "rst", "end"} : Packet(d, kind)
    BY <1>2 DEF Syn, SynAgain, Ack, Rst, End
  <2>2. app[c] = "open" /\ peer'[c] = peer[c]
    BY <1>2 DEF Syn, SynAgain, Ack, Rst, End, Inv, TypeOK
  <2> QED BY <1>0, <1>1, <1>2, <2>1, <2>2, PacketOfOther
<1>3. CASE Ack(c)
  <2>1. peer[c] # None /\ First(sockets, peer[c], c, "ack") /\ peer' = peer /\ Packet(c, "ack")
    BY <1>3 DEF Ack, Inv, TypeOK
  <2>2. \A r \in Slot : Carries(sockets'[r], c) <=> Carries(sockets[r], c)
    BY <2>1, AckKeepsCarriers
  <2> QED BY <1>0, <2>1, <2>2, AckToCarrier
<1>4. ~(Syn(c) \/ SynAgain(c) \/ Rst(c) \/ End(c))
  BY DEF Syn, SynAgain, Rst, End, Inv, TypeOK
<1>5. ASSUME NEW t \in Task, PollShutdown(t)
      PROVE  /\ Carries(sockets'[peer'[c]], c)
             /\ \A r \in Slot : Carries(sockets'[r], c) => peer'[c] <= r
  <2>1. handle[t] \in Slot /\ sockets[handle[t]] \in Socket /\ UNCHANGED <<app, peer>>
    BY <1>5 DEF PollShutdown, appVars, Inv, TypeOK, SocketOwnership
  <2>2. \A r \in Slot : Carries(sockets'[r], c) => Carries(sockets[r], c)
    BY <1>5, <2>1 DEF PollShutdown, Carries, Inv, TypeOK, Socket
  <2>3. \A r \in Slot : Carries(sockets[r], c) => Carries(sockets'[r], c)
    BY <1>5, <2>1 DEF PollShutdown, Carries, Inv, TypeOK, Socket
  <2> QED BY <1>0, <1>1, <2>1, <2>2, <2>3
<1>6. ASSUME NEW t \in Task, DropSocket(t)
      PROVE  /\ Carries(sockets'[peer'[c]], c)
             /\ \A r \in Slot : Carries(sockets'[r], c) => peer'[c] <= r
  <2>1. handle[t] \in Slot /\ app' = app /\ peer'[c] = peer[c] /\ peer[c] # handle[t]
    BY <1>6 DEF DropSocket, Inv, TypeOK
  <2>2. /\ \A r \in Slot : r # handle[t] => sockets'[r] = sockets[r]
        /\ sockets'[handle[t]] = NoSocket
    BY <1>6, <2>1 DEF DropSocket, Inv, TypeOK
  <2>3. ~Carries(NoSocket, c)
    BY NoneFacts DEF Carries
  <2> QED BY <1>0, <1>1, <2>1, <2>2, <2>3
<1>7. CASE UNCHANGED vars
  BY <1>0, <1>1, <1>7 DEF vars, appVars
<1> QED BY <1>2, <1>3, <1>4, <1>5, <1>6, <1>7 DEF Next

\* The segments of an open connection reach the socket it was established with for as
\* long as that socket is there, whatever sockets are added in the slots before it.
THEOREM PeerReached == Spec => []SegmentsReachPeer
<1>1. Init => SegmentsReachPeer
  BY DEF Init, SegmentsReachPeer
<1> QED
  BY <1>1, ReachStep, InterceptionInvariant, PTL DEF Spec
================================================================================
