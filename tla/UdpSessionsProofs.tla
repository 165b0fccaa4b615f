--------------------------- MODULE UdpSessionsProofs ---------------------------
(***************************************************************************)
(* Proofs about UdpSessions, for any sets of endpoints and tasks and any   *)
(* bounds.  The first theorem is about who owns what: types, sockets, the  *)
(* session table.  The others are proved on top of it.                     *)
(***************************************************************************)
EXTENDS UdpSessions, TLAPS, FiniteSetTheorems

\* A session that is not running has not touched its loops, and one that holds a
\* datagram has it in its buffer.
IdleTasks ==
    \A t \in Task :
        /\ phase[t] \in {"none", "setup"} => s_task[t] = "poll" /\ r_task[t] = "recv"
        /\ s_task[t] = "hold" => s_buf[t] \in Datagram

\* A slot without a socket has no rings.
EmptySlots == \A h \in Slot : bound[h] = NoDst => rx[h] = <<>> /\ tx[h] = <<>>

\* The inductive invariant of ownership.
Owned == TypeOK /\ SocketOwnership /\ SessionTable /\ IdleTasks /\ EmptySlots

\* Nothing is owned at first.
LEMMA OwnedInit == Init => Owned
BY BoundsAssumption, EndpointsAssumption, NoDgramAssumption
DEF Init, Owned, TypeOK, SocketOwnership, SessionTable, IdleTasks, EmptySlots, Live, NoSlot

\* What Ingress does to one ring: append the datagram, or nothing.
LEMMA IngressFacts ==
    ASSUME TypeOK, NEW b, NEW d \in Datagram
    PROVE  /\ Ingress(b, rx, d) \in [Slot -> Seq(Datagram)]
           /\ \A h \in Slot : Len(Ingress(b, rx, d)[h]) <= RxCap
           /\ \A h \in Slot : b[h] # d.dst => Ingress(b, rx, d)[h] = rx[h]
           /\ \A h \in Slot : \/ Ingress(b, rx, d)[h] = rx[h]
                              \/ Ingress(b, rx, d)[h] = Append(rx[h], d) /\ b[h] = d.dst
<1> DEFINE I == Ingress(b, rx, d)
<1>1. /\ I = [h \in Slot |-> I[h]]
      /\ \A h \in Slot : \/ I[h] = rx[h]
                         \/ I[h] = Append(rx[h], d) /\ Len(rx[h]) < RxCap /\ b[h] = d.dst
  BY DEF Ingress, Lowest
<1>2. \A h \in Slot : I[h] \in Seq(Datagram) /\ Len(I[h]) <= RxCap
  <2> SUFFICES ASSUME NEW h \in Slot PROVE I[h] \in Seq(Datagram) /\ Len(I[h]) <= RxCap
    OBVIOUS
  <2> HIDE DEF I
  <2>1. rx[h] \in Seq(Datagram) /\ Len(rx[h]) <= RxCap /\ Len(rx[h]) \in Nat
    BY DEF TypeOK
  <2>2. CASE I[h] = rx[h]
    BY <2>1, <2>2
  <2>3. CASE I[h] = Append(rx[h], d) /\ Len(rx[h]) < RxCap
    BY <2>1, <2>3, BoundsAssumption
  <2> QED
    BY <1>1, <2>2, <2>3
<1> HIDE DEF I
<1>3. I \in [Slot -> Seq(Datagram)]
  BY <1>1, <1>2
<1> QED
  BY <1>1, <1>2, <1>3 DEF I

\* The handle of no session is not a slot.
LEMMA NoSlotFact == NoSlot \notin Slot
BY DEF NoSlot, Slot

\* A datagram is its source and its destination.
LEMMA DatagramFacts ==
    \A d \in Datagram : d.src \in Src /\ d.dst \in Dst /\ d = [src |-> d.src, dst |-> d.dst]
BY DEF Datagram

\* Polling the engine keeps the types of what it changes.
LEMMA PollTypes ==
    ASSUME TypeOK, Poll
    PROVE  /\ tx' \in [Slot -> Seq(Dst \cup {TunnelAddr})] /\ \A h \in Slot : tx'[h] = <<>> /\ Len(tx'[h]) <= TxCap
           /\ wakers' \in [Slot -> Task \cup {NoTask, GoneTask}]
           /\ sent' \in Packet \cup {NoDgram}
           /\ s_task' \in [Task -> {"poll", "wait", "hold"}]
           /\ r_task' \in [Task -> {"recv", "hold", "full"}]
           /\ \A t \in Task : s_task[t] = "poll" => s_task'[t] = "poll"
           /\ \A t \in Task : s_task'[t] = "hold" => s_task[t] = "hold"
           /\ \A t \in Task : r_task[t] = "recv" => r_task'[t] = "recv"
BY BoundsAssumption DEF TypeOK, Poll, Wake, Silent

\* Ownership survives every packet the device sends (stunnel_process_packet).
LEMMA OwnedDevice == Owned /\ Device => Owned'
<1> SUFFICES ASSUME Owned, Device PROVE Owned'
  OBVIOUS
<1> USE DEF Owned
<1>1. ASSUME NEW d \in Datagram, ProcessKnown(d) PROVE Owned'
  <2>1. TypeOK'
    BY <1>1, IngressFacts, PollTypes DEF ProcessKnown, TypeOK, taskVars
  <2>2. SocketOwnership' /\ SessionTable'
    BY <1>1 DEF ProcessKnown, taskVars, SocketOwnership, SessionTable, Live, SrcEndpoint, TargetAddr
  <2>3. IdleTasks'
    BY <1>1, PollTypes DEF ProcessKnown, taskVars, IdleTasks
  <2>4. EmptySlots'
    BY <1>1, IngressFacts, PollTypes, DatagramFacts, EndpointsAssumption
    DEF ProcessKnown, EmptySlots
  <2> QED BY <2>1, <2>2, <2>3, <2>4
<1>2. ASSUME NEW d \in Datagram, NEW t \in Task, ProcessNew(d, t) PROVE Owned'
  <2>0. PICK h \in Slot : /\ bound[h] = NoDst
                          /\ bound' = [bound EXCEPT ![h] = d.dst]
                          /\ udp_sessions' = [udp_sessions EXCEPT ![d.src] = h]
                          /\ handle' = [handle EXCEPT ![t] = h]
    BY <1>2 DEF ProcessNew, FreeSlot
  <2>a. /\ phase[t] = "none" /\ phase' = [phase EXCEPT ![t] = "setup"]
        /\ opener' = [opener EXCEPT ![t] = d]
        /\ udp_sessions[d.src] = NoSlot
        /\ rx' = Ingress(bound', rx, d) /\ Poll
        /\ s_buf' = s_buf /\ quiet' = quiet
    BY <1>2 DEF ProcessNew
  <2>b. d.src \in Src /\ d.dst \in Dst /\ d.dst # NoDst
    BY DatagramFacts, EndpointsAssumption
  <2>1. TypeOK'
    BY <2>0, <2>a, <2>b, IngressFacts, PollTypes DEF TypeOK
  <2>c. \A u \in Task : /\ phase'[u] = IF u = t THEN "setup" ELSE phase[u]
                        /\ handle'[u] = IF u = t THEN h ELSE handle[u]
                        /\ opener'[u] = IF u = t THEN d ELSE opener[u]
    BY <2>0, <2>a DEF TypeOK
  <2>d. \A k \in Slot : bound'[k] = IF k = h THEN d.dst ELSE bound[k]
    BY <2>0 DEF TypeOK
  <2>e. \A s \in Src : udp_sessions'[s] = IF s = d.src THEN h ELSE udp_sessions[s]
    BY <2>0 DEF TypeOK
  <2>f. \A u \in Task : Live(u) => handle[u] \in Slot /\ opener[u] \in Datagram
                                   /\ handle[u] # h /\ opener[u].src # d.src
    BY <2>0, <2>a, <2>b, DatagramFacts, EndpointsAssumption, NoSlotFact
    DEF SocketOwnership, SessionTable, TargetAddr, SrcEndpoint
  <2>2. SocketOwnership'
    <3>1. ASSUME NEW u \in Task, Live(u)'
          PROVE  (handle[u] \in Slot /\ opener[u] \in Datagram
                   /\ bound[handle[u]] = TargetAddr(u))'
      BY <3>1, <2>a, <2>c, <2>d, <2>f DEF SocketOwnership, Live, TargetAddr
    <3>2. ASSUME NEW u \in Task, NEW v \in Task, Live(u)', Live(v)', handle'[u] = handle'[v]
          PROVE  u = v
      BY <3>2, <2>a, <2>c, <2>f DEF SocketOwnership, Live
    <3>3. ASSUME NEW k \in Slot, bound'[k] # NoDst
          PROVE  \E u \in Task : Live(u)' /\ handle'[u] = k
      BY <3>3, <2>a, <2>c, <2>d, <2>f DEF SocketOwnership, Live
    <3> QED BY <3>1, <3>2, <3>3 DEF SocketOwnership
  <2>3. SessionTable'
    <3>1. ASSUME NEW u \in Task, Live(u)' PROVE (udp_sessions[SrcEndpoint(u)] = handle[u])'
      BY <3>1, <2>a, <2>b, <2>c, <2>e, <2>f, DatagramFacts DEF SessionTable, Live, SrcEndpoint
    <3>2. ASSUME NEW s \in Src, udp_sessions'[s] # NoSlot
          PROVE  \E u \in Task : Live(u)' /\ handle'[u] = udp_sessions'[s] /\ SrcEndpoint(u)' = s
      BY <3>2, <2>a, <2>c, <2>e, <2>f DEF SessionTable, Live, SrcEndpoint
    <3> QED BY <3>1, <3>2 DEF SessionTable
  <2>4. IdleTasks'
    BY <2>a, PollTypes DEF TypeOK, IdleTasks
  <2>5. EmptySlots'
    <3>1. \A k \in Slot : bound'[k] # d.dst => rx'[k] = rx[k]
      BY <2>a, IngressFacts
    <3> QED BY <3>1, <2>a, <2>b, <2>d, PollTypes DEF EmptySlots
  <2> QED BY <2>1, <2>2, <2>3, <2>4, <2>5
<1>3. ASSUME ProcessOther PROVE Owned'
  <2>1. TypeOK'
    BY <1>3, PollTypes DEF ProcessOther, TypeOK, taskVars
  <2>2. SocketOwnership' /\ SessionTable'
    BY <1>3 DEF ProcessOther, taskVars, SocketOwnership, SessionTable, Live, SrcEndpoint, TargetAddr
  <2>3. IdleTasks' /\ EmptySlots'
    BY <1>3, PollTypes DEF ProcessOther, taskVars, IdleTasks, EmptySlots
  <2> QED BY <2>1, <2>2, <2>3
<1> QED
  BY <1>1, <1>2, <1>3 DEF Device

\* A session that stays live and leaves sockets, table and identity alone keeps
\* ownership.
LEMMA OwnedPreserved ==
    ASSUME Owned, TypeOK', IdleTasks', EmptySlots',
           UNCHANGED <<bound, udp_sessions, handle, opener>>,
           \A u \in Task : Live(u)' <=> Live(u)
    PROVE  Owned'
BY DEF Owned, SocketOwnership, SessionTable, SrcEndpoint, TargetAddr

\* Ownership survives every step of a session.
LEMMA OwnedSession == ASSUME Owned, NEW t \in Task, Session(t) PROVE Owned'
<1> USE DEF Owned
<1>0. sent' \in Packet \cup {NoDgram}
  <2>1. CASE Forward(t)
    <3>1. s_buf[t] \in Datagram /\ opener[t] \in Datagram
      BY <2>1 DEF Forward, IdleTasks, SocketOwnership, Live
    <3>2. s_buf[t].src \in Src /\ TargetAddr(t) \in Dst
      BY <3>1, DatagramFacts DEF TargetAddr
    <3>3. sent' = [payload |-> s_buf[t], addr |-> ForwardAddr(t)]
      BY <2>1 DEF Forward
    <3> QED BY <3>1, <3>2, <3>3 DEF ForwardAddr, Packet
  <2>2. CASE ~Forward(t)
    BY <2>2 DEF Session, SetupDone, SetupFails, PollRecvFrom, ForwardFails, RecvReply, RecvFails,
                PollSendTo, GoQuiet, IdleCheck, DropSocket, Silent
  <2> QED BY <2>1, <2>2
<1>1. CASE SetupDone(t) \/ SetupFails(t) \/ ForwardFails(t) \/ RecvFails(t)
  <2>1. TypeOK' /\ IdleTasks' /\ EmptySlots'
    BY <1>0, <1>1 DEF SetupDone, SetupFails, ForwardFails, RecvFails, Close, socketVars, loopVars,
                TypeOK, IdleTasks, EmptySlots
  <2>2. \A u \in Task : Live(u)' <=> Live(u)
    BY <1>1 DEF SetupDone, SetupFails, ForwardFails, RecvFails, Close, TypeOK, Live
  <2> QED
    BY <1>1, <2>1, <2>2, OwnedPreserved
    DEF SetupDone, SetupFails, ForwardFails, RecvFails, socketVars
<1>2. CASE PollRecvFrom(t)
  <2>0. handle[t] \in Slot /\ bound[handle[t]] # NoDst /\ t \in Task
    BY <1>2, DatagramFacts, EndpointsAssumption
    DEF PollRecvFrom, SocketOwnership, Live, TargetAddr
  <2>1. CASE rx[handle[t]] = <<>>
    <3>1. TypeOK' /\ IdleTasks' /\ EmptySlots'
      BY <1>0, <1>2, <2>0, <2>1 DEF PollRecvFrom, RegisterWaker, taskVars, TypeOK, IdleTasks, EmptySlots
    <3> QED
      BY <1>2, <3>1, OwnedPreserved DEF PollRecvFrom, taskVars, Live
  <2>2. CASE rx[handle[t]] # <<>>
    <3>1. rx[handle[t]] \in Seq(Datagram) /\ Len(rx[handle[t]]) <= RxCap
      BY <2>0 DEF TypeOK
    <3>2. /\ Head(rx[handle[t]]) \in Datagram
          /\ Tail(rx[handle[t]]) \in Seq(Datagram) /\ Len(Tail(rx[handle[t]])) <= RxCap
      BY <3>1, <2>2, BoundsAssumption
    <3>3. /\ rx' = [rx EXCEPT ![handle[t]] = Tail(rx[handle[t]])]
          /\ s_buf' \in {s_buf, [s_buf EXCEPT ![t] = Head(rx[handle[t]])]}
          /\ s_task' \in {s_task, [s_task EXCEPT ![t] = "hold"]}
          /\ quiet' \in {quiet, [quiet EXCEPT ![t] = FALSE]}
          /\ phase[t] = "run"
          /\ UNCHANGED <<bound, tx, udp_sessions, wakers, phase, handle, opener, r_task>>
      BY <1>2, <2>2 DEF PollRecvFrom, taskVars
    <3>a. rx' \in [Slot -> Seq(Datagram)] /\ \A h \in Slot : Len(rx'[h]) <= RxCap
      BY <2>0, <3>2, <3>3 DEF TypeOK
    <3>b. s_buf' \in [Task -> Datagram \cup {NoDgram}]
      <4> DEFINE y == Head(rx[handle[t]])
      <4>1. y \in Datagram /\ s_buf' \in {s_buf, [s_buf EXCEPT ![t] = y]}
        BY <3>2, <3>3
      <4> HIDE DEF y
      <4> QED BY <4>1 DEF TypeOK
    <3>c. s_task' \in [Task -> {"poll", "wait", "hold"}] /\ quiet' \in [Task -> BOOLEAN]
      BY <3>3 DEF TypeOK
    <3>4. TypeOK'
      BY <1>0, <3>3, <3>a, <3>b, <3>c DEF TypeOK
    <3>d. s_task'[t] = "hold" /\ s_task[t] # "hold" => s_buf'[t] = Head(rx[handle[t]])
      BY <1>2, <2>2 DEF PollRecvFrom, TypeOK
    <3>5. IdleTasks'
      <4> SUFFICES ASSUME NEW u \in Task
                   PROVE  /\ phase'[u] \in {"none", "setup"} => s_task'[u] = "poll" /\ r_task'[u] = "recv"
                          /\ s_task'[u] = "hold" => s_buf'[u] \in Datagram
        BY DEF IdleTasks
      <4>1. CASE u # t
        BY <3>3, <4>1 DEF TypeOK, IdleTasks
      <4>2. CASE u = t
        BY <1>2, <3>2, <3>3, <3>d, <4>2 DEF PollRecvFrom, TypeOK, IdleTasks
      <4> QED BY <4>1, <4>2
    <3>6. EmptySlots'
      BY <2>0, <3>3 DEF TypeOK, EmptySlots
    <3> QED
      BY <3>3, <3>4, <3>5, <3>6, OwnedPreserved DEF Live
  <2> QED BY <2>1, <2>2
<1>3. CASE Forward(t) \/ RecvReply(t) \/ GoQuiet(t)
  <2>1. TypeOK'
    BY <1>0, <1>3 DEF Forward, RecvReply, GoQuiet, socketVars, taskVars, loopVars, TypeOK
  <2>2. IdleTasks' /\ EmptySlots'
    BY <1>3 DEF Forward, RecvReply, GoQuiet, socketVars, taskVars, loopVars, TypeOK, IdleTasks, EmptySlots
  <2> QED
    BY <1>3, <2>1, <2>2, OwnedPreserved
    DEF Forward, RecvReply, GoQuiet, socketVars, taskVars, Live
<1>4. CASE PollSendTo(t)
  <2>0. handle[t] \in Slot /\ bound[handle[t]] # NoDst /\ ReplyAddr(t) \in Dst \cup {TunnelAddr}
    BY <1>4, DatagramFacts, EndpointsAssumption
    DEF PollSendTo, SocketOwnership, Live, TargetAddr, SrcEndpoint, ReplyAddr
  <2>1. tx[handle[t]] \in Seq(Dst \cup {TunnelAddr}) /\ Len(tx[handle[t]]) <= TxCap
    BY <2>0 DEF TypeOK
  <2>2. /\ Append(tx[handle[t]], ReplyAddr(t)) \in Seq(Dst \cup {TunnelAddr})
        /\ Len(tx[handle[t]]) < TxCap => Len(Append(tx[handle[t]], ReplyAddr(t))) <= TxCap
    BY <2>0, <2>1, BoundsAssumption
  <2>3. /\ \/ /\ tx' = [tx EXCEPT ![handle[t]] = Append(tx[handle[t]], ReplyAddr(t))]
              /\ Len(tx[handle[t]]) < TxCap
           \/ tx' = tx
        /\ r_task' \in {[r_task EXCEPT ![t] = "recv"], [r_task EXCEPT ![t] = "full"]}
        /\ wakers' \in {wakers, [wakers EXCEPT ![handle[t]] = t]}
        /\ phase[t] = "run"
        /\ UNCHANGED <<bound, rx, udp_sessions, phase, handle, opener, s_task, s_buf, quiet>>
    BY <1>4 DEF PollSendTo, RegisterWaker, taskVars
  <2>a. tx' \in [Slot -> Seq(Dst \cup {TunnelAddr})] /\ \A h \in Slot : Len(tx'[h]) <= TxCap
    <3>1. CASE tx' = tx
      BY <3>1 DEF TypeOK
    <3>2. CASE /\ tx' = [tx EXCEPT ![handle[t]] = Append(tx[handle[t]], ReplyAddr(t))]
               /\ Len(tx[handle[t]]) < TxCap
      <4> DEFINE y == Append(tx[handle[t]], ReplyAddr(t))
      <4>1. y \in Seq(Dst \cup {TunnelAddr}) /\ Len(y) <= TxCap /\ tx' = [tx EXCEPT ![handle[t]] = y]
        BY <2>2, <3>2
      <4> HIDE DEF y
      <4> QED BY <2>0, <4>1 DEF TypeOK
    <3> QED BY <2>3, <3>1, <3>2
  <2>b. /\ r_task' \in [Task -> {"recv", "hold", "full"}]
        /\ wakers' \in [Slot -> Task \cup {NoTask, GoneTask}]
    <3>1. /\ r_task' \in {[r_task EXCEPT ![t] = "recv"], [r_task EXCEPT ![t] = "full"]}
          /\ wakers' \in {wakers, [wakers EXCEPT ![handle[t]] = t]}
      BY <2>3
    <3>2. wakers' \in [Slot -> Task \cup {NoTask, GoneTask}]
      BY <2>0, <3>1 DEF TypeOK
    <3>3. r_task' \in [Task -> {"recv", "hold", "full"}]
      BY <3>1 DEF TypeOK
    <3> QED BY <3>2, <3>3
  <2>4. TypeOK'
    BY <1>0, <2>3, <2>a, <2>b DEF TypeOK
  <2>5. IdleTasks' /\ EmptySlots'
    BY <2>0, <2>3 DEF TypeOK, IdleTasks, EmptySlots
  <2> QED
    BY <2>3, <2>4, <2>5, OwnedPreserved DEF Live
<1>5. CASE IdleCheck(t)
  <2>1. TypeOK' /\ IdleTasks' /\ EmptySlots'
    <3>1. TypeOK'
      BY <1>0, <1>5 DEF IdleCheck, Close, Wake, socketVars, TypeOK
    <3>2. IdleTasks' /\ EmptySlots'
      BY <1>5 DEF IdleCheck, Close, Wake, socketVars, TypeOK, IdleTasks, EmptySlots
    <3> QED BY <3>1, <3>2
  <2>2. \A u \in Task : Live(u)' <=> Live(u)
    BY <1>5 DEF IdleCheck, Close, TypeOK, Live
  <2> QED
    BY <1>5, <2>1, <2>2, OwnedPreserved DEF IdleCheck, socketVars
<1>6. CASE DropSocket(t)
  <2>0. handle[t] \in Slot /\ opener[t] \in Datagram /\ Live(t)
    BY <1>6 DEF DropSocket, SocketOwnership, Live
  <2>1. TypeOK'
    BY <1>0, <1>6, <2>0, BoundsAssumption DEF DropSocket, RetainOthers, TypeOK
  <2>2. /\ \A u \in Task : /\ phase'[u] = IF u = t THEN "none" ELSE phase[u]
                           /\ u # t => handle'[u] = handle[u] /\ opener'[u] = opener[u]
        /\ \A k \in Slot : bound'[k] = IF k = handle[t] THEN NoDst ELSE bound[k]
        /\ \A s \in Src : udp_sessions'[s] =
              IF udp_sessions[s] = handle[t] THEN NoSlot ELSE udp_sessions[s]
    BY <1>6 DEF DropSocket, RetainOthers, TypeOK
  <2>3. SocketOwnership'
    <3>1. ASSUME NEW u \in Task, Live(u)'
          PROVE  (handle[u] \in Slot /\ opener[u] \in Datagram
                   /\ bound[handle[u]] = TargetAddr(u))'
      BY <3>1, <2>0, <2>2 DEF SocketOwnership, Live, TargetAddr
    <3>2. ASSUME NEW u \in Task, NEW v \in Task, Live(u)', Live(v)', handle'[u] = handle'[v]
          PROVE  u = v
      BY <3>2, <2>2 DEF SocketOwnership, Live
    <3>3. ASSUME NEW k \in Slot, bound'[k] # NoDst
          PROVE  \E u \in Task : Live(u)' /\ handle'[u] = k
      BY <3>3, <2>2 DEF SocketOwnership, Live
    <3> QED BY <3>1, <3>2, <3>3 DEF SocketOwnership
  <2>4. SessionTable'
    <3>1. ASSUME NEW u \in Task, Live(u)' PROVE (udp_sessions[SrcEndpoint(u)] = handle[u])'
      BY <3>1, <2>0, <2>2, DatagramFacts DEF SocketOwnership, SessionTable, Live, SrcEndpoint
    <3>2. ASSUME NEW s \in Src, udp_sessions'[s] # NoSlot
          PROVE  \E u \in Task : Live(u)' /\ handle'[u] = udp_sessions'[s] /\ SrcEndpoint(u)' = s
      BY <3>2, <2>2 DEF SessionTable, Live, SrcEndpoint
    <3> QED BY <3>1, <3>2 DEF SessionTable
  <2>5. IdleTasks' /\ EmptySlots'
    BY <1>6, <2>0 DEF DropSocket, TypeOK, IdleTasks, EmptySlots
  <2> QED BY <2>1, <2>3, <2>4, <2>5
<1> QED
  BY <1>1, <1>2, <1>3, <1>4, <1>5, <1>6 DEF Session

\* The ownership invariant holds in every reachable state.
THEOREM OwnershipInvariant == Spec => []Owned
<1>1. Owned /\ UNCHANGED vars => Owned'
  BY DEF vars, socketVars, taskVars, loopVars, Owned, TypeOK, SocketOwnership, SessionTable,
         IdleTasks, EmptySlots, Live, SrcEndpoint, TargetAddr
<1>2. Owned /\ [Next]_vars => Owned'
  BY <1>1, OwnedDevice, OwnedSession DEF Next
<1> QED
  BY OwnedInit, <1>2, PTL DEF Spec

\* The type invariant, with the bounds of the rings (udp.rs, lib.rs): for every
\* instance of the constants.
THEOREM TypeCorrect == Spec => []TypeOK
BY OwnershipInvariant, PTL DEF Owned

\* Every socket of the engine's set belongs to exactly one live session, however
\* slots are reused (UdpSocket::drop against handle_udp_packet).
THEOREM SocketsOwned == Spec => []SocketOwnership
BY OwnershipInvariant, PTL DEF Owned

\* udp_sessions and the live sessions agree in both directions.
THEOREM SessionTableCorrect == Spec => []SessionTable
BY OwnershipInvariant, PTL DEF Owned

--------------------------------------------------------------------------------
(* How many sessions there can be                                            *)

\* A source endpoint has at most one session.
OneSessionEach ==
    \A t, u \in Task : Live(t) /\ Live(u) /\ SrcEndpoint(t) = SrcEndpoint(u) => t = u

\* An application's endpoint has at most one session at a time, however packets, idle
\* timeouts and failures interleave (the test of udp_sessions in handle_udp_packet).
THEOREM OneSessionPerSource == Spec => []OneSessionEach
<1>1. Owned => OneSessionEach
  BY DEF Owned, SocketOwnership, SessionTable, OneSessionEach
<1> QED BY <1>1, OwnershipInvariant, PTL

\* The slots with a UDP socket, and the sources that have a session.
InUse == {h \in Slot : bound[h] # NoDst}
Served == {s \in Src : udp_sessions[s] # NoSlot}

\* The session table maps the sources that are served onto the sockets in use.
LEMMA TableOntoSockets ==
    ASSUME Owned
    PROVE  [s \in Served |-> udp_sessions[s]] \in Surjection(Served, InUse)
<1> DEFINE f == [s \in Served |-> udp_sessions[s]]
<1>1. ASSUME NEW s \in Served PROVE f[s] \in InUse
  <2>1. PICK t \in Task : Live(t) /\ handle[t] = udp_sessions[s]
    BY DEF Served, Owned, SessionTable
  <2>2. handle[t] \in Slot /\ bound[handle[t]] \in Dst
    BY <2>1, DatagramFacts DEF Owned, SocketOwnership, TargetAddr
  <2> QED BY <2>1, <2>2, EndpointsAssumption DEF InUse
<1>2. ASSUME NEW h \in InUse PROVE \E s \in Served : f[s] = h
  <2>1. PICK t \in Task : Live(t) /\ handle[t] = h
    BY DEF InUse, Owned, SocketOwnership
  <2>2. SrcEndpoint(t) \in Src /\ udp_sessions[SrcEndpoint(t)] = h /\ h \in Slot
    BY <2>1, DatagramFacts DEF Owned, SocketOwnership, SessionTable, SrcEndpoint, InUse
  <2> QED BY <2>2, NoSlotFact DEF Served
<1> QED BY <1>1, <1>2 DEF Surjection

\* As many sockets as sources at most, when there are finitely many sources.
SocketsBounded == IsFiniteSet(Src) => Cardinality(InUse) <= Cardinality(Src)

\* There are never more UDP sockets than there are application endpoints: a session
\* that ends or fails at any point gives its socket back before its source gets another.
THEOREM NoSocketLeaks == Spec => []SocketsBounded
<1>1. Owned => SocketsBounded
  <2> SUFFICES ASSUME Owned, IsFiniteSet(Src) PROVE Cardinality(InUse) <= Cardinality(Src)
    BY DEF SocketsBounded
  <2>1. Served \in SUBSET Src
    BY DEF Served
  <2>2. /\ IsFiniteSet(Served) /\ Cardinality(Served) <= Cardinality(Src)
        /\ Cardinality(Src) \in Nat /\ Cardinality(Served) \in Nat
    BY <2>1, FS_Subset, FS_CardinalityType
  <2>3. IsFiniteSet(InUse) /\ Cardinality(InUse) <= Cardinality(Served)
    BY <2>2, TableOntoSockets, FS_Surjection
  <2>4. Cardinality(InUse) \in Nat
    BY <2>3, FS_CardinalityType
  <2> QED BY <2>2, <2>3, <2>4
<1> QED BY <1>1, OwnershipInvariant, PTL

--------------------------------------------------------------------------------
(* Wakeups                                                                   *)

\* After a poll no registered session pends, and NoLostWakeup holds again
\* whatever the poll delivered.
LEMMA WakeupsAfterPoll ==
    ASSUME Owned, NoLostWakeup, Poll, UNCHANGED handle,
           \A u \in Task : phase'[u] = "run" => phase[u] = "run"
    PROVE  NoLostWakeup'
<1>1. \A u \in Task : phase[u] = "run" => handle[u] \in Slot
  BY DEF Owned, SocketOwnership, Live
<1>2. \A u \in Task : phase'[u] = "run" => s_task'[u] # "wait" /\ r_task'[u] # "full"
  BY <1>1 DEF Poll, Wake, Registered, NoLostWakeup, Owned, TypeOK
<1> QED
  BY <1>2 DEF NoLostWakeup

\* Every step keeps the sessions that pend registered.
LEMMA WakeupsStep == Owned /\ NoLostWakeup /\ [Next]_vars => NoLostWakeup'
<1> SUFFICES ASSUME Owned, NoLostWakeup, [Next]_vars PROVE NoLostWakeup'
  OBVIOUS
<1>0. \A u \in Task : phase[u] \in {"run", "closing"} => handle[u] \in Slot
  BY DEF Owned, SocketOwnership, Live
<1>00. \A u, v \in Task : Live(u) /\ Live(v) /\ handle[u] = handle[v] => u = v
  BY DEF Owned, SocketOwnership
<1>1. ASSUME NEW d \in Datagram, ProcessKnown(d) PROVE NoLostWakeup'
  BY <1>1, WakeupsAfterPoll DEF ProcessKnown, taskVars
<1>2. ASSUME NEW d \in Datagram, NEW t \in Task, ProcessNew(d, t) PROVE NoLostWakeup'
  <2>1. \A u \in Task : phase'[u] = "run" =>
            phase[u] = "run" /\ u # t /\ handle'[u] = handle[u]
    BY <1>2 DEF ProcessNew, Owned, TypeOK
  <2>2. \A u \in Task : phase'[u] = "run" => s_task'[u] # "wait" /\ r_task'[u] # "full"
    BY <1>2, <1>0, <2>1 DEF ProcessNew, Poll, Wake, Registered, NoLostWakeup, Owned, TypeOK
  <2> QED BY <2>2 DEF NoLostWakeup
<1>3. ASSUME ProcessOther PROVE NoLostWakeup'
  BY <1>3, WakeupsAfterPoll DEF ProcessOther, taskVars
<1>4. ASSUME NEW t \in Task, Session(t) PROVE NoLostWakeup'
  <2>1. CASE SetupDone(t) \/ SetupFails(t) \/ ForwardFails(t) \/ RecvFails(t)
    BY <2>1 DEF SetupDone, SetupFails, ForwardFails, RecvFails, Close, socketVars, loopVars,
                NoLostWakeup, Owned, TypeOK, IdleTasks
  <2>2. CASE PollRecvFrom(t)
    <3>1. phase[t] = "run" /\ s_task[t] = "poll" /\ UNCHANGED <<phase, handle, tx, r_task>>
      BY <2>2 DEF PollRecvFrom, taskVars
    <3>2. CASE rx[handle[t]] = <<>>
      <4>1. /\ wakers' = [wakers EXCEPT ![handle[t]] = t] /\ rx' = rx
            /\ s_task' = [s_task EXCEPT ![t] = "wait"]
        BY <2>2, <3>2 DEF PollRecvFrom, RegisterWaker
      <4> QED
        BY <3>1, <3>2, <4>1, <1>0, <1>00 DEF NoLostWakeup, Owned, TypeOK, Live
    <3>3. CASE rx[handle[t]] # <<>>
      <4>1. /\ wakers' = wakers
            /\ \A h \in Slot : h # handle[t] => rx'[h] = rx[h]
            /\ s_task' \in {s_task, [s_task EXCEPT ![t] = "hold"]}
        BY <2>2, <3>3 DEF PollRecvFrom, Owned, TypeOK
      <4>2. s_task'[t] # "wait" /\ \A u \in Task : u # t => s_task'[u] = s_task[u]
        BY <3>1, <4>1 DEF Owned, TypeOK
      <4> QED
        BY <3>1, <4>1, <4>2, <1>0, <1>00 DEF NoLostWakeup, Live
    <3> QED BY <3>2, <3>3
  <2>3. CASE Forward(t) \/ RecvReply(t) \/ GoQuiet(t) \/ IdleCheck(t)
    BY <2>3 DEF Forward, RecvReply, GoQuiet, IdleCheck, Close, Wake, socketVars, taskVars,
                loopVars, NoLostWakeup, Owned, TypeOK
  <2>4. CASE PollSendTo(t)
    <3>1. phase[t] = "run" /\ r_task[t] = "hold" /\ UNCHANGED <<phase, handle, rx, s_task>>
      BY <2>4 DEF PollSendTo, taskVars
    <3>2. CASE Len(tx[handle[t]]) < TxCap
      <4>1. /\ wakers' = wakers /\ \A h \in Slot : h # handle[t] => tx'[h] = tx[h]
            /\ r_task' = [r_task EXCEPT ![t] = "recv"]
        BY <2>4, <3>2, <1>0, BoundsAssumption DEF PollSendTo, Owned, TypeOK
      <4>2. r_task'[t] # "full" /\ \A u \in Task : u # t => r_task'[u] = r_task[u]
        BY <4>1 DEF Owned, TypeOK
      <4> QED
        BY <3>1, <4>1, <4>2, <1>0, <1>00 DEF NoLostWakeup, Live
    <3>3. CASE ~(Len(tx[handle[t]]) < TxCap)
      <4>0. Len(tx[handle[t]]) = TxCap
        <5>1. tx[handle[t]] \in Seq(Dst \cup {TunnelAddr}) /\ Len(tx[handle[t]]) <= TxCap
          BY <3>1, <1>0 DEF Owned, TypeOK
        <5> QED BY <5>1, <3>3, BoundsAssumption
      <4>1. /\ wakers' = [wakers EXCEPT ![handle[t]] = t] /\ tx' = tx
            /\ r_task' = [r_task EXCEPT ![t] = "full"]
        BY <2>4, <3>3 DEF PollSendTo, RegisterWaker
      <4> QED
        BY <3>1, <4>0, <4>1, <1>0, <1>00 DEF NoLostWakeup, Owned, TypeOK, Live
    <3> QED BY <3>2, <3>3
  <2>5. CASE DropSocket(t)
    <3>1. \A u \in Task : phase'[u] = "run" =>
              /\ u # t /\ phase[u] = "run" /\ handle[u] # handle[t]
              /\ handle'[u] = handle[u] /\ s_task'[u] = s_task[u] /\ r_task'[u] = r_task[u]
      BY <2>5, <1>00 DEF DropSocket, Owned, TypeOK, Live
    <3>2. \A h \in Slot : /\ h # handle[t] => rx'[h] = rx[h] /\ tx'[h] = tx[h]
                          /\ wakers[h] # t => wakers'[h] = wakers[h]
      BY <2>5 DEF DropSocket, Owned, TypeOK
    <3> QED
      BY <3>1, <3>2, <1>0 DEF NoLostWakeup
  <2> QED BY <1>4, <2>1, <2>2, <2>3, <2>4, <2>5 DEF Session
<1>5. CASE UNCHANGED vars
  BY <1>5 DEF vars, socketVars, taskVars, loopVars, NoLostWakeup
<1> QED
  BY <1>1, <1>2, <1>3, <1>4, <1>5 DEF Next, Device

\* No session pends without being registered, and none pends on a ring that
\* holds data: engine.poll wakes whoever the packet is for, even where a slot's
\* earlier session left a stale waker.
THEOREM WakeupsNotLost == Spec => []NoLostWakeup
<1>1. Init => NoLostWakeup
  BY DEF Init, NoLostWakeup
<1> QED
  BY <1>1, WakeupsStep, OwnershipInvariant, PTL DEF Spec

--------------------------------------------------------------------------------
(* Stale wakers                                                              *)

\* Under the handle of a session the wakers map has that session's waker or none: a
\* slot that is used again carries no waker over from the session before, although
\* the drop of a socket leaves the map alone.
WakersOfOwner == \A t \in Task : Live(t) => wakers[handle[t]] \in {t, NoTask}

\* No step leaves another session's waker, or a finished one's, under the handle of a
\* session: a slot changes hands only in a step that polls, and so empties the map.
LEMMA WakersStep == Owned /\ WakersOfOwner /\ [Next]_vars => WakersOfOwner'
<1> SUFFICES ASSUME Owned, WakersOfOwner, [Next]_vars PROVE WakersOfOwner'
  OBVIOUS
<1>0. /\ \A u \in Task : Live(u) => handle[u] \in Slot
      /\ \A u, v \in Task : Live(u) /\ Live(v) /\ handle[u] = handle[v] => u = v
  BY DEF Owned, SocketOwnership
<1>1. CASE Device
  <2>1. wakers' = [h \in Slot |-> NoTask]
    BY <1>1 DEF Device, ProcessKnown, ProcessNew, ProcessOther, Poll
  <2>2. \A u \in Task : Live(u)' => handle'[u] \in Slot
    BY <1>1, OwnedDevice DEF Owned, SocketOwnership
  <2> QED BY <2>1, <2>2 DEF WakersOfOwner
<1>2. ASSUME NEW t \in Task, Session(t) PROVE WakersOfOwner'
  <2>1. CASE \/ SetupDone(t) \/ SetupFails(t) \/ Forward(t) \/ ForwardFails(t)
             \/ RecvReply(t) \/ RecvFails(t) \/ GoQuiet(t) \/ IdleCheck(t)
    <3>1. UNCHANGED <<wakers, handle>> /\ \A u \in Task : Live(u)' => Live(u)
      BY <2>1 DEF SetupDone, SetupFails, Forward, ForwardFails, RecvReply, RecvFails, GoQuiet,
                  IdleCheck, Close, taskVars, Live, Owned, TypeOK
    <3> QED BY <3>1 DEF WakersOfOwner
  <2>2. CASE PollRecvFrom(t) \/ PollSendTo(t)
    <3>1. /\ Live(t) /\ UNCHANGED <<phase, handle>>
          /\ wakers' \in {wakers, [wakers EXCEPT ![handle[t]] = t]}
      BY <2>2 DEF PollRecvFrom, PollSendTo, RegisterWaker, taskVars, Live
    <3>2. \A u \in Task : Live(u) => wakers'[handle[u]] \in {wakers[handle[u]], u}
      BY <3>1, <1>0 DEF Owned, TypeOK
    <3> QED BY <3>1, <3>2 DEF WakersOfOwner, Live
  <2>3. CASE DropSocket(t)
    <3>1. \A u \in Task : Live(u)' => u # t /\ Live(u) /\ handle'[u] = handle[u]
      BY <2>3 DEF DropSocket, Live, Owned, TypeOK
    <3>2. \A h \in Slot : wakers[h] # t => wakers'[h] = wakers[h]
      BY <2>3 DEF DropSocket
    <3>3. NoTask # t
      BY TasksAssumption
    <3> QED BY <1>0, <3>1, <3>2, <3>3 DEF WakersOfOwner
  <2> QED BY <1>2, <2>1, <2>2, <2>3 DEF Session
<1>3. CASE UNCHANGED vars
  BY <1>3 DEF vars, taskVars, WakersOfOwner, Live
<1> QED BY <1>1, <1>2, <1>3 DEF Next

\* The waker of an earlier session of a slot is never found under the handle of the
\* session that has the slot now, although UdpSocket::drop leaves the wakers map alone.
THEOREM NoStaleWakers == Spec => []WakersOfOwner
<1>1. Init => WakersOfOwner
  BY DEF Init, WakersOfOwner, Live
<1> QED
  BY <1>1, WakersStep, OwnershipInvariant, PTL DEF Spec

--------------------------------------------------------------------------------
(* Who talks to whom                                                         *)

\* A receive ring holds datagrams for the destination its socket is bound to.
RingsOfDestination ==
    \A h \in Slot : \A i \in DOMAIN rx[h] : rx[h][i].dst = bound[h]

\* What a session sends out was sent by its own source to its own destination.
ForwardsOwnFlow ==
    \A t \in Task : phase[t] = "run" /\ s_task[t] = "hold" =>
        s_buf[t] = [src |-> SrcEndpoint(t), dst |-> TargetAddr(t)]

Flows == RingsOfDestination /\ ForwardsOwnFlow

\* A poll delivers to sockets of the packet's destination only.
LEMMA IngressOfDestination ==
    ASSUME TypeOK, RingsOfDestination, NEW b, NEW d \in Datagram,
           \A h \in Slot : rx[h] # <<>> => b[h] = bound[h]
    PROVE  \A h \in Slot : \A i \in DOMAIN Ingress(b, rx, d)[h] :
                Ingress(b, rx, d)[h][i].dst = b[h]
<1> SUFFICES ASSUME NEW h \in Slot, NEW i \in DOMAIN Ingress(b, rx, d)[h]
             PROVE  Ingress(b, rx, d)[h][i].dst = b[h]
  OBVIOUS
<1>1. rx[h] \in Seq(Datagram)
  BY DEF TypeOK
<1>2. CASE Ingress(b, rx, d)[h] = rx[h]
  <2>1. i \in DOMAIN rx[h] /\ rx[h] # <<>>
    BY <1>1, <1>2
  <2> QED BY <1>2, <2>1 DEF RingsOfDestination
<1>3. CASE Ingress(b, rx, d)[h] = Append(rx[h], d) /\ b[h] = d.dst
  <2>1. CASE i = Len(rx[h]) + 1
    BY <1>1, <1>3, <2>1
  <2>2. CASE i # Len(rx[h]) + 1
    <3>1. i \in DOMAIN rx[h] /\ Append(rx[h], d)[i] = rx[h][i] /\ rx[h] # <<>>
      BY <1>1, <1>3, <2>2
    <3> QED BY <1>3, <3>1 DEF RingsOfDestination
  <2> QED BY <2>1, <2>2
<1> QED
  BY <1>2, <1>3, IngressFacts

\* The flows survive every packet the device sends.
LEMMA FlowsDevice == Owned /\ Flows /\ Device => Flows'
<1> SUFFICES ASSUME Owned, Flows, Device PROVE Flows'
  OBVIOUS
<1> USE DEF Flows, Owned
<1>0. ASSUME Poll, UNCHANGED <<opener, s_buf>>,
             \A u \in Task : (phase'[u] = "run" => phase[u] = "run")
      PROVE  ForwardsOwnFlow'
  <2>1. \A u \in Task : s_task'[u] = "hold" => s_task[u] = "hold"
    BY <1>0 DEF Poll, Wake, TypeOK
  <2> QED BY <1>0, <2>1 DEF ForwardsOwnFlow, SrcEndpoint, TargetAddr
<1>1. ASSUME NEW d \in Datagram, ProcessKnown(d) PROVE Flows'
  <2>1. RingsOfDestination'
    BY <1>1, IngressOfDestination DEF ProcessKnown, RingsOfDestination
  <2> QED
    BY <1>0, <1>1, <2>1 DEF ProcessKnown, taskVars
<1>2. ASSUME NEW d \in Datagram, NEW t \in Task, ProcessNew(d, t) PROVE Flows'
  <2>1. RingsOfDestination'
    <3>1. \A h \in Slot : rx[h] # <<>> => bound'[h] = bound[h]
      BY <1>2 DEF ProcessNew, FreeSlot, EmptySlots, TypeOK
    <3>2. rx' = Ingress(bound', rx, d)
      BY <1>2 DEF ProcessNew
    <3> QED BY <3>1, <3>2, IngressOfDestination DEF RingsOfDestination
  <2>2. ForwardsOwnFlow'
    <3>1. \A u \in Task : phase'[u] = "run" =>
              phase[u] = "run" /\ opener'[u] = opener[u] /\ s_buf'[u] = s_buf[u]
      BY <1>2 DEF ProcessNew, TypeOK
    <3>2. \A u \in Task : s_task'[u] = "hold" => s_task[u] = "hold"
      BY <1>2 DEF ProcessNew, Poll, Wake, TypeOK
    <3> QED BY <3>1, <3>2 DEF ForwardsOwnFlow, SrcEndpoint, TargetAddr
  <2> QED BY <2>1, <2>2
<1>3. ASSUME ProcessOther PROVE Flows'
  <2>1. RingsOfDestination'
    BY <1>3 DEF ProcessOther, RingsOfDestination
  <2> QED
    BY <1>0, <1>3, <2>1 DEF ProcessOther, taskVars
<1> QED BY <1>1, <1>2, <1>3 DEF Device

\* The flows survive every step of a session.
LEMMA FlowsSession == ASSUME Owned, Flows, NEW t \in Task, Session(t) PROVE Flows'
<1> USE DEF Flows, Owned
<1>0. \A u \in Task : Live(u) => /\ handle[u] \in Slot /\ opener[u] \in Datagram
                                 /\ bound[handle[u]] = TargetAddr(u)
  BY DEF SocketOwnership
<1>00. \A u, v \in Task : Live(u) /\ Live(v) /\ handle[u] = handle[v] => u = v
  BY DEF SocketOwnership
<1>1. CASE \/ SetupDone(t) \/ SetupFails(t) \/ ForwardFails(t) \/ RecvFails(t)
           \/ Forward(t) \/ RecvReply(t) \/ GoQuiet(t) \/ IdleCheck(t)
  <2>1. UNCHANGED <<bound, rx, tx, handle, opener>>
    BY <1>1 DEF SetupDone, SetupFails, ForwardFails, RecvFails, Forward, RecvReply, GoQuiet,
                IdleCheck, socketVars, taskVars
  <2>2. \A u \in Task : Live(u)' <=> Live(u)
    BY <1>1 DEF SetupDone, SetupFails, ForwardFails, RecvFails, Forward, RecvReply, GoQuiet,
                IdleCheck, Close, taskVars, Live, TypeOK
  <2>3. \A u \in Task : phase'[u] = "run" /\ s_task'[u] = "hold" =>
            phase[u] = "run" /\ s_task[u] = "hold" /\ s_buf'[u] = s_buf[u]
    BY <1>1 DEF SetupDone, SetupFails, ForwardFails, RecvFails, Forward, RecvReply, GoQuiet,
                IdleCheck, Close, Wake, taskVars, loopVars, TypeOK, IdleTasks
  <2> QED
    BY <2>1, <2>2, <2>3
    DEF RingsOfDestination, ForwardsOwnFlow, SrcEndpoint, TargetAddr
<1>2. CASE PollRecvFrom(t)
  <2>0. /\ phase[t] = "run" /\ Live(t) /\ handle[t] \in Slot
        /\ UNCHANGED <<bound, tx, phase, handle, opener>>
    BY <1>2, <1>0 DEF PollRecvFrom, taskVars, Live
  <2>2. CASE rx[handle[t]] = <<>>
    <3>1. rx' = rx /\ s_buf' = s_buf /\ s_task' = [s_task EXCEPT ![t] = "wait"]
      BY <1>2, <2>2 DEF PollRecvFrom
    <3>2. RingsOfDestination'
      BY <2>0, <3>1 DEF RingsOfDestination
    <3>3. ForwardsOwnFlow'
      BY <2>0, <3>1 DEF ForwardsOwnFlow, SrcEndpoint, TargetAddr, TypeOK
    <3> QED BY <3>2, <3>3
  <2>3. CASE rx[handle[t]] # <<>>
    <3> DEFINE q == rx[handle[t]]
    <3>1. q \in Seq(Datagram) /\ q # <<>> /\ \A i \in DOMAIN q : q[i].dst = bound[handle[t]]
      BY <2>0, <2>3 DEF TypeOK, RingsOfDestination
    <3>2. /\ rx' = [rx EXCEPT ![handle[t]] = Tail(q)]
          /\ \/ /\ Head(q).src = SrcEndpoint(t)
                /\ s_buf' = [s_buf EXCEPT ![t] = Head(q)]
                /\ s_task' = [s_task EXCEPT ![t] = "hold"]
             \/ UNCHANGED <<s_buf, s_task>>
      BY <1>2, <2>3 DEF PollRecvFrom, Accepts
    <3> HIDE DEF q
    <3>3. /\ Head(q) \in Datagram /\ Head(q).dst = bound[handle[t]]
          /\ \A i \in DOMAIN Tail(q) : Tail(q)[i].dst = bound[handle[t]]
      BY <3>1
    <3>4. RingsOfDestination'
      BY <2>0, <3>2, <3>3 DEF RingsOfDestination, TypeOK
    <3>5. Head(q).src = SrcEndpoint(t) => Head(q) = [src |-> SrcEndpoint(t), dst |-> TargetAddr(t)]
      BY <2>0, <3>3, <1>0, DatagramFacts
    <3>6. ForwardsOwnFlow'
      BY <2>0, <3>2, <3>5 DEF ForwardsOwnFlow, SrcEndpoint, TargetAddr, TypeOK
    <3> QED BY <3>4, <3>6
  <2> QED BY <2>2, <2>3
<1>3. CASE PollSendTo(t)
  <2>0. /\ phase[t] = "run" /\ Live(t) /\ handle[t] \in Slot
        /\ UNCHANGED <<bound, rx, phase, handle, opener, s_task, s_buf>>
    BY <1>3, <1>0 DEF PollSendTo, taskVars, Live
  <2>1. RingsOfDestination' /\ ForwardsOwnFlow'
    BY <2>0 DEF RingsOfDestination, ForwardsOwnFlow, SrcEndpoint, TargetAddr
  <2> QED BY <2>1
<1>4. CASE DropSocket(t)
  <2>1. RingsOfDestination'
    BY <1>4 DEF DropSocket, RingsOfDestination, TypeOK
  <2>2. \A u \in Task : Live(u)' =>
            /\ u # t /\ Live(u) /\ phase'[u] = phase[u] /\ handle[u] # handle[t]
            /\ handle'[u] = handle[u] /\ opener'[u] = opener[u]
            /\ s_task'[u] = s_task[u] /\ s_buf'[u] = s_buf[u]
    BY <1>4, <1>00 DEF DropSocket, Live, TypeOK
  <2>4. ForwardsOwnFlow'
    BY <2>2 DEF ForwardsOwnFlow, SrcEndpoint, TargetAddr, Live
  <2> QED BY <2>1, <2>4
<1> QED
  BY <1>1, <1>2, <1>3, <1>4 DEF Session

\* What rings and sessions hold stays with the flow it belongs to.
THEOREM FlowsInvariant == Spec => []Flows
<1>1. Init => Flows
  BY DEF Init, Flows, RingsOfDestination, ForwardsOwnFlow
<1>2. Flows /\ UNCHANGED vars => Flows'
  BY DEF vars, socketVars, taskVars, loopVars, Flows, RingsOfDestination, ForwardsOwnFlow,
         SrcEndpoint, TargetAddr
<1>3. Owned /\ Flows /\ [Next]_vars => Flows'
  BY <1>2, FlowsDevice, FlowsSession DEF Next
<1> QED
  BY <1>1, <1>3, OwnershipInvariant, PTL DEF Spec

\* A session forwards only datagrams that its own source sent to its own
\* destination (the filter of s_task, udp.rs), although sockets bound to one
\* destination take each other's datagrams.
THEOREM ForwardsOwn == Spec => []ForwardsOwnFlow
BY FlowsInvariant, PTL DEF Flows


--------------------------------------------------------------------------------
(* The relay                                                                 *)

\* What an abstract state says of a session.
LEMMA SessionOfSource ==
    ASSUME Owned, Flows, NEW t \in Task, Live(t)
    PROVE  /\ SrcEndpoint(t) \in Src /\ TargetAddr(t) \in Dst /\ TargetAddr(t) # NoDst
           /\ Serving[SrcEndpoint(t)] = TargetAddr(t)
           /\ \A u \in Task : Live(u) /\ SrcEndpoint(u) = SrcEndpoint(t) => u = t
           /\ Sending(t) => /\ s_buf[t] = [src |-> SrcEndpoint(t), dst |-> TargetAddr(t)]
                            /\ s_buf[t].src = SrcEndpoint(t)
<1>1. handle[t] \in Slot /\ opener[t] \in Datagram /\ bound[handle[t]] = TargetAddr(t)
  BY DEF Owned, SocketOwnership
<1>2. SrcEndpoint(t) \in Src /\ TargetAddr(t) \in Dst /\ TargetAddr(t) # NoDst
  BY <1>1, DatagramFacts, EndpointsAssumption DEF SrcEndpoint, TargetAddr
<1>3. udp_sessions[SrcEndpoint(t)] = handle[t] /\ handle[t] # NoSlot
  BY <1>1, NoSlotFact DEF Owned, SessionTable
<1>4. Serving[SrcEndpoint(t)] = TargetAddr(t)
  BY <1>1, <1>2, <1>3 DEF Serving
<1>5. \A u \in Task : Live(u) /\ SrcEndpoint(u) = SrcEndpoint(t) => u = t
  BY DEF Owned, SocketOwnership, SessionTable
<1>6. Sending(t) => s_buf[t] = [src |-> SrcEndpoint(t), dst |-> TargetAddr(t)]
  BY DEF Flows, ForwardsOwnFlow, Sending
<1>7. Sending(t) => s_buf[t].src = SrcEndpoint(t)
  BY <1>6
<1> QED BY <1>2, <1>4, <1>5, <1>6, <1>7

\* Only its own session holds a datagram of a source.
LEMMA HandOfSource ==
    ASSUME Owned, Flows, NEW t \in Task, Live(t), NEW d \in InHand, d.src = SrcEndpoint(t)
    PROVE  Sending(t) /\ d = s_buf[t]
<1>1. PICK u \in Task : Sending(u) /\ d = s_buf[u]
  BY DEF InHand
<1>2. Live(u)
  BY <1>1 DEF Sending, Live
<1>3. d.src = SrcEndpoint(u)
  BY <1>1, <1>2, SessionOfSource
<1>4. u = t
  BY <1>2, <1>3, SessionOfSource
<1> QED BY <1>1, <1>4

\* What is in hand stays so while the same sessions hold the same datagrams.
LEMMA HandSame ==
    ASSUME \A u \in Task : /\ Sending(u)' <=> Sending(u)
                           /\ Sending(u) => s_buf'[u] = s_buf[u]
    PROVE  InHand' = InHand
BY DEF InHand

\* A session that no longer sends takes its datagram with it.
LEMMA HandLeaves ==
    ASSUME Owned, Flows, NEW t \in Task, Sending(t), ~Sending(t)',
           \A u \in Task : u # t => /\ Sending(u)' <=> Sending(u)
                                    /\ Sending(u) => s_buf'[u] = s_buf[u]
    PROVE  s_buf[t] \in InHand /\ InHand' = InHand \ {s_buf[t]}
<1>1. Live(t) /\ s_buf[t] \in InHand
  BY DEF Sending, Live, InHand
<1>2. \A u \in Task : u # t /\ Sending(u) => s_buf[u] # s_buf[t]
  <2> SUFFICES ASSUME NEW u \in Task, u # t, Sending(u), s_buf[u] = s_buf[t] PROVE FALSE
    OBVIOUS
  <2>1. Live(u)
    BY DEF Sending, Live
  <2>2. s_buf[u].src = SrcEndpoint(u)
    BY <2>1, SessionOfSource
  <2>3. s_buf[t].src = SrcEndpoint(t)
    BY <1>1, SessionOfSource
  <2> QED BY <1>1, <2>1, <2>2, <2>3, SessionOfSource
<1>3. \A d : d \in InHand' <=> d \in InHand /\ d # s_buf[t]
  BY <1>2 DEF InHand
<1> QED BY <1>1, <1>3

\* The sources that are served stay so while the table and the sockets do.
LEMMA ServingSame == UNCHANGED <<bound, udp_sessions>> => Serving' = Serving
BY DEF Serving

\* A packet of the device opens a session or lets the relay rest.
LEMMA RelayDevice == Owned /\ Flows /\ Device => Relay!Next
<1> SUFFICES ASSUME Owned, Flows, Device PROVE Relay!Next
  OBVIOUS
<1>0. /\ s_buf' = s_buf
      /\ \A u \in Task : s_task'[u] = "hold" <=> s_task[u] = "hold"
  BY DEF Device, ProcessKnown, ProcessNew, ProcessOther, Poll, Wake, Owned, TypeOK
<1>1. ASSUME NEW d \in Datagram, ProcessKnown(d) PROVE Relay!Next
  <2>1. UNCHANGED <<phase, bound, udp_sessions>>
    BY <1>1 DEF ProcessKnown, taskVars
  <2>2. InHand' = InHand
    BY <1>0, <2>1, HandSame DEF Sending
  <2>3. sent' = NoDgram
    BY <1>1 DEF ProcessKnown, Poll, Silent
  <2> QED BY <2>1, <2>2, <2>3, ServingSame DEF Relay!Next, Relay!Rest
<1>2. ASSUME NEW d \in Datagram, NEW t \in Task, ProcessNew(d, t) PROVE Relay!Next
  <2>1. PICK h \in Slot : /\ bound[h] = NoDst
                          /\ bound' = [bound EXCEPT ![h] = d.dst]
                          /\ udp_sessions' = [udp_sessions EXCEPT ![d.src] = h]
    BY <1>2 DEF ProcessNew, FreeSlot
  <2>2. /\ phase[t] = "none" /\ phase' = [phase EXCEPT ![t] = "setup"]
        /\ udp_sessions[d.src] = NoSlot /\ d.src \in Src /\ d.dst \in Dst /\ h # NoSlot
    BY <1>2, DatagramFacts, NoSlotFact DEF ProcessNew
  <2>3. InHand' = InHand
    BY <1>0, <2>2, HandSame DEF Sending, Owned, TypeOK
  <2>4. \A s \in Src : udp_sessions[s] # NoSlot => udp_sessions[s] # h
    <3> SUFFICES ASSUME NEW s \in Src, udp_sessions[s] # NoSlot PROVE udp_sessions[s] # h
      OBVIOUS
    <3>1. PICK u \in Task : Live(u) /\ handle[u] = udp_sessions[s]
      BY DEF Owned, SessionTable
    <3>2. bound[handle[u]] # NoDst
      <4>1. TargetAddr(u) # NoDst
        BY <3>1, SessionOfSource
      <4> QED BY <3>1, <4>1 DEF Owned, SocketOwnership
    <3> QED BY <2>1, <3>1, <3>2
  <2>5. \A s \in Src : Serving'[s] = IF s = d.src THEN d.dst ELSE Serving[s]
    BY <2>1, <2>2, <2>4 DEF Serving, Owned, TypeOK
  <2>6. Serving[d.src] = NoDst /\ Serving' = [Serving EXCEPT ![d.src] = d.dst]
    BY <2>2, <2>5 DEF Serving
  <2>7. Relay!Open(d.src, d.dst)
    BY <1>2, <2>3, <2>6 DEF Relay!Open, ProcessNew, Poll, Silent
  <2> QED BY <2>2, <2>7 DEF Relay!Next
<1>3. ASSUME ProcessOther PROVE Relay!Next
  <2>1. UNCHANGED <<phase, bound, udp_sessions>>
    BY <1>3 DEF ProcessOther, taskVars
  <2>2. InHand' = InHand
    BY <1>0, <2>1, HandSame DEF Sending
  <2>3. sent' = NoDgram
    BY <1>3 DEF ProcessOther, Poll, Silent
  <2> QED BY <2>1, <2>2, <2>3, ServingSame DEF Relay!Next, Relay!Rest
<1> QED BY <1>1, <1>2, <1>3 DEF Device

\* A session takes a datagram, sends or loses it, ends, or lets the relay rest.
LEMMA RelaySession ==
    ASSUME Owned, Flows, Flows', NEW t \in Task, Session(t)
    PROVE  Relay!Next
<1>1. CASE SetupDone(t) \/ SetupFails(t) \/ GoQuiet(t) \/ RecvReply(t) \/ PollSendTo(t)
  <2>1. UNCHANGED <<bound, udp_sessions, s_buf>>
    BY <1>1 DEF SetupDone, SetupFails, GoQuiet, RecvReply, PollSendTo, socketVars, loopVars
  <2>2. \A u \in Task : Sending(u)' <=> Sending(u)
    BY <1>1 DEF SetupDone, SetupFails, GoQuiet, RecvReply, PollSendTo, Close, taskVars, loopVars,
                Sending, Owned, TypeOK, IdleTasks
  <2>3. sent' = NoDgram
    BY <1>1 DEF SetupDone, SetupFails, GoQuiet, RecvReply, PollSendTo, Silent
  <2> QED BY <2>1, <2>2, <2>3, HandSame, ServingSame DEF Relay!Next, Relay!Rest
<1>2. CASE PollRecvFrom(t)
  <2>0. /\ phase[t] = "run" /\ s_task[t] = "poll"
        /\ UNCHANGED <<bound, udp_sessions, phase, opener>> /\ sent' = NoDgram
    BY <1>2 DEF PollRecvFrom, taskVars, Silent
  <2>1. CASE s_task'[t] = "hold"
    <3>1. /\ Live(t) /\ ~Sending(t) /\ Sending(t)'
          /\ \A u \in Task : u # t => s_task'[u] = s_task[u] /\ s_buf'[u] = s_buf[u]
      BY <1>2, <2>0, <2>1 DEF PollRecvFrom, Sending, Live, Owned, TypeOK
    <3>2. s_buf'[t] = [src |-> SrcEndpoint(t), dst |-> Serving[SrcEndpoint(t)]]
      BY <2>0, <2>1, <3>1, SessionOfSource
      DEF Flows, ForwardsOwnFlow, SrcEndpoint, TargetAddr
    <3>3. InHand' = InHand \cup {s_buf'[t]}
      <4>1. \A u \in Task : u # t => (Sending(u)' <=> Sending(u))
        BY <2>0, <3>1 DEF Sending
      <4> QED BY <3>1, <4>1 DEF InHand
    <3>4. Relay!NothingOf(SrcEndpoint(t))
      BY <3>1, HandOfSource DEF Relay!NothingOf
    <3>5. SrcEndpoint(t) \in Src /\ Serving[SrcEndpoint(t)] # NoDst
      BY <3>1, SessionOfSource
    <3>6. Relay!Take(SrcEndpoint(t))
      BY <2>0, <3>2, <3>3, <3>4, <3>5, ServingSame DEF Relay!Take
    <3> QED BY <3>5, <3>6 DEF Relay!Next
  <2>2. CASE s_task'[t] # "hold"
    <3>1. \A u \in Task : /\ s_task'[u] = "hold" <=> s_task[u] = "hold"
                          /\ s_buf'[u] = s_buf[u]
      BY <1>2, <2>0, <2>2 DEF PollRecvFrom, Owned, TypeOK
    <3>2. InHand' = InHand
      BY <2>0, <3>1, HandSame DEF Sending
    <3> QED BY <2>0, <3>2, ServingSame DEF Relay!Next, Relay!Rest
  <2> QED BY <2>1, <2>2
<1>3. CASE ForwardFails(t) \/ RecvFails(t) \/ IdleCheck(t)
  <2>0. sent' = NoDgram
    BY <1>3 DEF ForwardFails, RecvFails, IdleCheck, Silent
  <2>1. UNCHANGED <<bound, udp_sessions>>
    BY <1>3 DEF ForwardFails, RecvFails, IdleCheck, socketVars
  <2>2. \A u \in Task : u # t => /\ Sending(u)' <=> Sending(u)
                                 /\ s_buf'[u] = s_buf[u]
    BY <1>3 DEF ForwardFails, RecvFails, IdleCheck, Close, Wake, taskVars, loopVars,
                Sending, Owned, TypeOK
  <2>3. Sending(t)' => Sending(t) /\ s_buf'[t] = s_buf[t]
    BY <1>3 DEF ForwardFails, RecvFails, IdleCheck, Close, Wake, taskVars, loopVars,
                Sending, Owned, TypeOK
  <2>4. CASE Sending(t) /\ ~Sending(t)'
    <3>1. s_buf[t] \in InHand /\ InHand' = InHand \ {s_buf[t]}
      BY <2>2, <2>4, HandLeaves
    <3>2. Relay!Lose(s_buf[t])
      BY <2>0, <2>1, <3>1, ServingSame DEF Relay!Lose
    <3> QED BY <3>1, <3>2 DEF Relay!Next
  <2>5. CASE ~(Sending(t) /\ ~Sending(t)')
    <3>1. InHand' = InHand
      BY <2>2, <2>3, <2>5, HandSame
    <3> QED BY <2>0, <2>1, <3>1, ServingSame DEF Relay!Next, Relay!Rest
  <2> QED BY <2>4, <2>5
<1>4. CASE DropSocket(t)
  <2>1. /\ Live(t) /\ phase[t] = "closing" /\ handle[t] \in Slot
        /\ bound' = [bound EXCEPT ![handle[t]] = NoDst]
        /\ sent' = NoDgram
        /\ udp_sessions' = [s \in Src |-> IF udp_sessions[s] = handle[t] THEN NoSlot
                                          ELSE udp_sessions[s]]
    BY <1>4 DEF DropSocket, RetainOthers, Silent, Live, Owned, SocketOwnership
  <2>2. InHand' = InHand
    <3>1. \A u \in Task : (Sending(u)' <=> Sending(u)) /\ (u # t => s_buf'[u] = s_buf[u])
      BY <1>4 DEF DropSocket, Sending, Owned, TypeOK
    <3>2. ~Sending(t)
      BY <2>1 DEF Sending
    <3> QED BY <3>1, <3>2, HandSame
  <2>3. \A s \in Src : udp_sessions[s] = handle[t] <=> s = SrcEndpoint(t)
    <3>1. udp_sessions[SrcEndpoint(t)] = handle[t]
      BY <2>1 DEF Owned, SessionTable
    <3>2. ASSUME NEW s \in Src, udp_sessions[s] = handle[t] PROVE s = SrcEndpoint(t)
      <4>1. PICK u \in Task : Live(u) /\ handle[u] = handle[t] /\ SrcEndpoint(u) = s
        BY <2>1, <3>2, NoSlotFact DEF Owned, SessionTable
      <4>2. u = t
        BY <2>1, <4>1 DEF Owned, SocketOwnership
      <4> QED BY <4>1, <4>2
    <3> QED BY <3>1, <3>2
  <2>4. \A s \in Src : Serving'[s] = IF s = SrcEndpoint(t) THEN NoDst ELSE Serving[s]
    BY <2>1, <2>3 DEF Serving, Owned, TypeOK
  <2>5. Serving' = [Serving EXCEPT ![SrcEndpoint(t)] = NoDst]
    BY <2>4 DEF Serving
  <2>6. Relay!NothingOf(SrcEndpoint(t))
    <3>1. ~Sending(t)
      BY <2>1 DEF Sending
    <3> QED BY <2>1, <3>1, HandOfSource DEF Relay!NothingOf
  <2>7. SrcEndpoint(t) \in Src /\ Serving[SrcEndpoint(t)] # NoDst
    BY <2>1, SessionOfSource
  <2>8. Relay!End(SrcEndpoint(t))
    BY <2>1, <2>2, <2>5, <2>6, <2>7 DEF Relay!End
  <2> QED BY <2>7, <2>8 DEF Relay!Next
<1>5. CASE Forward(t)
  <2>1. /\ UNCHANGED <<bound, udp_sessions, phase>> /\ Sending(t) /\ Live(t)
        /\ sent' = [payload |-> s_buf[t], addr |-> ForwardAddr(t)]
    BY <1>5 DEF Forward, socketVars, taskVars, Sending, Live
  <2>2. /\ ~Sending(t)'
        /\ \A u \in Task : u # t => (Sending(u)' <=> Sending(u)) /\ s_buf'[u] = s_buf[u]
    BY <1>5, <2>1 DEF Forward, Sending, Owned, TypeOK
  <2>3. s_buf[t] \in InHand /\ InHand' = InHand \ {s_buf[t]}
    BY <2>1, <2>2, HandLeaves
  <2>4. s_buf[t] = [src |-> SrcEndpoint(t), dst |-> TargetAddr(t)]
    BY <2>1, SessionOfSource
  <2>5. ForwardAddr(t) = IF s_buf[t].dst \in Private THEN s_buf[t].dst ELSE s_buf[t].src
    BY <2>4 DEF ForwardAddr, IsDirect
  <2>6. Relay!Send(s_buf[t])
    BY <2>1, <2>3, <2>5, ServingSame DEF Relay!Send
  <2> QED BY <2>3, <2>6 DEF Relay!Next
<1> QED BY <1>1, <1>2, <1>3, <1>4, <1>5 DEF Session

\* The UDP sessions implement the relay, for any number of sources, destinations, tasks
\* and slots: a source has one destination at a time; what goes out are bytes of its own
\* datagrams to that destination, with the destination's address when it is private and
\* with the source's when they enter the tunnel, which is not told the destination.
THEOREM SessionsImplementRelay == Spec => ImplementsRelay
<1>1. Init => Relay!Init
  BY DEF Init, Relay!Init, Serving, InHand, Sending
<1>2. UNCHANGED vars => UNCHANGED Relay!relay
  BY DEF vars, socketVars, taskVars, loopVars, Relay!relay, Serving, InHand, Sending
<1>3. Owned /\ Flows /\ Flows' /\ [Next]_vars => [Relay!Next]_(Relay!relay)
  BY <1>2, RelayDevice, RelaySession DEF Next
<1> QED
  BY <1>1, <1>3, OwnershipInvariant, FlowsInvariant, PTL DEF Spec, ImplementsRelay, Relay!Spec
================================================================================
