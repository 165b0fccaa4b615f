------------------------------ MODULE UdpSessions ------------------------------
(***************************************************************************)
(* UDP interception in stunnel-core: the datagrams that the packet tunnel  *)
(* hands to stunnel_process_packet, the smoltcp sockets and the            *)
(* udp_sessions table that the engine mutex protects, and one tokio task   *)
(* per intercepted source endpoint, running handle_udp_direct_session or   *)
(* handle_udp_proxy_session.                                               *)
(*                                                                         *)
(* Every step that holds the engine mutex is one action: the whole of      *)
(* stunnel_process_packet (interception, push, poll, wake), one call of    *)
(* poll_recv_from, one call of poll_send_to, UdpSocket::drop.  What a      *)
(* session does between two such calls interleaves with everything else.   *)
(*                                                                         *)
(* smoltcp is external.  As src/ uses it: a poll empties the inbound queue *)
(* and every transmit ring, and a datagram goes to the first socket of the *)
(* set that is bound to its destination.                                   *)
(***************************************************************************)
EXTENDS Naturals, Sequences

CONSTANTS
    Src,       \* UDP source endpoints of the device's applications
    Dst,       \* UDP destination endpoints (port not zero)
    Private,   \* the destinations whose address is_private_v4 accepts
    Task,      \* identities of session tasks, reused once a task is finished
    MaxSlots,  \* bound: slots the socket set may grow to
    RxCap,     \* bound: datagrams a receive ring holds (16 in lib.rs)
    TxCap,     \* bound: datagrams a transmit ring holds (16 in lib.rs)
    TunnelAddr, \* the address a frame of the tunnel carries, whichever it is
    NoDst,     \* no socket in this slot
    NoDgram,   \* no datagram
    NoTask,    \* no waker registered under this handle
    GoneTask   \* a waker whose task has finished: waking it does nothing

ASSUME BoundsAssumption == MaxSlots \in Nat /\ RxCap \in Nat /\ TxCap \in Nat
ASSUME PrivateAssumption == Private \subseteq Dst
ASSUME EndpointsAssumption == Src \cap Dst = {} /\ NoDst \notin Dst
ASSUME TasksAssumption == NoTask \notin Task /\ GoneTask \notin Task

Slot == 1 .. MaxSlots          \* SocketHandle values
NoSlot == 0
Datagram == [src : Src, dst : Dst]

\* What a session hands to its outbound socket or its tunnel: the bytes of a
\* datagram of the device, and an address.
Packet == [payload : Datagram, addr : Src \cup Dst]

ASSUME NoDgramAssumption == NoDgram \notin Datagram

VARIABLES
    bound,         \* Slot -> destination the slot's socket is bound to, NoDst if free
    rx,            \* Slot -> receive ring of the slot's socket
    tx,            \* Slot -> transmit ring: the endpoints its replies go to
    udp_sessions,  \* Src -> handle of the endpoint's session, NoSlot if none
    wakers,        \* Slot -> task registered under the handle
    phase,         \* Task -> where its session future is
    handle,        \* Task -> handle of its UdpSocket
    opener,        \* Task -> the datagram that opened the session
    s_task,        \* Task -> state of the device-to-server loop
    s_buf,         \* Task -> datagram read and not sent yet
    r_task,        \* Task -> state of the server-to-device loop
    quiet,         \* Task -> last_activity is more than UDP_IDLE_TIMEOUT ago
    sent           \* history: the packet the last step handed out, NoDgram if none

socketVars == <<bound, rx, tx, udp_sessions>>
taskVars == <<phase, handle, opener>>
loopVars == <<s_task, s_buf, r_task>>
vars == <<socketVars, wakers, taskVars, loopVars, quiet, sent>>

Init ==
    /\ bound = [h \in Slot |-> NoDst]
    /\ rx = [h \in Slot |-> <<>>]
    /\ tx = [h \in Slot |-> <<>>]
    /\ udp_sessions = [s \in Src |-> NoSlot]
    /\ wakers = [h \in Slot |-> NoTask]
    /\ phase = [t \in Task |-> "none"]
    /\ handle = [t \in Task |-> NoSlot]
    /\ opener = [t \in Task |-> NoDgram]
    /\ s_task = [t \in Task |-> "poll"]
    /\ s_buf = [t \in Task |-> NoDgram]
    /\ r_task = [t \in Task |-> "recv"]
    /\ quiet = [t \in Task |-> FALSE]
    /\ sent = NoDgram

\* A step that hands nothing to the outside.
Silent == sent' = NoDgram

--------------------------------------------------------------------------------
(* The engine: socket set, wakers, poll.                                     *)

Lowest(h, S) == h \in S /\ \A k \in S : h <= k

\* Mutant: a slot is handed out whatever it holds.
AnySlot(h) == h \in Slot

\* A slot SocketSet::add may take.  It takes the first free one, and TCP
\* sockets share the set: any slot without a UDP socket can be the first.
FreeSlot(h) == bound[h] = NoDst

\* Mutant: the receive ring has no bound.
IngressUnbounded(b, r, d) ==
    [h \in Slot |-> IF Lowest(h, {k \in Slot : b[k] = d.dst})
                    THEN Append(r[h], d) ELSE r[h]]

\* smoltcp's ingress: the first socket bound to the destination takes the
\* datagram, and drops it when its ring is full.
Ingress(b, r, d) ==
    [h \in Slot |-> IF Lowest(h, {k \in Slot : b[k] = d.dst}) /\ Len(r[h]) < RxCap
                    THEN Append(r[h], d) ELSE r[h]]

\* register_waker is HashMap::insert: the newest registration wins.
RegisterWaker(w, h, t) == [w EXCEPT ![h] = t]

\* Mutant: the wakers are cleared and nobody is woken.
WakeNobody(W) == UNCHANGED <<s_task, r_task>>

\* Tasks that are scheduled again poll both loops of their select!.
Wake(W) ==
    /\ s_task' = [t \in Task |-> IF t \in W /\ s_task[t] = "wait" THEN "poll" ELSE s_task[t]]
    /\ r_task' = [t \in Task |-> IF t \in W /\ r_task[t] = "full" THEN "hold" ELSE r_task[t]]

Registered == {wakers[h] : h \in Slot}

\* StunnelEngine::poll, after the ingress: transmit everything, wake every
\* registered task, clear the map.
Poll ==
    /\ tx' = [h \in Slot |-> <<>>]
    /\ Wake(Registered)
    /\ wakers' = [h \in Slot |-> NoTask]
    /\ Silent

--------------------------------------------------------------------------------
(* stunnel_process_packet                                                    *)

\* handle_udp_packet finds the source in udp_sessions and returns.
ProcessKnown(d) ==
    /\ udp_sessions[d.src] # NoSlot
    /\ rx' = Ingress(bound, rx, d)
    /\ Poll
    /\ UNCHANGED <<bound, udp_sessions, taskVars, s_buf, quiet>>

\* handle_udp_packet binds a new socket, enters it in udp_sessions and spawns
\* the session task.
ProcessNew(d, t) ==
    /\ udp_sessions[d.src] = NoSlot
    /\ phase[t] = "none"
    /\ \E h \in Slot :
          /\ FreeSlot(h)
          /\ bound' = [bound EXCEPT ![h] = d.dst]
          /\ udp_sessions' = [udp_sessions EXCEPT ![d.src] = h]
          /\ handle' = [handle EXCEPT ![t] = h]
    /\ phase' = [phase EXCEPT ![t] = "setup"]
    /\ opener' = [opener EXCEPT ![t] = d]
    /\ rx' = Ingress(bound', rx, d)
    /\ Poll
    /\ UNCHANGED <<s_buf, quiet>>

\* A packet that opens no UDP session and reaches no UDP socket: TCP, another
\* protocol, or one that fails new_checked.  It is still pushed and polled.
ProcessOther ==
    /\ Poll
    /\ UNCHANGED <<bound, rx, udp_sessions, taskVars, s_buf, quiet>>

--------------------------------------------------------------------------------
(* A session: bind and connect, or obtain a tunnel; then three loops.        *)

SrcEndpoint(t) == opener[t].src
TargetAddr(t) == opener[t].dst
IsDirect(t) == TargetAddr(t) \in Private

\* The endpoint poll_send_to is given: target_addr in a direct session, in a
\* proxied one whatever recv_datagram returned with the reply.
ReplyAddr(t) == IF IsDirect(t) THEN TargetAddr(t) ELSE TunnelAddr

Close(t) == phase' = [phase EXCEPT ![t] = "closing"]

SetupDone(t) ==
    /\ phase[t] = "setup"
    /\ phase' = [phase EXCEPT ![t] = "run"]
    /\ UNCHANGED <<socketVars, wakers, handle, opener, loopVars, quiet>>
    /\ Silent

SetupFails(t) ==
    /\ phase[t] = "setup"
    /\ Close(t)
    /\ UNCHANGED <<socketVars, wakers, handle, opener, loopVars, quiet>>
    /\ Silent

\* Mutant: forward whatever the socket receives.
AcceptsAny(t, d) == d \in Datagram

\* Only datagrams of the session's own source are forwarded.
Accepts(t, d) == d.src = SrcEndpoint(t)

\* One poll_recv_from of s_task: Exhausted registers the waker and pends.
PollRecvFrom(t) ==
    LET h == handle[t] IN
    /\ phase[t] = "run" /\ s_task[t] = "poll"
    /\ \/ /\ rx[h] = <<>>
          /\ wakers' = RegisterWaker(wakers, h, t)
          /\ s_task' = [s_task EXCEPT ![t] = "wait"]
          /\ UNCHANGED <<rx, s_buf, quiet>>
       \/ /\ rx[h] # <<>>
          /\ rx' = [rx EXCEPT ![h] = Tail(@)]
          /\ \/ /\ Accepts(t, Head(rx[h]))
                /\ s_buf' = [s_buf EXCEPT ![t] = Head(rx[h])]
                /\ s_task' = [s_task EXCEPT ![t] = "hold"]
                /\ quiet' = [quiet EXCEPT ![t] = FALSE]
             \/ /\ ~Accepts(t, Head(rx[h]))
                /\ UNCHANGED <<s_buf, s_task, quiet>>
          /\ UNCHANGED wakers
    /\ UNCHANGED <<bound, tx, udp_sessions, taskVars, r_task>>
    /\ Silent

\* Where a datagram goes: outbound is connected to target_addr; the tunnel is given
\* the address the datagram came from, and no session tells it the destination.
ForwardAddr(t) == IF IsDirect(t) THEN TargetAddr(t) ELSE s_buf[t].src

\* outbound.send or tun_send.send_datagram completes, or fails.
Forward(t) ==
    /\ phase[t] = "run" /\ s_task[t] = "hold"
    /\ sent' = [payload |-> s_buf[t], addr |-> ForwardAddr(t)]
    /\ s_buf' = [s_buf EXCEPT ![t] = NoDgram]
    /\ s_task' = [s_task EXCEPT ![t] = "poll"]
    /\ UNCHANGED <<socketVars, wakers, taskVars, r_task, quiet>>

ForwardFails(t) ==
    /\ phase[t] = "run" /\ s_task[t] = "hold"
    /\ Close(t)
    /\ UNCHANGED <<socketVars, wakers, handle, opener, loopVars, quiet>>
    /\ Silent

\* outbound.recv or tun_recv.recv_datagram yields a reply; readiness of the
\* outbound side schedules the task, so s_task is polled again as well.
RecvReply(t) ==
    /\ phase[t] = "run" /\ r_task[t] = "recv"
    /\ r_task' = [r_task EXCEPT ![t] = "hold"]
    /\ s_task' = [s_task EXCEPT ![t] = IF @ = "wait" THEN "poll" ELSE @]
    /\ quiet' = [quiet EXCEPT ![t] = FALSE]
    /\ UNCHANGED <<socketVars, wakers, taskVars, s_buf>>
    /\ Silent

RecvFails(t) ==
    /\ phase[t] = "run" /\ r_task[t] = "recv"
    /\ Close(t)
    /\ UNCHANGED <<socketVars, wakers, handle, opener, loopVars, quiet>>
    /\ Silent

\* One poll_send_to of r_task: the reply enters the transmit ring, or
\* BufferFull registers the waker and pends.  The engine is not polled.
PollSendTo(t) ==
    LET h == handle[t] IN
    /\ phase[t] = "run" /\ r_task[t] = "hold"
    /\ \/ /\ Len(tx[h]) < TxCap
          /\ tx' = [tx EXCEPT ![h] = Append(@, ReplyAddr(t))]
          /\ r_task' = [r_task EXCEPT ![t] = "recv"]
          /\ UNCHANGED wakers
       \/ /\ Len(tx[h]) >= TxCap
          /\ wakers' = RegisterWaker(wakers, h, t)
          /\ r_task' = [r_task EXCEPT ![t] = "full"]
          /\ UNCHANGED tx
    /\ UNCHANGED <<bound, rx, udp_sessions, taskVars, s_task, s_buf, quiet>>
    /\ Silent

\* More than UDP_IDLE_TIMEOUT passes without a datagram either way.
GoQuiet(t) ==
    /\ phase[t] = "run" /\ ~quiet[t]
    /\ quiet' = [quiet EXCEPT ![t] = TRUE]
    /\ UNCHANGED <<socketVars, wakers, taskVars, loopVars>>
    /\ Silent

\* Mutant: the session never counts as idle.
NeverExpired(t) == FALSE

\* last.elapsed() > UDP_IDLE_TIMEOUT
Expired(t) == quiet[t]

\* idle_timeout after its sleep: give up when the session is idle; otherwise
\* sleep again, the task having been scheduled by the timer.
IdleCheck(t) ==
    /\ phase[t] = "run"
    /\ \/ /\ Expired(t)
          /\ Close(t)
          /\ UNCHANGED <<s_task, r_task>>
       \/ /\ ~Expired(t)
          /\ Wake({t})
          /\ UNCHANGED phase
    /\ UNCHANGED <<socketVars, wakers, handle, opener, s_buf, quiet>>
    /\ Silent

\* Mutant: remove the socket and forget the table.
RetainAll(m, h) == m

\* udp_sessions.retain(|_, v| *v != handle)
RetainOthers(m, h) == [s \in Src |-> IF m[s] = h THEN NoSlot ELSE m[s]]

\* UdpSocket::drop, when the session future has returned: the socket leaves the
\* set with whatever its rings hold, and its table entry goes with it.  The
\* wakers map keeps an entry that may name the finished task.
DropSocket(t) ==
    LET h == handle[t] IN
    /\ phase[t] = "closing"
    /\ bound' = [bound EXCEPT ![h] = NoDst]
    /\ rx' = [rx EXCEPT ![h] = <<>>]
    /\ tx' = [tx EXCEPT ![h] = <<>>]
    /\ udp_sessions' = RetainOthers(udp_sessions, h)
    /\ wakers' = [k \in Slot |-> IF wakers[k] = t THEN GoneTask ELSE wakers[k]]
    /\ phase' = [phase EXCEPT ![t] = "none"]
    /\ handle' = [handle EXCEPT ![t] = NoSlot]
    /\ opener' = [opener EXCEPT ![t] = NoDgram]
    /\ s_task' = [s_task EXCEPT ![t] = "poll"]
    /\ s_buf' = [s_buf EXCEPT ![t] = NoDgram]
    /\ r_task' = [r_task EXCEPT ![t] = "recv"]
    /\ quiet' = [quiet EXCEPT ![t] = FALSE]
    /\ Silent

--------------------------------------------------------------------------------

Device == \/ \E d \in Datagram : ProcessKnown(d)
          \/ \E d \in Datagram, t \in Task : ProcessNew(d, t)
          \/ ProcessOther

Session(t) == \/ SetupDone(t) \/ SetupFails(t)
              \/ PollRecvFrom(t) \/ Forward(t) \/ ForwardFails(t)
              \/ RecvReply(t) \/ RecvFails(t) \/ PollSendTo(t)
              \/ GoQuiet(t) \/ IdleCheck(t) \/ DropSocket(t)

Next == Device \/ \E t \in Task : Session(t)

Spec == Init /\ [][Next]_vars

\* The tokio runtime runs every scheduled task and its timers, an attempt to
\* connect ends, a datagram send ends.  Nothing makes an application send, a
\* server answer, or traffic stop.
Fairness ==
    \A t \in Task :
        /\ WF_vars(SetupDone(t) \/ SetupFails(t))
        /\ WF_vars(PollRecvFrom(t))
        /\ WF_vars(Forward(t) \/ ForwardFails(t))
        /\ WF_vars(PollSendTo(t))
        /\ WF_vars(IdleCheck(t))
        /\ WF_vars(DropSocket(t))

FairSpec == Spec /\ Fairness

--------------------------------------------------------------------------------
(* Properties                                                                *)

Live(t) == phase[t] # "none"

\* State is of its type; no ring holds more than its metadata slots allow.
TypeOK ==
    /\ bound \in [Slot -> Dst \cup {NoDst}]
    /\ rx \in [Slot -> Seq(Datagram)] /\ \A h \in Slot : Len(rx[h]) <= RxCap
    /\ tx \in [Slot -> Seq(Dst \cup {TunnelAddr})] /\ \A h \in Slot : Len(tx[h]) <= TxCap
    /\ udp_sessions \in [Src -> Slot \cup {NoSlot}]
    /\ wakers \in [Slot -> Task \cup {NoTask, GoneTask}]
    /\ phase \in [Task -> {"none", "setup", "run", "closing"}]
    /\ handle \in [Task -> Slot \cup {NoSlot}]
    /\ opener \in [Task -> Datagram \cup {NoDgram}]
    /\ s_task \in [Task -> {"poll", "wait", "hold"}]
    /\ s_buf \in [Task -> Datagram \cup {NoDgram}]
    /\ r_task \in [Task -> {"recv", "hold", "full"}]
    /\ quiet \in [Task -> BOOLEAN]
    /\ sent \in Packet \cup {NoDgram}

\* A socket in the set has exactly one session, whose handle it is and whose
\* destination it is bound to, also after its slot was used by another session:
\* no socket leaks, and no two sessions read one socket.
SocketOwnership ==
    /\ \A t \in Task : Live(t) => /\ handle[t] \in Slot /\ opener[t] \in Datagram
                                  /\ bound[handle[t]] = TargetAddr(t)
    /\ \A t, u \in Task : Live(t) /\ Live(u) /\ handle[t] = handle[u] => t = u
    /\ \A h \in Slot : bound[h] # NoDst => \E t \in Task : Live(t) /\ handle[t] = h

\* udp_sessions names, for every source endpoint, the socket of the one session
\* that serves it, and nothing when none does: a source is neither served twice
\* nor left pointing at a socket that is gone or another session's.
SessionTable ==
    /\ \A t \in Task : Live(t) => udp_sessions[SrcEndpoint(t)] = handle[t]
    /\ \A s \in Src : udp_sessions[s] # NoSlot =>
          \E t \in Task : Live(t) /\ handle[t] = udp_sessions[s] /\ SrcEndpoint(t) = s

\* A session that pends on its socket is in the wakers map under its handle,
\* and pends on the receive side only while the ring is empty: no datagram waits
\* for a task that nothing will wake, whatever an earlier session left in the map.
NoLostWakeup ==
    \A t \in Task : phase[t] = "run" =>
        /\ s_task[t] = "wait" => wakers[handle[t]] = t /\ rx[handle[t]] = <<>>
        /\ r_task[t] = "full" => wakers[handle[t]] = t /\ Len(tx[handle[t]]) = TxCap

\* The destination of every source's session, and what the sessions are about to send.
Serving ==
    [s \in Src |-> IF udp_sessions[s] = NoSlot THEN NoDst ELSE bound[udp_sessions[s]]]

Sending(t) == phase[t] = "run" /\ s_task[t] = "hold"
InHand == {s_buf[t] : t \in {u \in Task : Sending(u)}}

Relay == INSTANCE UdpRelay
           WITH serving <- Serving, inHand <- InHand, out <- sent, Nothing <- NoDgram

\* The sessions implement the relay: through every reuse of slots, sockets that share
\* a destination, and sessions that end or fail, a source is served for one destination
\* at a time, and what goes out are the bytes of its own datagrams to that destination,
\* to a private destination with its address, into the tunnel with the source's.
ImplementsRelay == Relay!Spec

\* A receive ring that is full, and drops what arrives, is read again or goes
\* with its socket.
FullRingDrains ==
    \A h \in Slot : (bound[h] # NoDst /\ Len(rx[h]) = RxCap) ~> (Len(rx[h]) < RxCap)

\* A session idle for longer than UDP_IDLE_TIMEOUT gives its socket back unless
\* traffic resumes.
IdleSessionEnds ==
    \A t \in Task : (phase[t] = "run" /\ quiet[t]) ~> (~Live(t) \/ ~quiet[t])

\* Expected by the documented session management: the datagrams that reach a
\* session's socket are that session's.
DatagramsReachOwnSession ==
    \A t \in Task : Live(t) =>
        \A i \in DOMAIN rx[handle[t]] : Accepts(t, rx[handle[t]][i])

\* Expected by the documented data flow: the replies of a direct session go back to
\* the application that it serves.
RepliesReturnToSource ==
    \A t \in Task : Live(t) /\ IsDirect(t) =>
        \A i \in DOMAIN tx[handle[t]] : tx[handle[t]][i] = SrcEndpoint(t)
================================================================================
