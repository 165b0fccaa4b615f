----------------------------- MODULE TcpInterception -----------------------------
(***************************************************************************)
(* How stunnel-core intercepts TCP: every SYN gets a socket that listens   *)
(* on its destination and a session task that connects there, and smoltcp  *)
(* gives each segment to the first socket of the set that accepts it.      *)
(* Several connections, retransmitted SYNs and sockets that are left       *)
(* listening; what one connection does after that is TcpSession.           *)
(*                                                                         *)
(* External: the socket set (a socket is put into a free slot, segments    *)
(* are offered in the order of slots), what a socket accepts, and the      *)
(* device's stack, which retransmits a SYN only before it acknowledges the *)
(* first answer to it, and uses a port again when no socket knows it.      *)
(* UDP sockets share the slots, so that any slot may be the next free one. *)
(***************************************************************************)
EXTENDS SplitTunnel

CONSTANTS
    Conn,      \* the device's TCP connections, by source endpoint
    Task,      \* session tasks
    MaxSlots,  \* bound: sockets at once
    MaxSyn,    \* bound: SYNs sent for one connection
    Dests,     \* where the connections may go to, functions from Conn to addresses
    Anywhere,  \* listen endpoint: every address
    None

ASSUME ConnAssumption ==
    /\ MaxSlots \in Nat /\ MaxSyn \in Nat \ {0}
    /\ Dests \subseteq [Conn -> Address]
    /\ None \notin Conn /\ None \notin 1 .. MaxSlots
    /\ None \notin Address /\ Anywhere \notin Address \cup {None}

VARIABLES
    dest,     \* destination of each connection
    app,      \* the application's end of it: closed, syn (it has sent one), open
    syns,     \* SYNs sent for it so far
    peer,     \* slot of the socket whose SYN|ACK the application was sent first
    sockets,  \* the socket set
    handle,   \* slot of each task's socket
    target,   \* destination of each task's outbound connection
    direct    \* it bypasses the tunnel

appVars == <<dest, app, syns, peer>>
taskVars == <<handle, target, direct>>
vars == <<appVars, sockets, taskVars>>

Slot == 1 .. MaxSlots
NoSocket == [state |-> "free", tuple |-> None, listen |-> None]
Socket == [state : {"Listen", "SynReceived", "Open", "Closed"},
           tuple : Conn \cup {None}, listen : Address]

Init ==
    /\ dest \in Dests
    /\ app = [c \in Conn |-> "closed"]
    /\ syns = [c \in Conn |-> 0]
    /\ peer = [c \in Conn |-> None]
    /\ sockets = [s \in Slot |-> NoSocket]
    /\ handle = [t \in Task |-> None]
    /\ target = [t \in Task |-> None]
    /\ direct = [t \in Task |-> FALSE]

--------------------------------------------------------------------------------
(* smoltcp                                                                   *)

\* A listening socket takes a SYN for its endpoint; one that has a connection
\* takes what belongs to it; a closed one takes nothing.
Accepts(k, c, kind) ==
    \/ k.state = "Listen" /\ kind = "syn" /\ k.listen \in {dest[c], Anywhere}
    \/ k.state \in {"SynReceived", "Open"} /\ k.tuple = c

\* The first socket that accepts the segment gets it.
First(set, s, c, kind) ==
    /\ Accepts(set[s], c, kind)
    /\ \A r \in Slot : Accepts(set[r], c, kind) => s <= r

\* The socket in slot s after the segment.  A SYN that belongs to a connection is
\* ignored; a reset before the connection is established lets the socket listen
\* again; "end" is the last acknowledgement of an ordinary close.
Received(k, s, c, kind) ==
    CASE kind = "syn" /\ k.state = "Listen" -> [k EXCEPT !.state = "SynReceived", !.tuple = c]
      [] kind = "ack" /\ s = peer[c] -> [k EXCEPT !.state = "Open"]
      [] kind = "rst" /\ k.state = "SynReceived" -> [k EXCEPT !.state = "Listen", !.tuple = None]
      [] kind \in {"rst", "end"} /\ k.state = "Open" ->
             [k EXCEPT !.state = "Closed", !.tuple = None]
      [] OTHER -> k

Ingress(set, c, kind) ==
    [s \in Slot |-> IF First(set, s, c, kind) THEN Received(set[s], s, c, kind) ELSE set[s]]

\* The slot that the connection's segments go to.
Route(set, c) ==
    IF \E s \in Slot : First(set, s, c, "ack")
    THEN CHOOSE s \in Slot : First(set, s, c, "ack") ELSE None

--------------------------------------------------------------------------------
(* stunnel_process_packet                                                    *)

\* Mutant: the socket is added without listen().
AddedOnly(d) == [state |-> "Closed", tuple |-> None, listen |-> None]

\* Mutant: listen on the port, at any address.
ListenOnPort(d) == [state |-> "Listen", tuple |-> None, listen |-> Anywhere]

Listener(d) == [state |-> "Listen", tuple |-> None, listen |-> d]

\* Mutant: the flags are not looked at.
InterceptAll(kind) == TRUE

Intercepts(kind) == kind = "syn"

\* Mutant: a slot is taken whether it is free or not.
AnySlot(s) == TRUE

FreeSlot(s) == sockets[s] = NoSocket

\* Mutant: the socket is added after the poll.
PollFirst(s, c, kind) == [Ingress(sockets, c, kind) EXCEPT ![s] = Listener(dest[c])]

\* The sockets after the poll, when one was added in slot s before it.
AddAndPoll(s, c, kind) == Ingress([sockets EXCEPT ![s] = Listener(dest[c])], c, kind)

\* A TCP packet of connection c: handle_tcp_packet, then the poll.
Packet(c, kind) ==
    \/ /\ Intercepts(kind)
       /\ \E s \in Slot, t \in Task :
             /\ FreeSlot(s) /\ handle[t] = None
             /\ sockets' = AddAndPoll(s, c, kind)
             /\ handle' = [handle EXCEPT ![t] = s]
             /\ target' = [target EXCEPT ![t] = dest[c]]
             /\ direct' = [direct EXCEPT ![t] = IsPrivateV4(dest[c])]
    \/ /\ ~Intercepts(kind)
       /\ sockets' = Ingress(sockets, c, kind)
       /\ UNCHANGED taskVars

--------------------------------------------------------------------------------
(* The device                                                                *)

\* The application connects.
Syn(c) ==
    /\ app[c] = "closed" /\ \A s \in Slot : sockets[s].tuple # c
    /\ Packet(c, "syn")
    /\ app' = [app EXCEPT ![c] = "syn"]
    /\ syns' = [syns EXCEPT ![c] = 1]
    /\ peer' = [peer EXCEPT ![c] = Route(sockets', c)]
    /\ UNCHANGED dest

\* Its SYN is sent again.
SynAgain(c) ==
    /\ app[c] = "syn" /\ syns[c] < MaxSyn
    /\ Packet(c, "syn")
    /\ syns' = [syns EXCEPT ![c] = @ + 1]
    /\ UNCHANGED <<dest, app, peer>>

\* It acknowledges the SYN|ACK, or sends on the open connection; a socket that did
\* not send that SYN|ACK, or none at all, makes smoltcp reset the connection.
Ack(c) ==
    /\ app[c] \in {"syn", "open"}
    /\ Packet(c, "ack")
    /\ IF peer[c] # None /\ First(sockets, peer[c], c, "ack")
       THEN app' = [app EXCEPT ![c] = "open"] /\ UNCHANGED peer
       ELSE app' = [app EXCEPT ![c] = "closed"] /\ peer' = [peer EXCEPT ![c] = None]
    /\ UNCHANGED <<dest, syns>>

\* It gives the connection up, or the connection ends as it should.
Rst(c) ==
    /\ app[c] \in {"syn", "open"}
    /\ Packet(c, "rst")
    /\ app' = [app EXCEPT ![c] = "closed"] /\ peer' = [peer EXCEPT ![c] = None]
    /\ UNCHANGED <<dest, syns>>

End(c) ==
    /\ app[c] = "open"
    /\ Packet(c, "end")
    /\ app' = [app EXCEPT ![c] = "closed"] /\ peer' = [peer EXCEPT ![c] = None]
    /\ UNCHANGED <<dest, syns>>

--------------------------------------------------------------------------------
(* The sessions                                                              *)

\* The outbound side has ended its stream, and poll_shutdown closes the socket.
PollShutdown(t) ==
    /\ handle[t] # None
    /\ LET s == handle[t]
       IN  CASE sockets[s].state = "Listen" -> sockets' = [sockets EXCEPT ![s].state = "Closed"]
             [] sockets[s].state = "SynReceived" -> sockets' = [sockets EXCEPT ![s].state = "Open"]
             [] OTHER -> UNCHANGED sockets
    /\ UNCHANGED <<appVars, taskVars>>

\* The session has ended or failed: TcpStream::drop.
DropSocket(t) ==
    /\ handle[t] # None
    /\ sockets' = [sockets EXCEPT ![handle[t]] = NoSocket]
    /\ peer' = [c \in Conn |-> IF peer[c] = handle[t] THEN None ELSE peer[c]]
    /\ handle' = [handle EXCEPT ![t] = None]
    /\ target' = [target EXCEPT ![t] = None]
    /\ direct' = [direct EXCEPT ![t] = FALSE]
    /\ UNCHANGED <<dest, app, syns>>

--------------------------------------------------------------------------------

Next ==
    \/ \E c \in Conn : Syn(c) \/ SynAgain(c) \/ Ack(c) \/ Rst(c) \/ End(c)
    \/ \E t \in Task : PollShutdown(t) \/ DropSocket(t)

Spec == Init /\ [][Next]_vars

--------------------------------------------------------------------------------
(* Properties                                                                *)

\* State is of its type; every socket in the set was told where to listen.
TypeOK ==
    /\ dest \in Dests
    /\ app \in [Conn -> {"closed", "syn", "open"}]
    /\ syns \in [Conn -> 0 .. MaxSyn]
    /\ peer \in [Conn -> Slot \cup {None}]
    /\ sockets \in [Slot -> Socket \cup {NoSocket}]
    /\ handle \in [Task -> Slot \cup {None}]
    /\ target \in [Task -> Address \cup {None}]
    /\ direct \in [Task -> BOOLEAN]

\* Every socket belongs to exactly one session and every session has its socket,
\* although slots are used again and sockets are left listening.
SocketOwnership ==
    /\ \A s \in Slot : sockets[s] # NoSocket => \E t \in Task : handle[t] = s
    /\ \A t \in Task : handle[t] # None => sockets[handle[t]] # NoSocket
    /\ \A t, u \in Task : handle[t] # None /\ handle[t] = handle[u] => t = u

\* A session whose socket carries a connection is connected to that connection's
\* destination, also when the socket was made for another connection's SYN.
ServesOwnDestination ==
    \A t \in Task : \A c \in Conn :
        handle[t] # None /\ sockets[handle[t]].tuple = c => target[t] = dest[c]

\* A connection bypasses the tunnel exactly when its destination lies in one of
\* the five private blocks, whichever session serves it.
DirectIffPrivate ==
    \A t \in Task : \A c \in Conn :
        handle[t] # None /\ sockets[handle[t]].tuple = c =>
            (direct[t] <=> InPrivateBlock(dest[c]))

\* The segments of an open connection reach the socket it was established with, until
\* that socket is gone, whatever sockets come and go in the slots that are offered the
\* segments before it.
SegmentsReachPeer ==
    \A c \in Conn : app[c] = "open" /\ peer[c] # None => First(sockets, peer[c], c, "ack")

\* The SYN of a new connection is answered in the same step, by a socket that
\* belongs to a session.
SynAnswered ==
    [][\A c \in Conn : app[c] = "closed" /\ app'[c] = "syn" =>
          \E t \in Task : /\ handle'[t] # None /\ handle'[t] = peer'[c]
                          /\ sockets'[handle'[t]].state = "SynReceived"
                          /\ sockets'[handle'[t]].tuple = c]_vars

\* A socket is left listening only by a SYN that was sent again or a connection that
\* was given up before it was established, or in exchange for one that was listening.
OrphansExplained ==
    [][\A s \in Slot : sockets[s].state # "Listen" /\ sockets'[s].state = "Listen" =>
          \/ \E c \in Conn : app[c] = "syn" /\ syns'[c] = syns[c] + 1
          \/ sockets[s].state = "SynReceived"
          \/ \E r \in Slot : sockets[r].state = "Listen" /\ sockets'[r].state = "SynReceived"]_vars
================================================================================
