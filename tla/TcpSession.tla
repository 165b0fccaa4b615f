------------------------------- MODULE TcpSession -------------------------------
(***************************************************************************)
(* One intercepted TCP connection of stunnel-core: the smoltcp socket that *)
(* answers the application, and the tokio task that obtains an outbound    *)
(* stream and runs copy_bidirectional over it and the TcpStream of tcp.rs. *)
(* Each call of poll_read, poll_write and poll_shutdown, and each packet   *)
(* of the device, holds the engine mutex and is one action.                *)
(*                                                                         *)
(* smoltcp's socket is external: its states, and what a segment or close() *)
(* does to them.  Segments arrive in order and once, and what the socket   *)
(* transmits stays in its buffer until the application acknowledges it.    *)
(* copy_bidirectional is external: each direction reads a chunk, writes    *)
(* it, and at the end of its input shuts its output down; an error of      *)
(* either ends both.                                                       *)
(***************************************************************************)
EXTENDS Naturals

CONSTANTS
    RxCap,   \* bound: segments the receive buffer holds (65536 bytes in lib.rs)
    TxCap,   \* bound: segments the transmit buffer holds
    MaxSeg   \* bound: segments either side sends on one connection

ASSUME CapAssumption == RxCap \in Nat \ {0} /\ TxCap \in Nat \ {0} /\ MaxSeg \in Nat

VARIABLES
    state,     \* state of the smoltcp socket, "none" when it is not in the set
    rx,        \* segments in its receive buffer
    tx,        \* segments in its transmit buffer, transmitted or not
    sent,      \* how many of those were transmitted
    fin_sent,  \* its FIN was transmitted
    app_sent,  \* segments the application has sent
    app_fin,   \* the application has ended its stream
    srv_sent,  \* segments the outbound side has sent
    srv_fin,   \* the outbound side has ended its stream
    srv_got,   \* segments the outbound side was given (history)
    acked,     \* segments the application has acknowledged (history)
    phase,     \* where the session task is
    a_to_b,    \* copying from the application to the outbound side
    b_to_a,    \* copying back
    a_buf,     \* chunks read from the application and not written out yet
    b_buf,     \* chunks read from the outbound side and not written back yet
    a_wait,    \* a_to_b pends on poll_read
    b_wait,    \* b_to_a pends on poll_write
    waker      \* the wakers map has this task under the socket's handle

socketVars == <<state, rx, tx, sent, fin_sent>>
peerVars == <<app_sent, app_fin, srv_sent, srv_fin>>
gotVars == <<srv_got, acked>>
copyVars == <<a_to_b, b_to_a, a_buf, b_buf>>
waitVars == <<a_wait, b_wait, waker>>
vars == <<socketVars, peerVars, gotVars, phase, copyVars, waitVars>>

Init ==
    /\ state = "none" /\ phase = "none"
    /\ rx = 0 /\ tx = 0 /\ sent = 0 /\ fin_sent = FALSE
    /\ app_sent = 0 /\ app_fin = FALSE /\ srv_sent = 0 /\ srv_fin = FALSE
    /\ srv_got = 0 /\ acked = 0
    /\ a_to_b = "copy" /\ b_to_a = "copy" /\ a_buf = 0 /\ b_buf = 0
    /\ a_wait = FALSE /\ b_wait = FALSE /\ waker = FALSE

--------------------------------------------------------------------------------
(* The socket                                                                *)

Open == {"SynReceived", "Established", "FinWait1", "FinWait2", "CloseWait", "Closing", "LastAck"}

\* close()
AfterClose(s) == CASE s = "Listen" -> "Closed"
                   [] s \in {"SynReceived", "Established"} -> "FinWait1"
                   [] s = "CloseWait" -> "LastAck"
                   [] OTHER -> s

\* A segment that acknowledges what was transmitted, a FIN among it or not.
AfterAck(s, fin) == CASE s = "SynReceived" -> "Established"
                      [] s = "FinWait1" /\ fin -> "FinWait2"
                      [] s = "Closing" /\ fin -> "TimeWait"
                      [] s = "LastAck" /\ fin -> "Closed"
                      [] OTHER -> s

\* A segment that carries a FIN.
AfterFin(s) == CASE s = "Established" -> "CloseWait"
                 [] s = "FinWait1" -> "Closing"
                 [] s = "FinWait2" -> "TimeWait"
                 [] OTHER -> s

\* Mutant: the map is cleared and nobody is woken.
WakeNobody == UNCHANGED <<a_wait, b_wait>>

\* A task that is scheduled polls both directions.
Wake == a_wait' = FALSE /\ b_wait' = FALSE

\* The outbound side was ready at once, or its readiness scheduled the task.
MaybeWake == Wake \/ UNCHANGED <<a_wait, b_wait>>

\* StunnelEngine::poll, after the ingress: transmit what can be, wake, clear.  A
\* socket that the ingress closed, or that was closed before, transmits nothing.
Poll ==
    /\ sent' = IF state' = "Closed" /\ tx' = tx THEN sent ELSE tx'
    /\ fin_sent' = (fin_sent \/ state' \in {"FinWait1", "Closing", "LastAck"})
    /\ IF waker THEN Wake ELSE UNCHANGED <<a_wait, b_wait>>
    /\ waker' = FALSE

--------------------------------------------------------------------------------
(* Packets of the device                                                     *)

\* handle_tcp_packet: a SYN gets a listening socket, which answers it in the
\* same poll, and a session task.
Syn ==
    /\ phase = "none"
    /\ state' = "SynReceived" /\ phase' = "connect"
    /\ UNCHANGED <<rx, tx, peerVars, gotVars, copyVars>>
    /\ Poll

\* A socket that listens again takes the next SYN for its destination.
SynAgain ==
    /\ state = "Listen"
    /\ state' = "SynReceived"
    /\ UNCHANGED <<rx, tx, peerVars, gotVars, phase, copyVars>>
    /\ Poll

\* A segment with n chunks of data, a FIN or not, that acknowledges everything
\* transmitted so far or, being older than that, nothing.
Segment(n, fin, ack) ==
    /\ state \in Open
    /\ n > 0 \/ fin => ~app_fin
    /\ rx + n <= RxCap /\ app_sent + n <= MaxSeg
    /\ app_sent' = app_sent + n
    /\ app_fin' = (app_fin \/ fin)
    /\ rx' = rx + n
    /\ tx' = IF ack THEN tx - sent ELSE tx
    /\ acked' = IF ack THEN acked + sent ELSE acked
    /\ LET s == AfterAck(state, fin_sent /\ ack)
       IN  state' = IF fin THEN AfterFin(s) ELSE s
    /\ UNCHANGED <<srv_sent, srv_fin, srv_got, phase, copyVars>>
    /\ Poll

\* The application resets the connection; before it is established the socket
\* returns to listening.
Reset ==
    /\ state \in Open
    /\ state' = IF state = "SynReceived" THEN "Listen" ELSE "Closed"
    /\ UNCHANGED <<rx, tx, peerVars, gotVars, phase, copyVars>>
    /\ Poll

\* Any other packet of the device.
OtherPacket ==
    /\ UNCHANGED <<state, rx, tx, peerVars, gotVars, phase, copyVars>>
    /\ Poll

\* The first packet after TIME-WAIT is over: the socket is reset, its buffers are
\* cleared.
TimeWaitOver ==
    /\ state = "TimeWait"
    /\ state' = "Closed" /\ rx' = 0 /\ tx' = 0
    /\ UNCHANGED <<peerVars, gotVars, phase, copyVars>>
    /\ Poll

--------------------------------------------------------------------------------
(* The session                                                               *)

\* The outbound stream is connected, or cannot be.
Connected ==
    /\ phase = "connect" /\ phase' = "copy"
    /\ UNCHANGED <<socketVars, peerVars, gotVars, copyVars, waitVars>>

SessionFails ==
    /\ phase \in {"connect", "copy"} /\ phase' = "failed"
    /\ UNCHANGED <<socketVars, peerVars, gotVars, copyVars, waitVars>>

CanRecv == rx > 0

\* Mutant: may_send for can_send, the room in the buffer forgotten.
MaySend == state \in {"Established", "CloseWait"}

CanSend == state \in {"Established", "CloseWait"} /\ tx < TxCap

\* Mutant: the application's FIN is not an end of file.
EofWhenClosed == ~CanRecv /\ state = "Closed"

\* Mutant: a closed connection is not an end of file.
EofUnlessClosed == ~CanRecv /\ state \in {"CloseWait", "Closing", "LastAck"}

\* Mutant: the state is looked at before the buffer.
EofBeforeData == state \in {"Closed", "CloseWait", "Closing", "LastAck"}

\* The states in which poll_read reports the end of the file.
AtEof == ~CanRecv /\ state \in {"Closed", "CloseWait", "Closing", "LastAck"}

\* The states in which poll_write reports a broken pipe.
BrokenPipe == ~CanSend /\ state \in {"Closed", "CloseWait", "Closing", "LastAck"}

\* Mutant: pend without registering.
RegisterNothing == UNCHANGED waker

RegisterWaker == waker' = TRUE

\* One poll_read: data, the end of the file, or pending.
PollRead ==
    /\ phase = "copy" /\ a_to_b = "copy" /\ a_buf = 0 /\ ~a_wait
    /\ \/ /\ AtEof
          /\ a_to_b' = "shutdown"
          /\ UNCHANGED <<rx, a_buf, a_wait, waker>>
       \/ /\ CanRecv
          /\ rx' = rx - 1 /\ a_buf' = 1
          /\ UNCHANGED <<a_to_b, a_wait, waker>>
       \/ /\ ~CanRecv /\ ~AtEof
          /\ a_wait' = TRUE /\ RegisterWaker
          /\ UNCHANGED <<rx, a_buf, a_to_b>>
    /\ UNCHANGED <<state, tx, sent, fin_sent, peerVars, gotVars, phase, b_to_a, b_buf, b_wait>>

\* The outbound side takes the chunk.
WriteOut ==
    /\ phase = "copy" /\ a_buf = 1
    /\ a_buf' = 0 /\ srv_got' = srv_got + 1
    /\ MaybeWake
    /\ UNCHANGED <<socketVars, peerVars, acked, phase, a_to_b, b_to_a, b_buf, waker>>

\* The outbound side's write half is shut down.
ShutdownOut ==
    /\ phase = "copy" /\ a_to_b = "shutdown"
    /\ a_to_b' = "done"
    /\ MaybeWake
    /\ UNCHANGED <<socketVars, peerVars, gotVars, phase, b_to_a, a_buf, b_buf, waker>>

\* The outbound side ends its stream.
ServerCloses ==
    /\ phase = "copy" /\ ~srv_fin
    /\ srv_fin' = TRUE
    /\ UNCHANGED <<socketVars, app_sent, app_fin, srv_sent, gotVars, phase, copyVars, waitVars>>

\* A chunk arrives from the outbound side and is read.
ReadData ==
    /\ phase = "copy" /\ b_to_a = "copy" /\ b_buf = 0
    /\ ~srv_fin /\ srv_sent < MaxSeg
    /\ srv_sent' = srv_sent + 1 /\ b_buf' = 1
    /\ MaybeWake
    /\ UNCHANGED <<socketVars, app_sent, app_fin, srv_fin, gotVars, phase, a_to_b, b_to_a, a_buf,
                   waker>>

\* The end of the outbound side's stream is read.
ReadEnd ==
    /\ phase = "copy" /\ b_to_a = "copy" /\ b_buf = 0 /\ srv_fin
    /\ b_to_a' = "shutdown"
    /\ MaybeWake
    /\ UNCHANGED <<socketVars, peerVars, gotVars, phase, a_to_b, a_buf, b_buf, waker>>

\* Mutant: the chunk counts as written, whatever number send_slice returned.
SendSliceAndHope == b_buf' = 0 /\ tx' \in {tx, tx + 1}

SendSlice == b_buf' = 0 /\ tx' = tx + 1

\* One poll_write: accepted, a broken pipe, or pending.
PollWrite ==
    /\ phase = "copy" /\ b_buf = 1 /\ ~b_wait
    /\ \/ /\ CanSend
          /\ SendSlice
          /\ UNCHANGED <<phase, b_wait, waker>>
       \/ /\ BrokenPipe
          /\ phase' = "broken"
          /\ UNCHANGED <<tx, b_buf, b_wait, waker>>
       \/ /\ ~CanSend /\ ~BrokenPipe
          /\ b_wait' = TRUE /\ RegisterWaker
          /\ UNCHANGED <<tx, b_buf, phase>>
    /\ UNCHANGED <<state, rx, sent, fin_sent, peerVars, gotVars, a_to_b, b_to_a, a_buf, a_wait>>

\* poll_shutdown closes the socket; nothing is transmitted.
PollShutdown ==
    /\ phase = "copy" /\ b_to_a = "shutdown"
    /\ state' = AfterClose(state)
    /\ b_to_a' = "done"
    /\ UNCHANGED <<rx, tx, sent, fin_sent, peerVars, gotVars, phase, a_to_b, a_buf, b_buf,
                   waitVars>>

\* Mutant: two copies, and the first that ends decides.
CopyEndsEarly ==
    /\ phase = "copy" /\ (a_to_b = "done" \/ b_to_a = "done")
    /\ phase' = "ended"
    /\ UNCHANGED <<socketVars, peerVars, gotVars, copyVars, waitVars>>

\* copy_bidirectional returns when both directions are done.
CopyEnds ==
    /\ phase = "copy" /\ a_to_b = "done" /\ b_to_a = "done"
    /\ phase' = "ended"
    /\ UNCHANGED <<socketVars, peerVars, gotVars, copyVars, waitVars>>

\* TcpStream::drop: the socket leaves the set with all its buffers hold.  The
\* wakers map is left alone.  The connection's ghosts start anew.
DropSocket ==
    /\ phase \in {"ended", "failed", "broken"}
    /\ phase' = "none" /\ state' = "none"
    /\ rx' = 0 /\ tx' = 0 /\ sent' = 0 /\ fin_sent' = FALSE
    /\ app_sent' = 0 /\ app_fin' = FALSE /\ srv_sent' = 0 /\ srv_fin' = FALSE
    /\ srv_got' = 0 /\ acked' = 0
    /\ a_to_b' = "copy" /\ b_to_a' = "copy" /\ a_buf' = 0 /\ b_buf' = 0
    /\ a_wait' = FALSE /\ b_wait' = FALSE
    /\ UNCHANGED waker

--------------------------------------------------------------------------------

Device == \/ Syn \/ SynAgain \/ Reset \/ OtherPacket \/ TimeWaitOver
          \/ \E n \in 0 .. 1, fin, ack \in BOOLEAN : Segment(n, fin, ack)

Session == \/ Connected \/ SessionFails \/ PollRead \/ WriteOut \/ ShutdownOut
           \/ ServerCloses \/ ReadData \/ ReadEnd
           \/ PollWrite \/ PollShutdown \/ CopyEnds \/ DropSocket

Next == Device \/ Session

Spec == Init /\ [][Next]_vars

\* The runtime runs the task whenever it is scheduled; the outbound side accepts
\* what it is sent, and a connection attempt ends.  Nothing makes the device send
\* a packet, or the server send or end.
Fairness ==
    /\ WF_vars(Connected \/ (phase = "connect" /\ SessionFails))
    /\ WF_vars(PollRead) /\ WF_vars(WriteOut) /\ WF_vars(ShutdownOut)
    /\ WF_vars(ReadEnd) /\ WF_vars(PollWrite) /\ WF_vars(PollShutdown)
    /\ WF_vars(CopyEnds) /\ WF_vars(DropSocket)

FairSpec == Spec /\ Fairness

--------------------------------------------------------------------------------
(* Properties                                                                *)

\* State is of its type; neither buffer holds more than its size.
TypeOK ==
    /\ state \in {"none", "Listen", "SynReceived", "Established", "FinWait1", "FinWait2",
                  "CloseWait", "Closing", "LastAck", "TimeWait", "Closed"}
    /\ rx \in 0 .. RxCap /\ tx \in 0 .. TxCap /\ sent \in 0 .. tx
    /\ app_sent \in 0 .. MaxSeg /\ srv_sent \in 0 .. MaxSeg
    /\ srv_got \in 0 .. MaxSeg /\ acked \in 0 .. MaxSeg
    /\ fin_sent \in BOOLEAN /\ app_fin \in BOOLEAN /\ srv_fin \in BOOLEAN
    /\ phase \in {"none", "connect", "copy", "ended", "failed", "broken"}
    /\ a_to_b \in {"copy", "shutdown", "done"} /\ b_to_a \in {"copy", "shutdown", "done"}
    /\ a_buf \in 0 .. 1 /\ b_buf \in 0 .. 1
    /\ a_wait \in BOOLEAN /\ b_wait \in BOOLEAN /\ waker \in BOOLEAN

\* A direction that pends on the socket will be woken, and has nothing to do now:
\* no data and no end of the file, no room to write.  The one exception is the
\* reader of a socket that its own session has closed while it was listening.
NoLostWakeup ==
    /\ a_wait => waker /\ ~CanRecv /\ (~AtEof \/ b_to_a = "done")
    /\ b_wait => waker /\ ~CanSend

\* What the application sends, as the outbound side gets it.  The rest of a stream
\* is thrown away only when TIME-WAIT ends with data that nobody read.
Up == INSTANCE BytePipe WITH
          written <- app_sent, ended <- app_fin \/ state = "Closed",
          read <- srv_got, eof <- a_to_b # "copy",
          cut <- srv_got + a_buf + rx < app_sent

\* What the outbound side sends, as it is transmitted to the application.
Down == INSTANCE BytePipe WITH
            written <- srv_sent, ended <- srv_fin,
            read <- acked + sent, eof <- fin_sent, cut <- FALSE

\* The server is given what the application sent, without gaps, and its end of the
\* stream only when the application has ended it (or the connection is closed
\* altogether) and all of it was passed on, whatever is closed or reset meanwhile.
DeliversUp == Up!Spec

\* The application is sent what the server sent, without gaps, and a FIN only when
\* the server has ended its stream and all of it was transmitted.
DeliversDown == Down!Spec

\* A session that ends without an error has passed on all that the application sent,
\* TIME-WAIT's loss excepted, and has put all that the server sent into the transmit
\* buffer: neither direction is cut off because the other one has ended.
EndsComplete ==
    phase = "ended" =>
        /\ srv_got = app_sent \/ (state = "Closed" /\ app_fin)
        /\ srv_fin /\ acked + tx = srv_sent

\* Once the application and after it the server have ended their streams, the
\* session ends and frees its socket, without another packet of the device.
HalfClosedEnds == (state = "CloseWait" /\ phase = "copy" /\ srv_fin) ~> (phase = "none")

\* A full receive buffer, which closes the window, is read again.
WindowReopens == (phase = "copy" /\ rx = RxCap) ~> (rx < RxCap \/ phase # "copy")

\* As long as the device keeps sending packets, the session of a connection that is
\* closed altogether ends once the server has ended its stream.
ClosedSessionEnds ==
    []<>~waker => ((phase = "copy" /\ state = "Closed" /\ srv_fin) ~> (phase = "none"))

\* Expected of an asynchronous byte stream: when a session ends, in order or with the
\* error "connection closed" of poll_write, on a connection that is not closed, then
\* all that was read for the application was transmitted to it.
ResponseDelivered ==
    phase \in {"ended", "broken"} /\ state # "Closed" => b_buf = 0 /\ sent = tx
================================================================================
