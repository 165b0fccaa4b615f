---------------------------- MODULE TcpSessionProofs ----------------------------
(***************************************************************************)
(* Proofs about TcpSession, for buffers of any size and streams of any     *)
(* length.                                                                 *)
(***************************************************************************)
EXTENDS TcpSession, TLAPS

\* The socket is in a state that follows the application's FIN only after it.
FinStates == state \in {"CloseWait", "Closing", "LastAck", "TimeWait"} => app_fin

\* The parts of the type invariant.
Numbers ==
    /\ rx \in 0 .. RxCap /\ tx \in 0 .. TxCap /\ sent \in 0 .. tx
    /\ app_sent \in 0 .. MaxSeg /\ srv_sent \in 0 .. MaxSeg
    /\ a_buf \in 0 .. 1 /\ b_buf \in 0 .. 1

Flags ==
    /\ fin_sent \in BOOLEAN /\ app_fin \in BOOLEAN /\ srv_fin \in BOOLEAN
    /\ a_wait \in BOOLEAN /\ b_wait \in BOOLEAN /\ waker \in BOOLEAN

Places ==
    /\ state \in {"none", "Listen", "SynReceived", "Established", "FinWait1", "FinWait2",
                  "CloseWait", "Closing", "LastAck", "TimeWait", "Closed"}
    /\ phase \in {"none", "connect", "copy", "ended", "failed", "broken"}
    /\ a_to_b \in {"copy", "shutdown", "done"} /\ b_to_a \in {"copy", "shutdown", "done"}

\* Nothing is lost between the ends: what one side sent is in a buffer, in a chunk
\* that is being copied, or at the other side.  TIME-WAIT throws away what is unread.
Counts ==
    /\ srv_got \in Nat /\ acked \in Nat
    /\ srv_got + a_buf + rx <= app_sent
    /\ srv_got + a_buf + rx < app_sent => state = "Closed" /\ app_fin
    /\ acked + tx + b_buf = srv_sent

\* A direction ends with nothing in hand; the socket's own FIN follows all its data.
Ends ==
    /\ a_to_b # "copy" => a_buf = 0
    /\ b_to_a # "copy" => b_buf = 0 /\ srv_fin
    /\ state \in {"FinWait1", "FinWait2", "Closing", "LastAck", "TimeWait"} => b_to_a = "done"
    /\ fin_sent => b_to_a = "done" /\ sent = tx
    /\ state \in {"FinWait2", "TimeWait"} => tx = 0
    /\ phase = "none" => state = "none"

\* The inductive invariant.
Inv == Numbers /\ Flags /\ Places /\ FinStates /\ NoLostWakeup

\* The inductive invariant of the two pipes, relative to the other.
PipeInv == Counts /\ Ends

\* The initial state satisfies the invariant.
LEMMA InvInit == Init => Inv
<1> SUFFICES ASSUME Init PROVE Inv
  OBVIOUS
<1>1. Numbers
  BY CapAssumption DEF Init, Numbers
<1>2. Flags
  BY DEF Init, Flags
<1>3. Places
  BY DEF Init, Places
<1>4. FinStates
  BY DEF Init, FinStates
<1>5. NoLostWakeup
  BY DEF Init, NoLostWakeup
<1> QED BY <1>1, <1>2, <1>3, <1>4, <1>5 DEF Inv

\* After a poll nobody pends.
LEMMA PollFacts ==
    ASSUME Inv, Poll
    PROVE  /\ a_wait' = FALSE /\ b_wait' = FALSE /\ waker' = FALSE
           /\ sent' = tx' \/ (sent' = sent /\ tx' = tx)
<1>1. ~waker => ~a_wait /\ ~b_wait
  BY DEF Inv, NoLostWakeup
<1>2. a_wait \in BOOLEAN /\ b_wait \in BOOLEAN
  BY DEF Inv, Flags
<1> QED BY <1>1, <1>2 DEF Poll, Wake

\* Every packet of the device preserves the invariant.
LEMMA InvDevice == ASSUME Inv, Device PROVE Inv'
<1>1. Poll
  BY DEF Device, Syn, SynAgain, Segment, Reset, OtherPacket, TimeWaitOver
<1>2. /\ a_wait' = FALSE /\ b_wait' = FALSE /\ waker' = FALSE
      /\ sent' = tx' \/ (sent' = sent /\ tx' = tx)
  BY <1>1, PollFacts
<1>3. NoLostWakeup'
  BY <1>2 DEF NoLostWakeup
<1>4. fin_sent' \in BOOLEAN
  BY <1>1 DEF Poll, Inv, Flags
<1>5. CASE Syn \/ SynAgain \/ Reset \/ OtherPacket \/ TimeWaitOver
  <2>1. /\ UNCHANGED <<app_sent, app_fin, srv_sent, srv_fin, a_to_b, b_to_a, a_buf, b_buf>>
        /\ \/ UNCHANGED <<rx, tx>>
           \/ rx' = 0 /\ tx' = 0
    BY <1>5 DEF Syn, SynAgain, Reset, OtherPacket, TimeWaitOver, peerVars, copyVars
  <2>2. Numbers'
    BY <2>1, <1>2, CapAssumption DEF Inv, Numbers
  <2>3. Flags'
    BY <2>1, <1>2, <1>4 DEF Inv, Flags
  <2>4. Places'
    BY <1>5, <2>1 DEF Syn, SynAgain, Reset, OtherPacket, TimeWaitOver, Inv, Places
  <2>5. state' \in {"CloseWait", "Closing", "LastAck", "TimeWait"} => state' = state
    BY <1>5 DEF Syn, SynAgain, Reset, OtherPacket, TimeWaitOver
  <2>6. FinStates'
    BY <2>1, <2>5 DEF Inv, FinStates
  <2> QED BY <1>3, <2>2, <2>3, <2>4, <2>6 DEF Inv
<1>6. ASSUME NEW n \in 0 .. 1, NEW fin \in BOOLEAN, NEW ack \in BOOLEAN, Segment(n, fin, ack)
      PROVE  Inv'
  <2>1. /\ state \in Open
        /\ state' = IF fin THEN AfterFin(AfterAck(state, fin_sent /\ ack))
                    ELSE AfterAck(state, fin_sent /\ ack)
    BY <1>6 DEF Segment
  <2>2. /\ state' \in {"SynReceived", "Established", "FinWait1", "FinWait2", "CloseWait", "Closing",
                       "LastAck", "TimeWait", "Closed"}
        /\ state' \in {"CloseWait", "Closing", "LastAck", "TimeWait"} =>
              fin \/ state \in {"CloseWait", "Closing", "LastAck"}
    BY <2>1 DEF AfterFin, AfterAck, Open
  <2>3. /\ app_fin' = (app_fin \/ fin)
        /\ UNCHANGED <<srv_sent, srv_fin, phase, a_to_b, b_to_a, a_buf, b_buf>>
    BY <1>6 DEF Segment, copyVars
  <2>4. /\ rx + n <= RxCap /\ rx' = rx + n
        /\ app_sent + n <= MaxSeg /\ app_sent' = app_sent + n
        /\ tx' = tx - sent \/ tx' = tx
    BY <1>6 DEF Segment
  <2>5. Numbers'
    BY <1>2, <2>3, <2>4, CapAssumption DEF Inv, Numbers
  <2>6. Flags'
    BY <1>2, <1>4, <2>3 DEF Inv, Flags
  <2>7. Places'
    BY <2>2, <2>3 DEF Inv, Places
  <2>8. FinStates'
    BY <2>2, <2>3 DEF Inv, FinStates
  <2> QED BY <1>3, <2>5, <2>6, <2>7, <2>8 DEF Inv
<1> QED
  BY <1>5, <1>6 DEF Device

\* What MaybeWake does.
LEMMA MaybeWakeFacts ==
    ASSUME MaybeWake, Inv
    PROVE  /\ a_wait' \in BOOLEAN /\ b_wait' \in BOOLEAN
           /\ a_wait' => a_wait
           /\ b_wait' => b_wait
<1>1. CASE Wake
  BY <1>1 DEF Wake
<1>2. CASE UNCHANGED <<a_wait, b_wait>>
  <2>1. a_wait' = a_wait /\ b_wait' = b_wait
    BY <1>2
  <2>2. a_wait \in BOOLEAN /\ b_wait \in BOOLEAN
    BY DEF Inv, Flags
  <2> QED BY <2>1, <2>2
<1> QED BY <1>1, <1>2 DEF MaybeWake

\* Every step of the session preserves the numbers.
LEMMA NumbersSession == ASSUME Numbers, Session PROVE Numbers'
<1> USE CapAssumption DEF Numbers, CanRecv, CanSend
<1>1. CASE Connected \/ SessionFails \/ CopyEnds \/ ServerCloses
  BY <1>1 DEF Connected, SessionFails, CopyEnds, ServerCloses, socketVars, peerVars, copyVars
<1>2. CASE PollRead
  BY <1>2 DEF PollRead, peerVars
<1>3. CASE WriteOut \/ ShutdownOut \/ ReadEnd
  BY <1>3 DEF WriteOut, ShutdownOut, ReadEnd, socketVars, peerVars
<1>4. CASE ReadData
  BY <1>4 DEF ReadData, socketVars
<1>5. CASE PollWrite
  BY <1>5 DEF PollWrite, SendSlice, peerVars
<1>6. CASE PollShutdown
  BY <1>6 DEF PollShutdown, peerVars
<1>7. CASE DropSocket
  BY <1>7 DEF DropSocket
<1> QED
  BY <1>1, <1>2, <1>3, <1>4, <1>5, <1>6, <1>7 DEF Session

\* Every step of the session preserves the flags and the places.
LEMMA PlacesSession == ASSUME Inv, Session PROVE Flags' /\ Places'
<1> USE DEF Inv, Flags, Places
<1>1. CASE Connected \/ SessionFails \/ CopyEnds \/ ServerCloses
  BY <1>1 DEF Connected, SessionFails, CopyEnds, ServerCloses, socketVars, peerVars, copyVars,
              waitVars
<1>2. CASE PollRead
  BY <1>2 DEF PollRead, RegisterWaker, peerVars
<1>3. CASE WriteOut \/ ShutdownOut \/ ReadEnd
  BY <1>3, MaybeWakeFacts DEF WriteOut, ShutdownOut, ReadEnd, socketVars, peerVars
<1>4. CASE ReadData
  BY <1>4, MaybeWakeFacts DEF ReadData, socketVars
<1>5. CASE PollWrite
  <2>1. /\ UNCHANGED <<state, fin_sent, app_fin, srv_fin, a_to_b, b_to_a, a_wait>>
        /\ phase' \in {phase, "broken"}
        /\ \/ UNCHANGED <<b_wait, waker>>
           \/ b_wait' = TRUE /\ waker' = TRUE
    BY <1>5 DEF PollWrite, RegisterWaker, peerVars
  <2>2. Flags'
    BY <2>1
  <2>3. Places'
    BY <2>1
  <2> QED BY <2>2, <2>3
<1>6. CASE PollShutdown
  BY <1>6 DEF PollShutdown, AfterClose, peerVars, waitVars
<1>7. CASE DropSocket
  BY <1>7 DEF DropSocket
<1> QED
  BY <1>1, <1>2, <1>3, <1>4, <1>5, <1>6, <1>7 DEF Session

\* No step of the session reaches a state past the application's FIN before it.
LEMMA FinSession == ASSUME Inv, Session PROVE FinStates'
<1>1. CASE state' = state /\ app_fin' = app_fin
  BY <1>1 DEF Inv, FinStates
<1>2. CASE PollShutdown
  BY <1>2 DEF PollShutdown, AfterClose, peerVars, Inv, FinStates
<1>3. CASE DropSocket
  BY <1>3 DEF DropSocket, FinStates
<1> QED
  BY <1>1, <1>2, <1>3 DEF Session, Connected, SessionFails, PollRead, WriteOut, ShutdownOut,
     ServerCloses, ReadData, ReadEnd, PollWrite, CopyEnds, socketVars, peerVars

\* Every step of the session keeps its own directions from being forgotten.
LEMMA WakeupSession == ASSUME Inv, Session PROVE NoLostWakeup'
<1> USE DEF NoLostWakeup, CanRecv, CanSend, AtEof
<1>1. CASE Connected \/ SessionFails \/ CopyEnds \/ ServerCloses
  BY <1>1 DEF Connected, SessionFails, CopyEnds, ServerCloses, socketVars, copyVars, waitVars, Inv
<1>2. CASE PollRead
  BY <1>2 DEF PollRead, RegisterWaker, Inv
<1>3. CASE WriteOut \/ ShutdownOut \/ ReadData
  BY <1>3, MaybeWakeFacts DEF WriteOut, ShutdownOut, ReadData, socketVars, Inv
<1>4. CASE ReadEnd
  BY <1>4, MaybeWakeFacts DEF ReadEnd, socketVars, Inv
<1>5. CASE PollWrite
  BY <1>5 DEF PollWrite, SendSlice, BrokenPipe, RegisterWaker, Inv, Numbers
<1>6. CASE PollShutdown
  BY <1>6 DEF PollShutdown, AfterClose, waitVars, Inv
<1>7. CASE DropSocket
  BY <1>7 DEF DropSocket
<1> QED
  BY <1>1, <1>2, <1>3, <1>4, <1>5, <1>6, <1>7 DEF Session

\* The invariant holds in every reachable state.
THEOREM SessionInvariant == Spec => []Inv
<1>1. Inv /\ UNCHANGED vars => Inv'
  <2> SUFFICES ASSUME Inv, UNCHANGED vars PROVE Inv'
    OBVIOUS
  <2>1. Numbers' /\ Places'
    BY DEF vars, socketVars, peerVars, copyVars, Inv, Numbers, Places
  <2>2. Flags'
    BY DEF vars, socketVars, peerVars, waitVars, Inv, Flags
  <2>3. FinStates' /\ NoLostWakeup'
    BY DEF vars, socketVars, peerVars, copyVars, waitVars, Inv, FinStates, NoLostWakeup, CanRecv,
           CanSend, AtEof
  <2> QED BY <2>1, <2>2, <2>3 DEF Inv
<1>2. Inv /\ [Next]_vars => Inv'
  BY <1>1, InvDevice, NumbersSession, PlacesSession, FinSession, WakeupSession DEF Next, Inv
<1> QED
  BY InvInit, <1>2, PTL DEF Spec

\* Every packet of the device keeps the counts and the ends.
LEMMA PipeDevice == ASSUME Inv, PipeInv, Device PROVE PipeInv'
<1> USE DEF Inv, Numbers, Flags, Places, FinStates
<1>1. CASE Syn \/ SynAgain \/ Reset \/ OtherPacket
  <2>1. /\ UNCHANGED <<rx, tx, app_sent, app_fin, srv_sent, srv_fin, srv_got, acked>>
        /\ UNCHANGED <<a_to_b, b_to_a, a_buf, b_buf>>
        /\ Poll
    BY <1>1 DEF Syn, SynAgain, Reset, OtherPacket, peerVars, gotVars, copyVars
  <2>2. /\ state' \in {state, "SynReceived", "Listen", "Closed"}
        /\ state = "Closed" => state' = "Closed" \/ phase = "none"
        /\ phase' = "none" => phase = "none" /\ (state = "none" => state' = "none")
    BY <1>1 DEF Syn, SynAgain, Reset, OtherPacket, Open
  <2>3. Counts'
    BY <2>1, <2>2 DEF PipeInv, Counts, Ends
  <2>4. fin_sent' => b_to_a' = "done" /\ sent' = tx'
    BY <2>1, <2>2 DEF PipeInv, Ends, Poll
  <2>5. Ends'
    BY <2>1, <2>2, <2>4 DEF PipeInv, Ends
  <2> QED BY <2>3, <2>5 DEF PipeInv
<1>2. CASE TimeWaitOver
  <2>1. /\ state = "TimeWait" /\ state' = "Closed" /\ rx' = 0 /\ tx' = 0
        /\ UNCHANGED <<app_sent, app_fin, srv_sent, srv_fin, srv_got, acked>>
        /\ UNCHANGED <<phase, a_to_b, b_to_a, a_buf, b_buf>>
        /\ Poll
    BY <1>2 DEF TimeWaitOver, peerVars, gotVars, copyVars
  <2>2. tx = 0 /\ app_fin /\ sent = 0 /\ b_to_a = "done"
    BY <2>1 DEF PipeInv, Ends
  <2>3. Counts'
    BY <2>1, <2>2 DEF PipeInv, Counts
  <2>4. sent' = 0
    BY <2>1, <2>2 DEF Poll
  <2>5. Ends'
    BY <2>1, <2>2, <2>4 DEF PipeInv, Ends
  <2> QED BY <2>3, <2>5 DEF PipeInv
<1>3. ASSUME NEW n \in 0 .. 1, NEW fin \in BOOLEAN, NEW ack \in BOOLEAN, Segment(n, fin, ack)
      PROVE  PipeInv'
  <2>1. /\ state \in Open
        /\ state' = IF fin THEN AfterFin(AfterAck(state, fin_sent /\ ack))
                    ELSE AfterAck(state, fin_sent /\ ack)
        /\ app_sent' = app_sent + n /\ rx' = rx + n
        /\ app_fin' = (app_fin \/ fin)
        /\ tx' = IF ack THEN tx - sent ELSE tx
        /\ acked' = IF ack THEN acked + sent ELSE acked
        /\ UNCHANGED <<srv_sent, srv_fin, srv_got, phase, a_to_b, b_to_a, a_buf, b_buf>>
        /\ Poll
    BY <1>3 DEF Segment, copyVars
  <2>2. Counts'
    BY <2>1 DEF PipeInv, Counts, Open
  <2>3. /\ state' \in {"FinWait1", "FinWait2", "Closing", "LastAck", "TimeWait"} =>
              state \in {"FinWait1", "FinWait2", "Closing", "LastAck"}
        /\ state' \in {"FinWait2", "TimeWait"} =>
              state = "FinWait2" \/ (fin_sent /\ ack)
        /\ state' # "none"
    BY <2>1 DEF AfterAck, AfterFin, Open
  <2>4. state' = "Closed" => fin_sent
    BY <2>1 DEF AfterAck, AfterFin, Open
  <2>5. fin_sent' => b_to_a' = "done" /\ sent' = tx'
    BY <2>1, <2>3, <2>4 DEF PipeInv, Ends, Poll
  <2>6. state' \in {"FinWait2", "TimeWait"} => tx' = 0
    BY <2>1, <2>3 DEF PipeInv, Ends
  <2>7. phase' = "none" => state' = "none"
    BY <2>1 DEF PipeInv, Ends, Open
  <2>8. Ends'
    BY <2>1, <2>3, <2>5, <2>6, <2>7 DEF PipeInv, Ends
  <2> QED BY <2>2, <2>8 DEF PipeInv
<1> QED
  BY <1>1, <1>2, <1>3 DEF Device

\* Every step of the session keeps the counts and the ends.
LEMMA PipeSession == ASSUME Inv, PipeInv, Session PROVE PipeInv'
<1> USE DEF Inv, Numbers, Flags, Places, FinStates, PipeInv, Counts, Ends
<1>1. CASE Connected \/ SessionFails \/ CopyEnds \/ ServerCloses
  BY <1>1 DEF Connected, SessionFails, CopyEnds, ServerCloses, socketVars, peerVars, gotVars,
              copyVars
<1>2. CASE PollRead
  BY <1>2 DEF PollRead, CanRecv, peerVars, gotVars
<1>3. CASE WriteOut \/ ShutdownOut
  BY <1>3 DEF WriteOut, ShutdownOut, socketVars, peerVars, gotVars
<1>4. CASE ReadData \/ ReadEnd
  BY <1>4 DEF ReadData, ReadEnd, socketVars, peerVars, gotVars
<1>5. CASE PollWrite
  <2>1. /\ UNCHANGED <<state, rx, sent, fin_sent, app_sent, app_fin, srv_sent, srv_fin>>
        /\ UNCHANGED <<srv_got, acked, a_to_b, b_to_a, a_buf>>
        /\ b_buf = 1 /\ phase' # "none"
        /\ \/ CanSend /\ tx' = tx + 1 /\ b_buf' = 0
           \/ UNCHANGED <<tx, b_buf>>
    BY <1>5 DEF PollWrite, SendSlice, peerVars, gotVars
  <2>2. ~fin_sent
    BY <2>1
  <2>3. Counts'
    BY <2>1
  <2>4. Ends'
    BY <2>1, <2>2 DEF CanSend
  <2> QED BY <2>3, <2>4
<1>6. CASE PollShutdown
  BY <1>6 DEF PollShutdown, AfterClose, peerVars, gotVars
<1>7. CASE DropSocket
  BY <1>7 DEF DropSocket
<1> QED
  BY <1>1, <1>2, <1>3, <1>4, <1>5, <1>6, <1>7 DEF Session

\* Nothing is lost and nothing ends early, in every reachable state.
THEOREM PipeInvariant == Spec => []PipeInv
<1>1. Init => PipeInv
  BY DEF Init, PipeInv, Counts, Ends
<1>2. Inv /\ PipeInv /\ [Next]_vars => PipeInv'
  <2>1. ASSUME Inv, PipeInv, UNCHANGED vars PROVE PipeInv'
    BY <2>1 DEF vars, socketVars, peerVars, gotVars, copyVars, PipeInv, Counts, Ends
  <2> QED BY <2>1, PipeDevice, PipeSession DEF Next
<1> QED
  BY <1>1, <1>2, SessionInvariant, PTL DEF Spec

\* State is of its type and neither buffer exceeds its size.
THEOREM SessionTypes == Spec => []TypeOK
<1>1. Inv /\ PipeInv => TypeOK
  <2> SUFFICES ASSUME Inv, PipeInv PROVE TypeOK
    OBVIOUS
  <2>1. srv_got \in 0 .. MaxSeg /\ acked \in 0 .. MaxSeg
    BY CapAssumption DEF Inv, Numbers, PipeInv, Counts
  <2> QED BY <2>1 DEF Inv, Numbers, Flags, Places, TypeOK
<1> QED BY <1>1, SessionInvariant, PipeInvariant, PTL

\* No session sleeps in poll_read or poll_write with something to do.
THEOREM SessionWakeups == Spec => []NoLostWakeup
BY SessionInvariant, PTL DEF Inv

\* From the application to the outbound side, every step is one of the pipe's.
LEMMA UpStep == ASSUME Inv, PipeInv, [Next]_vars PROVE [Up!Next]_(Up!pipe)
<1> USE DEF Up!Next, Up!pipe
<1>1. CASE UNCHANGED vars
  BY <1>1 DEF vars, socketVars, peerVars, gotVars, copyVars
<1>2. CASE Syn \/ SynAgain \/ Reset \/ OtherPacket
  <2>1. /\ UNCHANGED <<rx, app_sent, app_fin, srv_got, a_to_b, a_buf>>
        /\ state' = state \/ state' = "Closed" \/ state # "Closed"
    BY <1>2 DEF Syn, SynAgain, Reset, OtherPacket, peerVars, gotVars, copyVars, PipeInv, Ends
  <2> QED BY <2>1 DEF Up!Write
<1>3. CASE TimeWaitOver
  <2>1. state = "TimeWait" /\ state' = "Closed" /\ app_fin
    BY <1>3 DEF TimeWaitOver, Inv, FinStates
  <2>2. /\ UNCHANGED <<app_sent, app_fin, srv_got, a_to_b, a_buf>>
        /\ rx' = 0 /\ srv_got + a_buf + rx = app_sent
    BY <1>3, <2>1 DEF TimeWaitOver, peerVars, gotVars, copyVars, PipeInv, Counts, Inv, Numbers
  <2>3. CASE rx = 0
    BY <2>1, <2>2, <2>3
  <2>4. CASE rx # 0
    <3>1. srv_got + a_buf + rx' < app_sent
      BY <2>2, <2>4 DEF Inv, Numbers, PipeInv, Counts
    <3> QED BY <2>1, <2>2, <3>1 DEF Up!Cut
  <2> QED BY <2>3, <2>4
<1>4. ASSUME NEW n \in 0 .. 1, NEW fin \in BOOLEAN, NEW ack \in BOOLEAN, Segment(n, fin, ack)
      PROVE  [Up!Next]_(Up!pipe)
  <2>1. /\ state \in Open /\ (n > 0 \/ fin => ~app_fin)
        /\ app_sent' = app_sent + n /\ rx' = rx + n
        /\ app_fin' = (app_fin \/ fin)
        /\ state' = "Closed" => state = "LastAck"
        /\ UNCHANGED <<srv_got, a_to_b, a_buf>>
    BY <1>4 DEF Segment, AfterAck, AfterFin, Open, copyVars
  <2>2. state # "Closed" /\ (state' = "Closed" => app_fin)
    BY <2>1 DEF Open, Inv, FinStates
  <2>3. (srv_got' + a_buf' + rx' < app_sent') <=> (srv_got + a_buf + rx < app_sent)
    BY <2>1 DEF Inv, Numbers, PipeInv, Counts
  <2>4. app_sent' \in {app_sent, app_sent + 1}
    BY <2>1 DEF Inv, Numbers
  <2>5. CASE app_fin
    <3>1. n = 0 /\ ~fin
      BY <2>1, <2>5
    <3>2. app_sent' = app_sent /\ rx' = rx
      BY <3>1, <2>1 DEF Inv, Numbers
    <3>3. app_fin' = TRUE /\ app_fin = TRUE
      BY <2>1, <2>5 DEF Inv, Flags
    <3> QED BY <3>2, <3>3, <2>1
  <2>6. CASE ~app_fin
    BY <2>1, <2>2, <2>3, <2>4, <2>6 DEF Up!Write
  <2> QED BY <2>5, <2>6
<1>5. CASE PollRead
  <2>1. /\ UNCHANGED <<state, app_sent, app_fin, srv_got>>
        /\ a_to_b = "copy" /\ a_buf = 0
        /\ \/ AtEof /\ a_to_b' = "shutdown" /\ UNCHANGED <<rx, a_buf>>
           \/ rx' = rx - 1 /\ a_buf' = 1 /\ UNCHANGED a_to_b
           \/ UNCHANGED <<rx, a_buf, a_to_b>>
    BY <1>5 DEF PollRead, peerVars, gotVars
  <2>2. (srv_got' + a_buf' + rx' < app_sent') <=> (srv_got + a_buf + rx < app_sent)
    BY <2>1 DEF Inv, Numbers, PipeInv, Counts
  <2>3. CASE AtEof /\ a_to_b' = "shutdown"
    <3>1. rx = 0 /\ (app_fin \/ state = "Closed")
      BY <2>3 DEF AtEof, CanRecv, Inv, Numbers, FinStates
    <3>2. srv_got = app_sent \/ srv_got + a_buf + rx < app_sent
      BY <3>1, <2>1 DEF Inv, Numbers, PipeInv, Counts
    <3>3. srv_got <= app_sent /\ srv_got <= srv_got
      BY <3>1, <2>1 DEF Inv, Numbers, PipeInv, Counts
    <3> QED BY <2>1, <2>2, <2>3, <3>1, <3>2, <3>3 DEF Up!Deliver
  <2>4. CASE UNCHANGED a_to_b
    BY <2>1, <2>2, <2>4
  <2> QED BY <2>1, <2>3, <2>4
<1>6. CASE WriteOut
  <2>1. /\ UNCHANGED <<state, rx, app_sent, app_fin, a_to_b>>
        /\ a_buf = 1 /\ a_buf' = 0 /\ srv_got' = srv_got + 1
    BY <1>6 DEF WriteOut, socketVars, peerVars
  <2>2. a_to_b = "copy"
    BY <2>1 DEF PipeInv, Ends
  <2>3. srv_got <= srv_got' /\ srv_got' <= app_sent
    BY <2>1 DEF Inv, Numbers, PipeInv, Counts
  <2>4. (srv_got' + a_buf' + rx' < app_sent') <=> (srv_got + a_buf + rx < app_sent)
    BY <2>1 DEF Inv, Numbers, PipeInv, Counts
  <2> QED BY <2>1, <2>2, <2>3, <2>4 DEF Up!Deliver
<1>7. CASE ShutdownOut
  <2>1. UNCHANGED <<state, rx, app_sent, app_fin, srv_got, a_buf>> /\ a_to_b # "copy" /\ a_to_b' # "copy"
    BY <1>7 DEF ShutdownOut, socketVars, peerVars, gotVars
  <2> QED BY <2>1
<1>8. CASE Connected \/ SessionFails \/ ServerCloses \/ ReadData \/ ReadEnd \/ PollWrite \/ CopyEnds
  <2>1. UNCHANGED <<state, rx, app_sent, app_fin, srv_got, a_buf, a_to_b>>
    BY <1>8 DEF Connected, SessionFails, ServerCloses, ReadData, ReadEnd, PollWrite, CopyEnds,
                socketVars, peerVars, gotVars, copyVars
  <2> QED BY <2>1
<1>9. CASE PollShutdown
  <2>1. /\ UNCHANGED <<rx, app_sent, app_fin, srv_got, a_buf, a_to_b>>
        /\ state = "Closed" => state' = "Closed"
    BY <1>9 DEF PollShutdown, AfterClose, peerVars, gotVars
  <2> QED BY <2>1 DEF Up!Write
<1>10. CASE DropSocket
  BY <1>10 DEF DropSocket, Up!Renew
<1> QED
  BY <1>1, <1>2, <1>3, <1>4, <1>5, <1>6, <1>7, <1>8, <1>9, <1>10 DEF Next, Device, Session

\* From the outbound side to the application, every step is one of the pipe's.
LEMMA DownStep == ASSUME Inv, PipeInv, [Next]_vars PROVE [Down!Next]_(Down!pipe)
<1> USE DEF Down!Next, Down!pipe
<1>1. CASE UNCHANGED vars
  BY <1>1 DEF vars, socketVars, peerVars, gotVars
<1>2. ASSUME Device PROVE [Down!Next]_(Down!pipe)
  <2>1. UNCHANGED <<srv_sent, srv_fin>>
    BY <1>2 DEF Device, Syn, SynAgain, Reset, OtherPacket, TimeWaitOver, Segment, peerVars
  <2> DEFINE Goal ==
        /\ acked' + tx' = acked + tx
        /\ acked' + sent' \in {acked + sent, acked + tx}
        /\ state' \in {"FinWait1", "Closing", "LastAck"} => sent' = tx' /\ b_to_a = "done"
        /\ fin_sent' = (fin_sent \/ state' \in {"FinWait1", "Closing", "LastAck"})
  <2>2. Goal
    <3>1. CASE Syn \/ SynAgain \/ Reset \/ OtherPacket
      BY <3>1 DEF Syn, SynAgain, Reset, OtherPacket, Poll, Open, gotVars, Inv, Numbers, PipeInv,
                  Counts, Ends
    <3>2. CASE TimeWaitOver
      BY <3>2 DEF TimeWaitOver, Poll, gotVars, Inv, Numbers, PipeInv, Counts, Ends
    <3>3. ASSUME NEW n \in 0 .. 1, NEW fin \in BOOLEAN, NEW ack \in BOOLEAN,
                 Segment(n, fin, ack)
          PROVE  Goal
      <4>1. /\ tx' = IF ack THEN tx - sent ELSE tx
            /\ acked' = IF ack THEN acked + sent ELSE acked
            /\ state' \in {"FinWait1", "Closing", "LastAck"} =>
                  state \in {"FinWait1", "Closing", "LastAck"}
            /\ state' = "Closed" => fin_sent
            /\ Poll
        BY <3>3 DEF Segment, AfterAck, AfterFin, Open
      <4> QED BY <4>1 DEF Poll, Inv, Numbers, PipeInv, Counts, Ends
    <3> QED BY <1>2, <3>1, <3>2, <3>3 DEF Device
  <2>3. CASE fin_sent
    <3>1. acked + sent = acked + tx /\ fin_sent'
      BY <2>2, <2>3 DEF PipeInv, Ends
    <3> QED BY <2>1, <2>2, <2>3, <3>1
  <2>4. CASE ~fin_sent
    <3>1. acked + sent <= acked' + sent' /\ acked' + sent' <= srv_sent
      BY <2>2 DEF Inv, Numbers, PipeInv, Counts
    <3>2. fin_sent' => srv_fin /\ acked' + sent' = srv_sent
      <4> SUFFICES ASSUME fin_sent' PROVE srv_fin /\ acked' + sent' = srv_sent
        OBVIOUS
      <4>1. state' \in {"FinWait1", "Closing", "LastAck"}
        BY <2>2, <2>4
      <4>2. sent' = tx' /\ b_to_a = "done"
        BY <2>2, <4>1
      <4>3. srv_fin /\ b_buf = 0
        BY <4>2 DEF PipeInv, Ends
      <4>4. acked + tx = srv_sent
        BY <4>3 DEF Inv, Numbers, PipeInv, Counts
      <4> QED BY <2>2, <4>2, <4>3, <4>4
    <3>3. fin_sent' \in BOOLEAN
      BY <2>2, <2>4
    <3> QED BY <2>1, <2>4, <3>1, <3>2, <3>3 DEF Down!Deliver
  <2> QED BY <2>3, <2>4 DEF Inv, Flags
<1>3. CASE ServerCloses
  BY <1>3 DEF ServerCloses, socketVars, gotVars, Down!Write
<1>4. CASE ReadData
  <2>1. /\ UNCHANGED <<srv_fin, acked, sent, fin_sent>>
        /\ ~srv_fin /\ srv_sent' = srv_sent + 1
    BY <1>4 DEF ReadData, socketVars, gotVars
  <2>2. srv_fin' \in BOOLEAN
    BY <2>1 DEF Inv, Flags
  <2> QED BY <2>1, <2>2 DEF Down!Write
<1>5. CASE Connected \/ SessionFails \/ PollRead \/ WriteOut \/ ShutdownOut \/ ReadEnd \/ PollWrite
           \/ PollShutdown \/ CopyEnds
  <2>1. UNCHANGED <<srv_sent, srv_fin, acked, sent, fin_sent>>
    BY <1>5 DEF Connected, SessionFails, PollRead, WriteOut, ShutdownOut, ReadEnd, PollWrite,
                PollShutdown, CopyEnds, socketVars, peerVars, gotVars
  <2> QED BY <2>1
<1>6. CASE DropSocket
  BY <1>6 DEF DropSocket, Down!Renew
<1> QED
  BY <1>1, <1>2, <1>3, <1>4, <1>5, <1>6 DEF Next, Session

\* The stream from the application keeps the promise of BytePipe.
THEOREM SessionDeliversUp == Spec => DeliversUp
<1>1. Init => Up!Init
  BY DEF Init, Up!Init
<1>2. Inv /\ PipeInv /\ [Next]_vars => [Up!Next]_(Up!pipe)
  BY UpStep
<1> QED
  BY <1>1, <1>2, SessionInvariant, PipeInvariant, PTL DEF Spec, DeliversUp, Up!Spec

\* The stream to the application keeps the promise of BytePipe.
THEOREM SessionDeliversDown == Spec => DeliversDown
<1>1. Init => Down!Init
  BY DEF Init, Down!Init
<1>2. Inv /\ PipeInv /\ [Next]_vars => [Down!Next]_(Down!pipe)
  BY DownStep
<1> QED
  BY <1>1, <1>2, SessionInvariant, PipeInvariant, PTL DEF Spec, DeliversDown, Down!Spec

--------------------------------------------------------------------------------
(* The end of a session                                                      *)

\* Once the end of the application's stream was read nothing more can come of it, and a
\* session that has ended without an error has ended both directions.
Finished ==
    /\ a_to_b # "copy" => rx = 0 /\ (app_fin \/ state = "Closed")
    /\ phase = "ended" => a_to_b # "copy" /\ b_to_a # "copy"

\* No packet of the device brings data after the end.
LEMMA FinishedDevice == ASSUME Inv, Ends, Finished, Device PROVE Finished'
<1>1. CASE Syn \/ SynAgain \/ Reset \/ OtherPacket \/ TimeWaitOver
  <2>1. /\ UNCHANGED <<app_fin, a_to_b, b_to_a>> /\ rx' \in {rx, 0}
        /\ state = "Closed" => state' = "Closed" \/ phase = "none"
        /\ phase' = "ended" => phase = "ended"
    BY <1>1 DEF Syn, SynAgain, Reset, OtherPacket, TimeWaitOver, Open, peerVars, copyVars
  <2>2. CASE Syn
    <3>1. phase' = "connect" /\ state # "Closed"
      BY <2>2 DEF Syn, Ends
    <3> QED BY <2>1, <3>1 DEF Finished
  <2>3. CASE SynAgain \/ Reset \/ OtherPacket \/ TimeWaitOver
    <3>1. state = "Closed" => state' = "Closed"
      BY <2>3 DEF SynAgain, Reset, OtherPacket, TimeWaitOver, Open
    <3> QED BY <2>1, <3>1 DEF Finished
  <2> QED BY <1>1, <2>2, <2>3
<1>2. ASSUME NEW n \in 0 .. 1, NEW fin \in BOOLEAN, NEW ack \in BOOLEAN, Segment(n, fin, ack)
      PROVE  Finished'
  <2>1. /\ state # "Closed" /\ (n > 0 => ~app_fin)
        /\ rx' = rx + n /\ app_fin' = (app_fin \/ fin)
        /\ UNCHANGED <<phase, a_to_b, b_to_a>>
    BY <1>2 DEF Segment, Open, copyVars
  <2>2. a_to_b # "copy" => app_fin /\ rx' = 0
    BY <2>1 DEF Finished
  <2> QED BY <2>1, <2>2 DEF Finished
<1> QED BY <1>1, <1>2 DEF Device

\* The session reads the end only when nothing is left, and ends when both are done.
LEMMA FinishedSession == ASSUME Inv, Finished, Session PROVE Finished'
<1>1. CASE \/ Connected \/ SessionFails \/ WriteOut \/ ShutdownOut
           \/ ServerCloses \/ ReadData \/ ReadEnd \/ PollWrite
  BY <1>1 DEF Connected, SessionFails, WriteOut, ShutdownOut, ServerCloses, ReadData, ReadEnd,
              PollWrite, socketVars, peerVars, copyVars, Finished
<1>2. CASE PollRead
  <2>1. /\ a_to_b = "copy" /\ phase = "copy" /\ UNCHANGED <<state, app_fin, phase, b_to_a>>
        /\ a_to_b' = "copy" \/ (AtEof /\ rx' = rx)
    BY <1>2 DEF PollRead, peerVars
  <2>2. AtEof => rx = 0 /\ (app_fin \/ state = "Closed")
    BY DEF AtEof, CanRecv, Inv, Numbers, FinStates
  <2> QED BY <2>1, <2>2 DEF Finished
<1>3. CASE PollShutdown
  BY <1>3 DEF PollShutdown, AfterClose, peerVars, Finished
<1>4. CASE CopyEnds
  BY <1>4 DEF CopyEnds, socketVars, peerVars, copyVars, Finished
<1>5. CASE DropSocket
  BY <1>5 DEF DropSocket, Finished
<1> QED BY <1>1, <1>2, <1>3, <1>4, <1>5 DEF Session

\* The end that was read is final, in every reachable state.
THEOREM FinishedInvariant == Spec => []Finished
<1>1. Init => Finished
  BY DEF Init, Finished
<1>2. Inv /\ PipeInv /\ Finished /\ [Next]_vars => Finished'
  <2>1. ASSUME Finished, UNCHANGED vars PROVE Finished'
    BY <2>1 DEF vars, socketVars, peerVars, copyVars, Finished
  <2> QED BY <2>1, FinishedDevice, FinishedSession DEF Next, PipeInv
<1> QED BY <1>1, <1>2, SessionInvariant, PipeInvariant, PTL DEF Spec

\* When copy_bidirectional returns without an error the server has all that the
\* application sent, but for what TIME-WAIT threw away, and what the server sent is
\* acknowledged or in the transmit buffer.
THEOREM SessionsComplete == Spec => []EndsComplete
<1>1. Inv /\ PipeInv /\ Finished => EndsComplete
  <2> SUFFICES ASSUME Inv, PipeInv, Finished, phase = "ended"
               PROVE  /\ srv_got = app_sent \/ (state = "Closed" /\ app_fin)
                      /\ srv_fin /\ acked + tx = srv_sent
    BY DEF EndsComplete
  <2>1. a_buf = 0 /\ rx = 0 /\ b_buf = 0 /\ srv_fin
    BY DEF Finished, PipeInv, Ends
  <2>2. srv_got <= app_sent /\ (srv_got < app_sent => state = "Closed" /\ app_fin)
    BY <2>1 DEF PipeInv, Counts
  <2>3. srv_got = app_sent \/ srv_got < app_sent
    BY <2>2 DEF PipeInv, Counts, Inv, Numbers
  <2>4. acked + tx = srv_sent
    BY <2>1 DEF PipeInv, Counts, Inv, Numbers
  <2> QED BY <2>1, <2>2, <2>3, <2>4
<1> QED BY <1>1, SessionInvariant, PipeInvariant, FinishedInvariant, PTL
================================================================================
