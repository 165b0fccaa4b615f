-------------------------------- MODULE BytePipe --------------------------------
(***************************************************************************)
(* What one direction of a relayed connection promises, whatever carries   *)
(* it: the reader gets what was written, nothing missing in between, and   *)
(* is told the end of the stream only when the writer has ended it and all *)
(* that was written has been read.  Only a stream that was ended may be    *)
(* cut short.  When both ends are gone a new connection starts.            *)
(***************************************************************************)
EXTENDS Naturals

VARIABLES
    written,  \* segments the writer has written
    ended,    \* the writer has ended the stream
    read,     \* segments the reader was given
    eof,      \* the reader was told that there are no more
    cut       \* the rest of the stream was thrown away

pipe == <<written, ended, read, eof, cut>>

Init == written = 0 /\ ended = FALSE /\ read = 0 /\ eof = FALSE /\ cut = FALSE

\* The writer writes some more, or ends the stream, or both.
Write ==
    /\ ~ended
    /\ written' \in {written, written + 1}
    /\ ended' \in BOOLEAN
    /\ UNCHANGED <<read, eof, cut>>

\* The reader is given some of what is there, and the end after all of it.
Deliver ==
    /\ ~eof
    /\ read <= read' /\ read' <= written
    /\ eof' \in BOOLEAN
    /\ eof' => ended /\ (read' = written \/ cut)
    /\ UNCHANGED <<written, ended, cut>>

Cut ==
    /\ ended
    /\ cut' = TRUE
    /\ UNCHANGED <<written, ended, read, eof>>

Renew == written' = 0 /\ ended' = FALSE /\ read' = 0 /\ eof' = FALSE /\ cut' = FALSE

Next == Write \/ Deliver \/ Cut \/ Renew

Spec == Init /\ [][Next]_pipe
================================================================================
