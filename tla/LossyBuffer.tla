----------------------------- MODULE LossyBuffer ----------------------------
(***************************************************************************)
(* What ThreadedImageStream promises its reader: a FIFO that never makes   *)
(* the writer wait.  When it is full a new frame replaces the oldest one.  *)
(***************************************************************************)
EXTENDS Naturals, Sequences

CONSTANTS
    Frames,  \* the frames
    Empty,   \* an empty frame, what the reader gets from a stream that is closed
    Size     \* how many frames the buffer holds

VARIABLES
    buf,  \* the frames not read yet, oldest first
    got   \* the reader's last frame

Init == buf = <<>> /\ got = Empty

Room == IF Len(buf) = Size THEN Tail(buf) ELSE buf

Put == \E f \in Frames \cup {Empty} : buf' = Append(Room, f) /\ UNCHANGED got

Get == buf # <<>> /\ got' = Head(buf) /\ buf' = Tail(buf)

(* The reader closes the stream and opens another, which starts empty.     *)
Reopen == buf' = <<>> /\ UNCHANGED got

(* A stream without a thread gives an empty frame at once; a camera is not *)
(* buffered and gives what it sees.                                        *)
Direct == buf = <<>> /\ got' \in Frames \cup {Empty} /\ UNCHANGED buf

Next == Put \/ Get \/ Reopen \/ Direct

Spec == Init /\ [][Next]_<<buf, got>>
=============================================================================
