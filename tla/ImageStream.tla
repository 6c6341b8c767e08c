----------------------------- MODULE ImageStream ----------------------------
(***************************************************************************)
(* The stream of images of a receiver (image_stream.cpp) and the thread    *)
(* that reads it (FetchImageWorker of image_decode_worker.cpp).  A pipe or *)
(* socket stream has a thread of its own, the worker, that fills a ring    *)
(* buffer; a camera is read directly.  An image is the number of the frame *)
(* it was sent as; NoFrame is an empty cv::Mat: a read that failed, or     *)
(* data that is no image.  frame_q is taken to have room (DecodePipeline   *)
(* has its bound).                                                         *)
(***************************************************************************)
EXTENDS Naturals, Sequences

CONSTANTS
    Kinds,       \* the values of stream_type in image_stream.ini
    BufferSize,  \* the number of frames of the ring buffer
    FrameBound   \* frames with a greater number are not told from bad data

ASSUME ImageStreamAssumption ==
    /\ Kinds \subseteq {"camera", "pipe", "socket"}
    /\ BufferSize \in Nat \ {0}
    /\ FrameBound \in Nat

VARIABLES
    kind,       \* the type of the stream
    link,       \* the other end is there: the server listens, the pipe is open
    connected,  \* ... and the present stream is connected to it
    sent,       \* the number of the last frame the other end sent
    m_ring_buffer, m_size, m_wptr, m_rptr,
    m_running,  \* the stream's flag
    derived,    \* the part of the stream that has FetchData is not destroyed
    worker,     \* where the worker is; "none": the stream has no thread
    hand,       \* the frame the worker fetched
    running,    \* the receiver's flag
    fetcher,    \* where FetchImageWorker is
    frame,      \* its last frame
    emplaced    \* the last frame it put into frame_q

ring == <<m_ring_buffer, m_size, m_wptr, m_rptr>>
stream == <<ring, m_running, derived, worker, hand>>
remote == <<kind, link, connected, sent>>
reader == <<running, fetcher, frame, emplaced>>
vars == <<remote, stream, reader>>

NoFrame == 0
Frames == 1 .. FrameBound
Index == 0 .. BufferSize - 1

TypeOK ==
    /\ kind \in Kinds
    /\ link \in BOOLEAN /\ connected \in BOOLEAN
    /\ sent \in 0 .. FrameBound
    /\ m_ring_buffer \in [Index -> Frames \cup {NoFrame}]
    /\ m_size \in 0 .. BufferSize /\ m_wptr \in Index /\ m_rptr \in Index
    /\ m_running \in BOOLEAN /\ derived \in BOOLEAN
    /\ worker \in {"none", "test", "fetch", "store", "ended", "crashed"}
    /\ hand \in Frames \cup {NoFrame} /\ frame \in Frames \cup {NoFrame}
    /\ running \in BOOLEAN
    /\ fetcher \in {"create", "test", "get", "asleep", "check", "closing", "closed", "join", "ended"}
    /\ emplaced \in Frames \cup {NoFrame}

EmptyRing ==
    /\ m_ring_buffer = [i \in Index |-> NoFrame]
    /\ m_size = 0 /\ m_wptr = 0 /\ m_rptr = 0

Init ==
    /\ kind \in Kinds /\ link \in BOOLEAN /\ connected = FALSE /\ sent = 0
    /\ EmptyRing /\ m_running = FALSE /\ derived = FALSE /\ worker = "none" /\ hand = NoFrame
    /\ running = TRUE /\ fetcher = "create" /\ frame = NoFrame /\ emplaced = NoFrame

-----------------------------------------------------------------------------
(* The other end sends another frame, or data that is no image: the next   *)
(* value of sent, and what imdecode makes of it.                           *)
Received(f) ==
    \/ sent < FrameBound /\ sent' = sent + 1 /\ f = sent'
    \/ UNCHANGED sent /\ f = NoFrame

(* The server stops or the pipe is closed; a server may come back.         *)
LinkDown == link /\ link' = FALSE /\ connected' = FALSE /\ UNCHANGED <<kind, sent, stream, reader>>

LinkUp == ~link /\ kind # "pipe" /\ link' = TRUE /\ UNCHANGED <<kind, connected, sent, stream, reader>>

(* main clears the flag to stop.                                           *)
Stop == running /\ running' = FALSE /\ UNCHANGED <<remote, stream, fetcher, frame, emplaced>>

-----------------------------------------------------------------------------
(* The worker.                                                             *)

(* One past the last place comes before the first.                         *)
MutIncPtr(ptr) == (ptr + 1) % (BufferSize + 1)

IncPtr(ptr) == (ptr + 1) % BufferSize

(* A new stream: Start for a pipe, and for a socket that could connect.    *)
StartWorker ==
    /\ connected' = (link /\ kind # "camera")
    /\ derived' = TRUE
    /\ m_running' = (kind = "pipe" \/ connected')
    /\ worker' = IF m_running' THEN "test" ELSE "none"

(* while (m_runnning), and the call of FetchData: by then only the base    *)
(* class may be left of the stream, where FetchData is pure.               *)
Test ==
    /\ worker = "test"
    /\ worker' = CASE ~m_running -> "ended"
                   [] m_running /\ derived -> "fetch"
                   [] OTHER -> "crashed"
    /\ UNCHANGED <<remote, ring, m_running, derived, hand, reader>>

(* FetchData and imdecode: a broken socket is an exception, an empty       *)
(* frame; a pipe that is closed keeps the worker in a loop.  A socket that *)
(* is destroyed meanwhile is undefined behaviour.                          *)
FetchData ==
    /\ worker = "fetch"
    /\ \/ /\ link
          /\ kind = "socket" => connected
          /\ Received(hand')
          /\ worker' = "store"
       \/ /\ kind = "socket"
          /\ ~connected \/ ~derived
          /\ hand' = NoFrame /\ worker' = "store" /\ UNCHANGED sent
       \/ /\ kind = "socket" /\ ~derived
          /\ worker' = "crashed" /\ UNCHANGED <<hand, sent>>
    /\ UNCHANGED <<kind, link, connected, ring, m_running, derived, reader>>

(* The oldest frame stays where it is when the buffer is full.             *)
MutStoreKeepsReadPointer ==
    /\ worker = "store"
    /\ m_ring_buffer' = [m_ring_buffer EXCEPT ![m_wptr] = hand]
    /\ m_wptr' = IncPtr(m_wptr)
    /\ m_size' = IF m_size = BufferSize THEN m_size ELSE m_size + 1
    /\ fetcher' = IF fetcher = "asleep" THEN "get" ELSE fetcher
    /\ worker' = "test"
    /\ UNCHANGED <<remote, m_rptr, m_running, derived, hand, running, frame, emplaced>>

(* The reader is not woken.                                                *)
MutStoreWithoutNotify ==
    /\ worker = "store"
    /\ m_ring_buffer' = [m_ring_buffer EXCEPT ![m_wptr] = hand]
    /\ m_wptr' = IncPtr(m_wptr)
    /\ IF m_size = BufferSize
       THEN m_rptr' = IncPtr(m_rptr) /\ UNCHANGED m_size
       ELSE m_size' = m_size + 1 /\ UNCHANGED m_rptr
    /\ worker' = "test"
    /\ UNCHANGED <<remote, m_running, derived, hand, reader>>

(* The critical section: a full buffer loses its oldest frame; notify_one  *)
(* wakes the reader.                                                       *)
Store ==
    /\ worker = "store"
    /\ m_ring_buffer' = [m_ring_buffer EXCEPT ![m_wptr] = hand]
    /\ m_wptr' = IncPtr(m_wptr)
    /\ IF m_size = BufferSize
       THEN m_rptr' = IncPtr(m_rptr) /\ UNCHANGED m_size
       ELSE m_size' = m_size + 1 /\ UNCHANGED m_rptr
    /\ fetcher' = IF fetcher = "asleep" THEN "get" ELSE fetcher
    /\ worker' = "test"
    /\ UNCHANGED <<remote, m_running, derived, hand, running, frame, emplaced>>

-----------------------------------------------------------------------------
(* FetchImageWorker.                                                       *)

(* while (running) create_image_stream().                                  *)
Create ==
    /\ fetcher = "create"
    /\ IF running
       THEN /\ StartWorker
            /\ m_ring_buffer' = [i \in Index |-> NoFrame]
            /\ m_size' = 0 /\ m_wptr' = 0 /\ m_rptr' = 0
            /\ fetcher' = "test"
       ELSE fetcher' = "ended" /\ UNCHANGED <<connected, derived, m_running, worker, ring>>
    /\ UNCHANGED <<kind, link, sent, hand, running, frame, emplaced>>

(* The inner while (running), read before every GetFrame.                  *)
TestRunning ==
    /\ fetcher = "test"
    /\ fetcher' = IF running THEN "get" ELSE "closing"
    /\ UNCHANGED <<remote, stream, running, frame, emplaced>>

(* GetFrame of a camera.                                                   *)
CameraGetFrame ==
    /\ fetcher = "get" /\ kind = "camera"
    /\ IF link THEN Received(frame') ELSE frame' = NoFrame /\ UNCHANGED sent
    /\ fetcher' = "check"
    /\ UNCHANGED <<kind, link, connected, stream, running, emplaced>>

(* The reader falls asleep without a look at what is there.                *)
MutWaitUnchecked ==
    /\ fetcher = "get" /\ kind # "camera" /\ m_running
    /\ fetcher' = "asleep"
    /\ UNCHANGED <<remote, stream, running, frame, emplaced>>

(* GetFrame of a stream with a buffer: it waits in m_cv while the stream   *)
(* runs and has nothing.                                                   *)
Wait ==
    /\ fetcher = "get" /\ kind # "camera" /\ m_running /\ m_size = 0
    /\ fetcher' = "asleep"
    /\ UNCHANGED <<remote, stream, running, frame, emplaced>>

GetFrame ==
    /\ fetcher = "get" /\ kind # "camera" /\ (~m_running \/ m_size > 0)
    /\ IF m_size > 0
       THEN /\ frame' = m_ring_buffer[m_rptr]
            /\ m_ring_buffer' = [m_ring_buffer EXCEPT ![m_rptr] = NoFrame]
            /\ m_rptr' = IncPtr(m_rptr)
            /\ m_size' = m_size - 1
       ELSE frame' = NoFrame /\ UNCHANGED <<m_ring_buffer, m_rptr, m_size>>
    /\ fetcher' = "check"
    /\ UNCHANGED <<remote, m_wptr, m_running, derived, worker, hand, running, emplaced>>

(* An empty frame ends the stream; another goes into frame_q.              *)
Check ==
    /\ fetcher = "check"
    /\ emplaced' = IF frame = NoFrame THEN emplaced ELSE frame
    /\ fetcher' = IF frame = NoFrame THEN "closing" ELSE "test"
    /\ UNCHANGED <<remote, stream, running, frame>>

(* The end of the stream's scope: the derived part goes first.             *)
DestroyDerived ==
    /\ fetcher = "closing"
    /\ derived' = FALSE /\ connected' = FALSE
    /\ fetcher' = "closed"
    /\ UNCHANGED <<kind, link, sent, ring, m_running, worker, hand, running, frame, emplaced>>

(* The thread is left to itself.                                           *)
MutDestroyBaseWithoutJoin ==
    /\ fetcher = "closed"
    /\ m_running' = FALSE
    /\ fetcher' = "create"
    /\ UNCHANGED <<remote, ring, derived, worker, hand, running, frame, emplaced>>

(* ~ThreadedImageStream: the flag is cleared and the thread joined.        *)
DestroyBase ==
    /\ fetcher = "closed"
    /\ m_running' = FALSE
    /\ fetcher' = IF m_running THEN "join" ELSE "create"
    /\ UNCHANGED <<remote, ring, derived, worker, hand, running, frame, emplaced>>

Join ==
    /\ fetcher = "join" /\ worker = "ended"
    /\ worker' = "none" /\ fetcher' = "create"
    /\ UNCHANGED <<remote, ring, m_running, derived, hand, running, frame, emplaced>>

-----------------------------------------------------------------------------
Worker == Test \/ FetchData \/ Store
FetchImageWorker ==
    \/ Create \/ TestRunning \/ CameraGetFrame \/ Wait \/ GetFrame \/ Check
    \/ DestroyDerived \/ DestroyBase \/ Join
Environment == LinkDown \/ LinkUp \/ Stop

(* A crash takes the whole process with it.                                *)
Next == worker # "crashed" /\ (Worker \/ FetchImageWorker \/ Environment)

Spec == Init /\ [][Next]_vars

(* Both threads are scheduled, and an other end that is there goes on      *)
(* sending.                                                                *)
FairSpec == Spec /\ WF_vars(Next /\ Worker) /\ WF_vars(Next /\ FetchImageWorker)

-----------------------------------------------------------------------------
(* The ring buffer, read from m_rptr on.                                   *)
Unread == [i \in 1 .. m_size |-> m_ring_buffer[(m_rptr + i - 1) % BufferSize]]

Buffer == INSTANCE LossyBuffer WITH
    Frames <- Frames, Empty <- NoFrame, Size <- BufferSize, buf <- Unread, got <- frame

(* Size and pointers agree whatever the order of reads, writes and drops:  *)
(* the stream is a FIFO whose writer replaces the oldest frame when it is  *)
(* full, and no frame is read twice, out of turn or after its drop.        *)
AbstractSpec == Buffer!Spec

(* The decoders get the frames in the order they were sent, over all the   *)
(* streams that were opened, and none twice.                               *)
FramesInOrder == [][emplaced' # emplaced => emplaced' > emplaced]_vars

(* The reader sleeps only on a stream with nothing to read whose worker    *)
(* will wake it: no notification is missed.                                *)
NoLostWakeup ==
    fetcher = "asleep" => m_size = 0 /\ worker \in {"test", "fetch", "store"}

(* No worker outlives its stream: when the next one is created, or fetch   *)
(* has ended, the thread of the last is joined.                            *)
NoWorkerLeft == fetcher \in {"create", "ended"} => worker \in {"none", "crashed"}

(* When main asks for it the thread ends, as long as the other end sends   *)
(* or is closed: GetFrame and the join wait for one more frame.  Nothing   *)
(* ends a worker that reads a closed pipe; it may also crash the process,  *)
(* called between the two destructors.                                     *)
StopEnds ==
    ~running ~> \/ fetcher = "ended"
                \/ worker = "crashed"
                \/ kind = "pipe" /\ ~link
=============================================================================
