---------------------------- MODULE ImageTransfer ---------------------------
(***************************************************************************)
(* The transfer of a file as a stream of images: the stream server draws   *)
(* the parts round and round, the client reads and decodes a frame, and    *)
(* the task keeps the part and finishes the file (SavePartWorker).  The    *)
(* receiver may calibrate first, the camera may see the wrong colour of a  *)
(* cell, and the spaces between the tiles of an image are uninitialized    *)
(* memory.  Threads, queues and crashes are the subject of DecodePipeline  *)
(* and DecodeTask; here it is the data that counts.                        *)
(***************************************************************************)
EXTENDS PartImages

CONSTANTS
    Setups,      \* [file, b: bits a symbol, dim, space]
    MisreadAt,   \* the cells, by their symbols, the camera may get wrong,
    MaxMisread,  \* ... so often
    Memory,      \* the colours uninitialized memory may show
    PublishPeriod  \* frames between two answers of the status server (256)

MaxInt == 2147483647

(* A setup the sender can be in: a part has room for the length of the     *)
(* file (prepare_part_images), tiles are set apart (space_size is 1 unless *)
(* it is set, and the display's least), and files and images are short     *)
(* enough for the ints they are counted with.                              *)
ASSUME ImageTransferAssumption ==
    /\ \A s \in Setups :
           /\ s.file \in Seq(Byte) /\ s.b \in 1 .. 3 /\ s.dim \in [1 .. 4 -> 1 .. MaxInt]
           /\ s.space \in Nat /\ (HasSpaces(s.dim) => s.space > 0)
           /\ get_part_byte_num(s.b, s.dim) >= 8
           /\ Filled(Len(s.file), get_part_byte_num(s.b, s.dim)) + get_part_byte_num(s.b, s.dim) <= MaxInt
           /\ 2 * (Extent(s.dim[1], s.dim[3], s.space) * Extent(s.dim[2], s.dim[4], s.space) + 8) <= MaxInt
    /\ Memory # {} /\ Memory \subseteq Colors
    /\ MisreadAt \subseteq Nat /\ MaxMisread \in Nat /\ PublishPeriod \in Nat \ {0}

VARIABLES
    setup,
    calibration,          \* the centres of the cells, or None
    cur_part_id,          \* of the server's generator
    spaces,               \* the colour of the spaces in the last image
    socket,               \* the message between server and client
    frame,                \* the DecodeResult to be saved
    misread,              \* how often the camera was wrong
    frame_num,            \* modulo PublishPeriod
    m_task_status_bytes, m_done_part_num,
    blob,                 \* the bytes saved, in the blob or its buffer
    task_bytes,           \* the status server's answer
    output                \* the finished file

task == <<m_task_status_bytes, m_done_part_num, blob, output>>
status == <<frame_num, task_bytes>>
vars == <<setup, calibration, cur_part_id, spaces, socket, frame, misread, task, status>>

b == setup.b
dim == setup.dim
PartByteNum == get_part_byte_num(b, dim)
RawBytes == get_task_bytes(setup.file, PartByteNum)
PartNum == Len(RawBytes) \div PartByteNum
Finished == m_done_part_num = PartNum

(* The part number is entered on the receiver's side, and is right.        *)
Init ==
    /\ setup \in Setups
    /\ calibration = None /\ cur_part_id = 0 /\ spaces = WHITE
    /\ socket = None /\ frame = None /\ misread = 0
    /\ m_task_status_bytes = Resized(<<>>, CeilDiv(PartNum, 8))
    /\ m_done_part_num = 0
    /\ blob = Resized(<<>>, PartNum * PartByteNum)
    /\ frame_num = 0 /\ task_bytes = None /\ output = None

(* The receiver calibrates on the sender's position page.                  *)
CalibrateFirst ==
    /\ cur_part_id = 0 /\ socket = None /\ frame = None /\ calibration = None
    /\ calibration' = Calibrate(PositionPage(dim, setup.space), dim)
    /\ UNCHANGED <<setup, cur_part_id, spaces, socket, frame, misread, task, status>>

(* The server draws the next part, and begins again after the last.        *)
SendImage ==
    /\ socket = None /\ frame = None /\ ~Finished
    /\ LET id == IF cur_part_id = PartNum THEN 0 ELSE cur_part_id
       IN  /\ spaces' \in IF HasSpaces(dim) THEN Memory ELSE {WHITE}
           /\ socket' = img_to_msg_bytes(generate_part_image(
                            dim, setup.space, spaces', b, id, PartOf(RawBytes, PartByteNum, id)))
           /\ cur_part_id' = id + 1
    /\ UNCHANGED <<setup, calibration, frame, misread, task, status>>

(* The client fetches the image and decodes it.                            *)
Decoded(img) == DecodeImage(img, b, dim, calibration)
ReceiveImage ==
    /\ socket # None
    /\ frame' = Decoded(FromPng(FetchData(socket)))
    /\ socket' = None
    /\ UNCHANGED <<setup, calibration, cur_part_id, spaces, misread, task, status>>

(* ... after the camera saw one cell in another colour.                    *)
CellOf(d, space, k) ==
    LET p == Place(d, k)
    IN  <<p.tx * Pitch(d[3], space) + p.x + 2, p.ty * Pitch(d[4], space) + p.y + 2>>
MisreadImage ==
    /\ socket # None /\ misread < MaxMisread
    /\ LET img == FromPng(FetchData(socket))
       IN  \E k \in MisreadAt, color \in Colors :
              LET cell == CellOf(dim, setup.space, k)
              IN  /\ k < FrameSize(dim) /\ color # img.at[cell]
                  /\ frame' = Decoded([img EXCEPT !.at[cell] = color])
    /\ socket' = None /\ misread' = misread + 1
    /\ UNCHANGED <<setup, calibration, cur_part_id, spaces, task, status>>

(* The task takes a part that is read and not done, and with the last one  *)
(* cuts the file to the length that part tells.                            *)
Finalized(bytes) ==
    SubSeq(bytes, 1, Number(SubSeq(bytes, (PartNum - 1) * PartByteNum + 1,
                                          (PartNum - 1) * PartByteNum + 4)))
Keep(id, part_bytes) ==
    /\ m_task_status_bytes' = Mark(m_task_status_bytes, id)
    /\ m_done_part_num' = m_done_part_num + 1
    /\ blob' = [i \in DOMAIN blob |->
                   LET k == i - id * PartByteNum
                   IN  IF k \in DOMAIN part_bytes THEN part_bytes[k] ELSE blob[i]]
    /\ output' = IF m_done_part_num' = PartNum THEN Finalized(blob') ELSE None
MutUpdatePartAgain(id, part_bytes) == Keep(id, part_bytes)
UpdatePart(id, part_bytes) ==
    IF is_part_done(m_task_status_bytes, id) THEN UNCHANGED task ELSE Keep(id, part_bytes)
SavePart ==
    /\ frame # None
    /\ IF frame[1] THEN UpdatePart(Whole(frame[2]), frame[3]) ELSE UNCHANGED task
    /\ frame_num' = (frame_num + 1) % PublishPeriod
    /\ task_bytes' = IF frame_num' # 0 THEN task_bytes
                     ELSE ToTaskBytes(b, dim, PartNum, m_done_part_num', m_task_status_bytes')
    /\ frame' = None
    /\ UNCHANGED <<setup, calibration, cur_part_id, spaces, socket, misread>>

Next == CalibrateFirst \/ SendImage \/ ReceiveImage \/ MisreadImage \/ SavePart
Spec == Init /\ [][Next]_vars

-----------------------------------------------------------------------------
(* A frame that passes its CRC is a part that was sent, with its number,   *)
(* even of a camera that sees wrong (SymbolCodec::Decode).                 *)
CrcTells ==
    (frame # None /\ frame[1]) =>
        \E id \in 0 .. PartNum - 1 : frame = <<TRUE, Halves(id), PartOf(RawBytes, PartByteNum, id)>>

(* What is kept is what was sent: every part marked done is in the blob as *)
(* it is in the file, however the camera was wrong (the CRC of             *)
(* SymbolCodec::Decode), the parts marked are those counted, and the file  *)
(* that is finished is the file, its length and the part filling included. *)
KeptIsSent ==
    LET done == {id \in 0 .. PartNum - 1 : is_part_done(m_task_status_bytes, id)}
    IN  /\ Cardinality(done) = m_done_part_num
        /\ \A id \in done : PartOf(blob, PartByteNum, id) = PartOf(RawBytes, PartByteNum, id)
        /\ Finished => output = setup.file

(* A frame that is seen right is read, with and without a calibration and  *)
(* for every codec and frame: the symbols are drawn and read in one order, *)
(* and none is lost when bytes and symbols do not divide each other.  The  *)
(* exception is what nobody draws: without a calibration a frame of        *)
(* several tiles is read only if the memory between them looked white, and *)
(* is a failed frame otherwise.                                            *)
SeenIsRead ==
    (frame # None /\ misread = 0) =>
        frame = IF calibration = None /\ spaces \in Dark THEN Failed
                ELSE <<TRUE, Halves(cur_part_id - 1), PartOf(RawBytes, PartByteNum, cur_part_id - 1)>>

(* What the sender reads in a status (from_task_bytes, is_part_done) is    *)
(* the receiver's configuration, and it skips no part the receiver misses. *)
StatusTold ==
    task_bytes # None =>
        LET told == from_task_bytes(task_bytes)
        IN  /\ told # None
            /\ told.b = b /\ told.dim = dim /\ told.part_num = PartNum
            /\ told.done_part_num = Cardinality({id \in 0 .. PartNum - 1 : is_part_done(told.status, id)})
            /\ \A id \in 0 .. PartNum - 1 :
                  is_part_done(told.status, id) => is_part_done(m_task_status_bytes, id)
=============================================================================
