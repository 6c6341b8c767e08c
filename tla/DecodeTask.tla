----------------------------- MODULE DecodeTask -----------------------------
(***************************************************************************)
(* The task of a receiver, in memory and on disk: class Task of            *)
(* image_decode_task.cpp as SavePartWorker of image_decode_worker.cpp      *)
(* drives it, with kills and restarts of the process at any point.         *)
(*                                                                         *)
(* On disk there are <path>.blob, where parts are written at their place,  *)
(* <path>.task, which says which parts are done, and <path>, the result.   *)
(* A part is its number: its content is checked by the CRC of the symbol   *)
(* codec, so a part that arrives is right.  The last part holds the size   *)
(* of the file, the others its data and padding.                           *)
(*                                                                         *)
(* A kill ends the process, not the machine: what was handed to the        *)
(* operating system stays, what sits in a stream's buffer is lost.         *)
(***************************************************************************)
EXTENDS Integers, FiniteSets

CONSTANTS
    Configs,       \* what a user may enter: symbol type, dim and part number
    SenderConfig,  \* the configuration of the sender
    Decoding,      \* those with its symbol type and dim, which decode its frames
    NoConfig,      \* what Load reads from an empty task file
    PartNumOf,     \* PartNumOf[c] : the part number in configuration c
    StatusByte,    \* bits in a byte of m_task_status_bytes (8)
    FlushEvery,    \* UpdatePart flushes every FlushEvery parts (0x1fff + 1)
    KillPoints,    \* the values of pc at which the process may be killed
    MaxMishaps,    \* bound on the number of kills and of failed writes
    MaxDone,       \* bound on the count that parts beyond the bitmap drive up
    DiskFaults     \* subset of {"allocate", "write"} : what may fail

PartNum == PartNumOf[SenderConfig]
Parts == 0 .. PartNum - 1
SizePart == PartNum - 1
DataParts == Parts \ {SizePart}

(* The bits of m_task_status_bytes in configuration c, in full bytes.      *)
BitNum(c) == ((PartNumOf[c] + StatusByte - 1) \div StatusByte) * StatusByte

Steps == {"down", "allocate", "open", "write_blob", "write_task", "close_blob",
          "resize", "rename", "remove_task", "completed"}

ASSUME TaskAssumption ==
    /\ SenderConfig \in Decoding /\ Decoding \subseteq Configs
    /\ NoConfig \notin Configs
    /\ \A c \in Configs : PartNumOf[c] \in Nat \ {0}
    /\ FlushEvery \in Nat \ {0} /\ StatusByte \in Nat \ {0}
    /\ KillPoints \subseteq Steps \ {"down"}
    /\ MaxMishaps \in Nat /\ MaxDone \in Nat
    /\ DiskFaults \subseteq {"allocate", "write"}

VARIABLES
    pc,               \* where SavePartWorker is, "down" if there is none
    m_config,         \* m_symbol_type, m_dim, m_part_num
    m_task_status,    \* the parts whose bit is set in m_task_status_bytes
    m_done_part_num,
    m_blob_buf,       \* the parts in m_blob_buf
    stream_buf,       \* the part still in the buffer of Flush's blob_file
    flush_for,        \* the caller of Flush: "update", "finalize" or "stop"
    task_file,        \* <path>.task
    blob_file,        \* <path>.blob
    output,           \* <path>
    mishaps,          \* number of kills and failed writes so far
    faults            \* history: what the kills and disk faults cost

memory == <<m_config, m_task_status, m_done_part_num, m_blob_buf, stream_buf,
            flush_for>>
disk == <<task_file, blob_file, output>>
history == <<mishaps, faults>>
vars == <<pc, memory, disk, history>>

(* state "empty" is a file that ofstream has truncated and not yet written *)
TaskFile == [state : {"absent", "empty", "saved"},
             config : Configs \cup {NoConfig},
             parts : SUBSET Parts,
             done : Nat]

(* parts are the parts the file holds; size tells the allocated file from  *)
(* one that Finalize has resized to the size of the target, to 0, or to    *)
(* what it read elsewhere.  The allocated size itself tells nothing: a     *)
(* write past the end extends it.                                          *)
BlobFile == [state : {"absent", "present"},
             size : {"allocated", "target", "zero", "wrong"},
             parts : SUBSET Parts]

TypeOK ==
    /\ pc \in Steps
    /\ m_config \in IF pc = "down" THEN {NoConfig} ELSE Configs
    /\ m_task_status \subseteq Parts
    /\ m_done_part_num \in Nat
    /\ m_blob_buf \subseteq Parts
    /\ stream_buf \subseteq Parts
    /\ flush_for \in {"update", "finalize", "stop"}
    /\ task_file \in TaskFile
    /\ blob_file \in BlobFile
    /\ output \in {"absent", "target", "damaged"}
    /\ mishaps \in Nat
    /\ faults \subseteq {"content", "progress", "count"}

NoTaskFile == [state |-> "absent", config |-> NoConfig, parts |-> {}, done |-> 0]
NoBlobFile == [state |-> "absent", size |-> "allocated", parts |-> {}]
NewBlobFile == [state |-> "present", size |-> "allocated", parts |-> {}]

Init ==
    /\ pc = "down"
    /\ m_config = NoConfig
    /\ m_task_status = {}
    /\ m_done_part_num = 0
    /\ m_blob_buf = {}
    /\ stream_buf = {}
    /\ flush_for = "update"
    /\ task_file = NoTaskFile
    /\ blob_file = NoBlobFile
    /\ output = "absent"
    /\ mishaps = 0
    /\ faults = {}

MutIsDoneEarly(done) == done + 1 = PartNumOf[m_config]

IsDone(done) == done = PartNumOf[m_config]

Mishap == mishaps < MaxMishaps /\ mishaps' = mishaps + 1

(* The Task object is gone.                                                *)
GoDown ==
    /\ pc' = "down"
    /\ m_config' = NoConfig
    /\ m_task_status' = {}
    /\ m_done_part_num' = 0
    /\ m_blob_buf' = {}
    /\ stream_buf' = {}
    /\ flush_for' = "update"

-----------------------------------------------------------------------------
(* SavePartWorker opens the task: it loads the task file if there is one,  *)
(* and otherwise starts a new one on the blob that is there, or on a new   *)
(* one.                                                                    *)

LoadTask(c) ==
    /\ pc = "down"
    /\ task_file.state = "saved"
    /\ task_file.config = c
    /\ pc' = "open"
    /\ m_config' = c
    /\ m_task_status' = task_file.parts
    /\ m_done_part_num' = task_file.done
    /\ UNCHANGED <<m_blob_buf, stream_buf, flush_for, disk, history>>

(* "inconsistent task config": the worker reports it and ends.  Load reads *)
(* an empty file as part number 0, which no user enters.                   *)
RefuseTask(c) ==
    /\ pc = "down"
    /\ task_file.state # "absent"
    /\ task_file.state = "saved" => task_file.config # c
    /\ UNCHANGED vars

MutNewTaskOverOld(c) ==
    /\ pc = "down"
    /\ pc' = "open"
    /\ m_config' = c
    /\ blob_file' = IF blob_file.state = "present" THEN blob_file ELSE NewBlobFile
    /\ UNCHANGED <<m_task_status, m_done_part_num, m_blob_buf, stream_buf, flush_for,
                   task_file, output, history>>

NewTask(c) ==
    /\ pc = "down"
    /\ task_file.state = "absent"
    /\ m_config' = c
    /\ m_task_status' = {}
    /\ m_done_part_num' = 0
    /\ IF blob_file.state = "present"
       THEN pc' = "open" /\ UNCHANGED blob_file
       ELSE pc' = "allocate" /\ blob_file' = NewBlobFile
    /\ UNCHANGED <<m_blob_buf, stream_buf, flush_for, task_file, output, history>>

(* AllocateBlob, second half: if resize_file fails the worker reports it   *)
(* and ends, and the empty blob it leaves satisfies the next attempt.      *)
AllocateBlob ==
    /\ pc = "allocate"
    /\ \/ /\ pc' = "open"
          /\ UNCHANGED memory
       \/ /\ "allocate" \in DiskFaults
          /\ GoDown
    /\ UNCHANGED <<disk, history>>

-----------------------------------------------------------------------------
(* The loop of SavePartWorker.                                             *)

StartFlush(caller) ==
    /\ pc' = "write_blob"
    /\ flush_for' = caller

(* What the loop does after UpdatePart, and after a failed result.         *)
EndOfTurn(done) ==
    IF IsDone(done)
    THEN StartFlush("finalize")
    ELSE pc' = "open" /\ UNCHANGED flush_for

(* A success result: UpdatePart.  The part number is entered by hand: with *)
(* one that is not the sender's the parts decode all the same.             *)
MutUpdatePartTwice(p) ==
    /\ pc = "open"
    /\ m_config \in Decoding /\ p < BitNum(m_config)
    /\ m_done_part_num < MaxDone
    /\ m_task_status' = m_task_status \cup {p}
    /\ m_done_part_num' = m_done_part_num + 1
    /\ m_blob_buf' = m_blob_buf \cup {p}
    /\ EndOfTurn(m_done_part_num')
    /\ UNCHANGED <<m_config, stream_buf, disk, history>>

(* What UpdatePart does with a part it takes for new.                      *)
CountPart(p) ==
    /\ m_done_part_num' = m_done_part_num + 1
    /\ m_blob_buf' = m_blob_buf \cup {p}
    /\ IF m_done_part_num' % FlushEvery = 0
       THEN StartFlush("update")
       ELSE EndOfTurn(m_done_part_num')

UpdatePart(p) ==
    /\ pc = "open"
    /\ m_config \in Decoding /\ p < BitNum(m_config)
    /\ p \notin m_task_status
    /\ m_task_status' = m_task_status \cup {p}
    /\ CountPart(p)
    /\ UNCHANGED <<m_config, stream_buf, disk, history>>

(* A part beyond the bitmap: its bit is read and set outside the vector,   *)
(* which is undefined.  The part is taken for done (RepeatedPart) or, each *)
(* time, for new, or the process ends there.                               *)
UpdatePartBeyond(p) ==
    /\ pc = "open"
    /\ m_config \in Decoding /\ p >= BitNum(m_config)
    /\ \/ /\ m_done_part_num < MaxDone
          /\ CountPart(p)
          /\ faults' = faults \cup {"count"}
          /\ UNCHANGED <<m_config, m_task_status, stream_buf>>
       \/ GoDown /\ UNCHANGED faults
    /\ UNCHANGED <<disk, mishaps>>

(* A part that is done already, or a frame that did not decode: only a     *)
(* task that was loaded complete notices it.                               *)
RepeatedPart ==
    /\ pc = "open"
    /\ EndOfTurn(m_done_part_num)
    /\ UNCHANGED <<m_config, m_task_status, m_done_part_num, m_blob_buf, stream_buf,
                   disk, history>>

(* The null from App::Stop.                                                *)
MutStopUnsaved ==
    /\ pc = "open"
    /\ GoDown
    /\ UNCHANGED <<disk, history>>

Stop ==
    /\ pc = "open"
    /\ \/ /\ IsDone(m_done_part_num)
          /\ GoDown
       \/ /\ ~IsDone(m_done_part_num)
          /\ StartFlush("stop")
          /\ UNCHANGED <<m_config, m_task_status, m_done_part_num, m_blob_buf,
                         stream_buf>>
    /\ UNCHANGED <<disk, history>>

-----------------------------------------------------------------------------
(* Flush.  seekp hands the previous write to the operating system; write   *)
(* keeps a short part in the buffer and hands a long one over at once.     *)

WithParts(blob, S) == [blob EXCEPT !.parts = @ \cup S]

WriteBlob(p) ==
    /\ pc = "write_blob"
    /\ p \in m_blob_buf
    /\ blob_file.state = "present"
    /\ m_blob_buf' = m_blob_buf \ {p}
    /\ \/ /\ blob_file' = WithParts(blob_file, stream_buf \cup {p})
          /\ stream_buf' = {}
       \/ /\ blob_file' = WithParts(blob_file, stream_buf)
          /\ stream_buf' = {p}
    /\ UNCHANGED <<pc, m_config, m_task_status, m_done_part_num, flush_for,
                   task_file, output, history>>

(* fstream does not create a blob that is gone.                            *)
WriteNoBlob ==
    /\ pc = "write_blob"
    /\ blob_file.state = "absent"
    /\ m_blob_buf # {}
    /\ m_blob_buf' = {}
    /\ UNCHANGED <<pc, m_config, m_task_status, m_done_part_num, stream_buf, flush_for,
                   disk, history>>

(* A write that fails, or the last one that fails when blob_file is        *)
(* destroyed, leaves the stream in a failed state that Flush does not look *)
(* at: this part and the ones after it go nowhere.                         *)
WriteBlobFails ==
    /\ pc \in {"write_blob", "close_blob"}
    /\ m_blob_buf \cup stream_buf # {}
    /\ "write" \in DiskFaults /\ Mishap
    /\ m_blob_buf' = {}
    /\ stream_buf' = {}
    /\ faults' = faults \cup {"content"}
    /\ UNCHANGED <<pc, m_config, m_task_status, m_done_part_num, flush_for, disk>>

(* ofstream f(m_task_path) truncates the file ...                          *)
MutOpenTaskFirst ==
    /\ pc = "write_blob"
    /\ pc' = "write_task"
    /\ task_file' = [NoTaskFile EXCEPT !.state = "empty"]
    /\ UNCHANGED <<memory, blob_file, output, history>>

OpenTaskFile ==
    /\ pc = "write_blob"
    /\ m_blob_buf = {}
    /\ pc' = "write_task"
    /\ task_file' = [NoTaskFile EXCEPT !.state = "empty"]
    /\ UNCHANGED <<memory, blob_file, output, history>>

(* Flush does not look at the state of f either: the file stays as it is   *)
(* when it cannot be opened ...                                            *)
OpenTaskFileFails ==
    /\ pc = "write_blob"
    /\ m_blob_buf = {}
    /\ "write" \in DiskFaults /\ Mishap
    /\ pc' = "close_blob"
    /\ faults' = faults \cup {"progress"}
    /\ UNCHANGED <<memory, disk>>

(* ... and its destructor, which runs before that of blob_file, writes it. *)
CloseTaskFile ==
    /\ pc = "write_task"
    /\ pc' = "close_blob"
    /\ task_file' = [state |-> "saved", config |-> m_config,
                     parts |-> m_task_status, done |-> m_done_part_num]
    /\ UNCHANGED <<memory, blob_file, output, history>>

(* ... and ends early when it cannot be written: in the configuration,     *)
(* before the count, or within the bits, after k bytes of them.            *)
CutBits(k) == {p \in m_task_status : p < k * StatusByte}

CloseTaskFileShort ==
    /\ pc = "write_task"
    /\ "write" \in DiskFaults /\ Mishap
    /\ pc' = "close_blob"
    /\ \/ /\ faults' = faults \cup {"progress"}
          /\ \/ UNCHANGED task_file
             \/ task_file' = [state |-> "saved", config |-> m_config, parts |-> {}, done |-> 0]
       \/ /\ faults' = faults \cup {"count"}
          /\ \E k \in 0 .. PartNum :
                /\ CutBits(k) # m_task_status
                /\ task_file' = [state |-> "saved", config |-> m_config,
                                 parts |-> CutBits(k), done |-> m_done_part_num]
    /\ UNCHANGED <<memory, blob_file, output>>

CloseBlobFile ==
    /\ pc = "close_blob"
    /\ blob_file' = WithParts(blob_file, stream_buf)
    /\ \/ /\ flush_for = "update"
          /\ EndOfTurn(m_done_part_num)
          /\ stream_buf' = {}
          /\ UNCHANGED <<m_config, m_task_status, m_done_part_num, m_blob_buf>>
       \/ /\ flush_for = "finalize"
          /\ pc' = "resize"
          /\ stream_buf' = {}
          /\ UNCHANGED <<m_config, m_task_status, m_done_part_num, m_blob_buf,
                         flush_for>>
       \/ /\ flush_for = "stop"
          /\ GoDown
    /\ UNCHANGED <<task_file, output, history>>

-----------------------------------------------------------------------------
(* Finalize, after its Flush.                                              *)

(* The size is read from the last part: a blob that does not hold it reads *)
(* as 0, which is right for an empty file only.                            *)
SizeIsRight == SizePart \in blob_file.parts \/ DataParts = {}

(* With another part number what is read as the size is data of the file,  *)
(* if the blob has it, and resize_file cuts or extends the blob to that.   *)
ReadsData == PartNumOf[m_config] - 1 \in blob_file.parts

ResizeBlob ==
    /\ pc = "resize"
    /\ blob_file.state = "present"
    /\ pc' = "rename"
    /\ IF m_config = SenderConfig
       THEN /\ blob_file' = IF SizeIsRight
                            THEN [blob_file EXCEPT !.size = "target",
                                                   !.parts = @ \ {SizePart}]
                            ELSE [blob_file EXCEPT !.size = "zero", !.parts = {}]
            /\ UNCHANGED faults
       ELSE /\ IF ReadsData
               THEN \E kept \in SUBSET blob_file.parts :
                        blob_file' = [blob_file EXCEPT !.size = "wrong", !.parts = kept]
               ELSE blob_file' = [blob_file EXCEPT !.size = "zero", !.parts = {}]
            /\ faults' = faults \cup {"count"}
    /\ UNCHANGED <<memory, task_file, output, mishaps>>

(* resize_file throws when there is no blob, or no room for the size that  *)
(* was read, and nobody catches it in the thread: the process terminates.  *)
ResizeBlobThrows ==
    /\ pc = "resize"
    /\ blob_file.state = "absent" \/ (m_config # SenderConfig /\ ReadsData)
    /\ GoDown
    /\ UNCHANGED <<disk, history>>

Rename ==
    /\ pc = "rename"
    /\ pc' = "remove_task"
    /\ output' = IF blob_file.size = "target" /\ DataParts \subseteq blob_file.parts
                 THEN "target" ELSE "damaged"
    /\ blob_file' = NoBlobFile
    /\ UNCHANGED <<memory, task_file, history>>

RemoveTask ==
    /\ pc = "remove_task"
    /\ pc' = "completed"
    /\ task_file' = NoTaskFile
    /\ UNCHANGED <<memory, blob_file, output, history>>

(* The worker drains part_q until the null and ends.                       *)
Finish ==
    /\ pc = "completed"
    /\ GoDown
    /\ UNCHANGED <<disk, history>>

-----------------------------------------------------------------------------
(* The process is killed.  faults records what that costs: a part that the *)
(* task file says is done and the blob never got, a blob that lost its     *)
(* size part while the task file is still there, a task file that says     *)
(* nothing any more.                                                       *)

KillCosts ==
    (IF \/ pc = "close_blob" /\ ~(stream_buf \cap task_file.parts \subseteq blob_file.parts)
        \/ pc = "rename"
     THEN {"content"} ELSE {})
    \cup (IF pc = "write_task" THEN {"progress"} ELSE {})

Kill ==
    /\ pc \in KillPoints
    /\ Mishap
    /\ faults' = faults \cup KillCosts
    /\ GoDown
    /\ UNCHANGED disk

-----------------------------------------------------------------------------

WorkerStep ==
    \/ AllocateBlob
    \/ \E p \in Parts : WriteBlob(p)
    \/ WriteNoBlob
    \/ OpenTaskFile
    \/ CloseTaskFile
    \/ CloseBlobFile
    \/ ResizeBlob
    \/ ResizeBlobThrows
    \/ Rename
    \/ RemoveTask
    \/ Finish

Next ==
    \/ \E c \in Configs : LoadTask(c) \/ RefuseTask(c) \/ NewTask(c)
    \/ \E p \in Parts : UpdatePart(p) \/ UpdatePartBeyond(p)
    \/ RepeatedPart
    \/ Stop
    \/ WorkerStep
    \/ WriteBlobFails \/ OpenTaskFileFails \/ CloseTaskFileShort
    \/ Kill

Spec == Init /\ [][Next]_vars

(* The sender shows its parts in a cycle, so a receiver that is open again *)
(* and again gets every part in the end.  The user starts the receiver     *)
(* again after a kill or a stop, and stops one that decodes nothing.       *)
Fairness ==
    /\ WF_vars(LoadTask(SenderConfig) \/ NewTask(SenderConfig))
    /\ \A p \in Parts : SF_vars(UpdatePart(p))
    /\ SF_vars(RepeatedPart /\ IsDone(m_done_part_num))
    /\ WF_vars(m_config # SenderConfig /\ Stop)
    /\ WF_vars(WorkerStep)

FairSpec == Spec /\ Fairness

-----------------------------------------------------------------------------
(* Properties.                                                             *)

(* m_done_part_num, which decides when the transfer is complete, is the    *)
(* number of bits set, in memory and in the task file, through duplicates, *)
(* kills and reloads: unless a count fault happened, a task file cut short *)
(* within its bits or a part number that is not the sender's.              *)
CountIsBits ==
    "count" \notin faults =>
        /\ m_done_part_num = Cardinality(m_task_status)
        /\ task_file.done = Cardinality(task_file.parts)

(* Every part that counts as received is in the blob, in m_blob_buf or in  *)
(* the buffer of the stream, every part the task file names is in the blob *)
(* itself, but for the last one until Flush returns, and a blob about to   *)
(* be renamed is the target: unless a content or count fault happened, or  *)
(* the file has been put in place and the blob is gone.                    *)
Sound == faults \cap {"content", "count"} = {}
Moved == blob_file.state = "absent" /\ output = "target"
OnDisk == blob_file.parts \cup (IF pc = "close_blob" THEN stream_buf ELSE {})

NothingMissing ==
    Sound =>
        IF pc = "rename"
        THEN blob_file.size = "target" /\ DataParts \subseteq blob_file.parts
        ELSE \/ /\ m_task_status \subseteq blob_file.parts \cup stream_buf \cup m_blob_buf
                /\ task_file.parts \subseteq OnDisk
             \/ Moved

(* A file at the output path is exactly the file that was sent, unless     *)
(* there was a content fault: a write that failed, a kill between the task *)
(* file and the last part in Flush, or one between resize_file and rename  *)
(* in Finalize; or a count fault: a task file cut short within its bits,   *)
(* or a part number that is smaller than the sender's.                     *)
ExactOrFault == output = "damaged" => ~Sound

(* The same without an excuse, as test_image_codec.py states it of the     *)
(* whole chain: the file received is the file sent.                        *)
OutputIsTarget == output # "damaged"

(* The inductive invariant that carries the proofs of the above: besides   *)
(* them, what pc says about the buffers, the bits and the task file.       *)
Finalizing ==
    \/ pc \in {"resize", "rename", "remove_task", "completed"}
    \/ pc \in {"write_blob", "write_task", "close_blob"} /\ flush_for = "finalize"

Control ==
    /\ pc \in {"down", "allocate"} => m_task_status = {} /\ m_done_part_num = 0
    /\ pc \notin {"open", "write_blob"} => m_blob_buf = {}
    /\ pc \notin {"write_blob", "write_task", "close_blob"} => stream_buf = {}
    /\ Finalizing => m_task_status = Parts \/ m_config # SenderConfig \/ "count" \in faults
    /\ pc \in {"rename", "remove_task", "completed"} =>
          m_config = SenderConfig \/ "count" \in faults
    /\ pc = "remove_task" => output # "absent"
    /\ pc = "write_task" => task_file.state = "empty"
    /\ task_file.state # "saved" => task_file.parts = {}
    /\ blob_file.state = "absent" /\ Sound =>
          output = "target" \/ (pc = "down" /\ task_file.state = "absent")

IInv == TypeOK /\ CountIsBits /\ Control /\ NothingMissing /\ ExactOrFault

(* The receiver implements FileReceiver.  What is saved is what the task   *)
(* file says, and from the moment it is truncated what it is to say.       *)
Abstract == INSTANCE FileReceiver WITH
    received <- IF pc = "down" THEN task_file.parts ELSE m_task_status,
    saved <- IF pc = "write_task" THEN m_task_status ELSE task_file.parts,
    faults <- faults,
    output <- output

AbstractSpec == Abstract!Spec

(* The transfer ends with a file at the output path, however often the     *)
(* receiver is stopped and restarted, unless the task file was cut short,  *)
(* could not be opened or was written by a run with another configuration. *)
Foreign == task_file.state = "saved" /\ task_file.config # SenderConfig
Delivered == <>(output # "absent" \/ faults \cap {"progress", "count"} # {} \/ Foreign)
=============================================================================
