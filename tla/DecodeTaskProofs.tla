-------------------------- MODULE DecodeTaskProofs --------------------------
(***************************************************************************)
(* Proofs about DecodeTask, for every file size, every set of              *)
(* configurations and part numbers a user may enter, every flush interval, *)
(* any number of kills at any point and every disk fault.                  *)
(***************************************************************************)
EXTENDS DecodeTask, FiniteSetTheorems, TLAPS

LEMMA PartsFacts ==
    /\ PartNum \in Nat \ {0}
    /\ SizePart \in Parts
    /\ DataParts \subseteq Parts
    /\ IsFiniteSet(Parts)
    /\ Cardinality(Parts) = PartNum
<1>1. PartNum \in Nat \ {0}
  BY TaskAssumption DEF PartNum
<1>2. SizePart \in Parts /\ DataParts \subseteq Parts
  BY <1>1 DEF SizePart, Parts, DataParts
<1>3. IsFiniteSet(Parts) /\ Cardinality(Parts) = PartNum
  BY <1>1, FS_Interval DEF Parts
<1>. QED
  BY <1>1, <1>2, <1>3

-----------------------------------------------------------------------------
(* Type correctness: every variable of the receiver and every file on disk *)
(* keeps the shape TypeOK gives it, and a receiver that runs has one of    *)
(* the configurations a user may enter, never the one of an empty file.    *)

LEMMA TypeInit == Init => TypeOK
BY DEF Init, TypeOK, Steps, TaskFile, BlobFile, NoTaskFile, NoBlobFile

LEMMA TypeStep == TypeOK /\ [Next]_vars => TypeOK'
<1> SUFFICES ASSUME TypeOK, [Next]_vars
             PROVE  TypeOK'
  OBVIOUS
<1> USE TaskAssumption DEF TypeOK, Steps, TaskFile, BlobFile, memory, disk, history
<1>1. ASSUME NEW c \in Configs, LoadTask(c) PROVE TypeOK'
  BY <1>1 DEF LoadTask
<1>2. ASSUME NEW c \in Configs, RefuseTask(c) PROVE TypeOK'
  BY <1>2 DEF RefuseTask, vars
<1>3. ASSUME NEW c \in Configs, NewTask(c) PROVE TypeOK'
  BY <1>3 DEF NewTask, NewBlobFile
<1>4. ASSUME NEW p \in Parts, UpdatePart(p) PROVE TypeOK'
  BY <1>4 DEF UpdatePart, CountPart, StartFlush, EndOfTurn
<1>5. CASE RepeatedPart
  BY <1>5 DEF RepeatedPart, StartFlush, EndOfTurn
<1>6. CASE Stop
  BY <1>6 DEF Stop, GoDown, StartFlush
<1>7. CASE AllocateBlob
  BY <1>7 DEF AllocateBlob, GoDown
<1>8. ASSUME NEW p \in Parts, WriteBlob(p) PROVE TypeOK'
  BY <1>8 DEF WriteBlob, WithParts
<1>9. CASE OpenTaskFile
  BY <1>9 DEF OpenTaskFile, NoTaskFile
<1>10. CASE CloseTaskFile
  BY <1>10 DEF CloseTaskFile
<1>11. CASE CloseBlobFile
  BY <1>11 DEF CloseBlobFile, WithParts, EndOfTurn, StartFlush, GoDown
<1>12. CASE ResizeBlob
  <2>1. PICK size \in {"target", "zero", "wrong"}, kept \in SUBSET blob_file.parts :
          blob_file' = [blob_file EXCEPT !.size = size, !.parts = kept]
    <3>1. CASE m_config = SenderConfig
      BY <1>12, <3>1 DEF ResizeBlob
    <3>2. CASE m_config # SenderConfig /\ ReadsData
      BY <1>12, <3>2 DEF ResizeBlob
    <3>3. CASE m_config # SenderConfig /\ ~ReadsData
      BY <1>12, <3>3 DEF ResizeBlob
    <3>. QED
      BY <3>1, <3>2, <3>3
  <2>2. blob_file' \in BlobFile
    BY <2>1
  <2>3. pc = "resize" /\ pc' = "rename" /\ faults' \in {faults, faults \cup {"count"}}
        /\ UNCHANGED <<memory, task_file, output, mishaps>>
    BY <1>12 DEF ResizeBlob
  <2>. QED
    BY <2>2, <2>3
<1>13. CASE ResizeBlobThrows
  BY <1>13 DEF ResizeBlobThrows, GoDown
<1>14. CASE Rename
  BY <1>14 DEF Rename, NoBlobFile
<1>15. CASE RemoveTask
  BY <1>15 DEF RemoveTask, NoTaskFile
<1>16. CASE Finish
  BY <1>16 DEF Finish, GoDown
<1>17. CASE WriteBlobFails
  BY <1>17 DEF WriteBlobFails, Mishap
<1>18. CASE Kill
  BY <1>18 DEF Kill, Mishap, GoDown, KillCosts
<1>19. CASE UNCHANGED vars
  BY <1>19 DEF vars
<1>20. ASSUME NEW p \in Parts, UpdatePartBeyond(p) PROVE TypeOK'
  <2>1. CASE GoDown
    BY <1>20, <2>1 DEF UpdatePartBeyond, GoDown
  <2>2. CASE ~GoDown
    <3>1. /\ pc = "open" /\ pc' \in {"open", "write_blob"} /\ m_done_part_num' = m_done_part_num + 1
          /\ m_blob_buf' = m_blob_buf \cup {p} /\ faults' = faults \cup {"count"}
          /\ flush_for' \in {"update", "finalize", flush_for}
          /\ UNCHANGED <<m_config, m_task_status, stream_buf, disk, mishaps>>
      BY <1>20, <2>2 DEF UpdatePartBeyond, CountPart, StartFlush, EndOfTurn
    <3>. QED
      BY <3>1
  <2>. QED
    BY <2>1, <2>2
<1>21. CASE WriteNoBlob
  BY <1>21 DEF WriteNoBlob
<1>22. CASE OpenTaskFileFails
  BY <1>22 DEF OpenTaskFileFails, Mishap
<1>23. CASE CloseTaskFileShort
  <2>1. task_file' \in TaskFile
    <3>1. \A k \in 0 .. PartNum : CutBits(k) \in SUBSET Parts
      BY DEF CutBits
    <3>2. pc = "write_task" /\ m_config \in Configs
      BY <1>23 DEF CloseTaskFileShort
    <3>. QED
      BY <1>23, <3>1, <3>2 DEF CloseTaskFileShort
  <2>2. pc = "write_task" /\ pc' = "close_blob" /\ faults' \subseteq faults \cup {"progress", "count"}
        /\ mishaps' = mishaps + 1 /\ UNCHANGED <<memory, blob_file, output>>
    BY <1>23 DEF CloseTaskFileShort, Mishap
  <2>. QED
    BY <2>1, <2>2
<1>. QED
  BY <1>1, <1>2, <1>3, <1>4, <1>5, <1>6, <1>7, <1>8, <1>9, <1>10, <1>11, <1>12,
     <1>13, <1>14, <1>15, <1>16, <1>17, <1>18, <1>19, <1>20, <1>21, <1>22, <1>23
  DEF Next, WorkerStep

(* TypeOK holds in every reachable state.                                  *)
THEOREM TypeCorrect == Spec => []TypeOK
BY TypeInit, TypeStep, PTL DEF Spec

-----------------------------------------------------------------------------
(* The count.  m_done_part_num equals the number of bits; with it, IsDone  *)
(* means that every part of the file was received.                         *)

LEMMA SubsetsAreFinite == \A S \in SUBSET Parts : IsFiniteSet(S)
BY PartsFacts, FS_Subset

LEMMA DoneIsAll ==
  ASSUME NEW S \in SUBSET Parts, m_config = SenderConfig, IsDone(Cardinality(S))
  PROVE  S = Parts
BY PartsFacts, FS_Subset DEF IsDone, PartNum

(* Every step keeps the faults there were.                                 *)
LEMMA FaultsGrow == [Next]_vars => faults \subseteq faults'
BY DEF Next, WorkerStep, vars, history, LoadTask, RefuseTask, NewTask, UpdatePart, UpdatePartBeyond,
  RepeatedPart, Stop, AllocateBlob, WriteBlob, WriteNoBlob, OpenTaskFile, CloseTaskFile, CloseBlobFile,
  ResizeBlob, ResizeBlobThrows, Rename, RemoveTask, Finish, WriteBlobFails, OpenTaskFileFails,
  CloseTaskFileShort, Kill

LEMMA CountInit == Init => CountIsBits
BY FS_EmptySet DEF Init, CountIsBits, NoTaskFile

LEMMA CountStep == TypeOK /\ CountIsBits /\ [Next]_vars => CountIsBits'
<1> SUFFICES ASSUME TypeOK, CountIsBits, [Next]_vars
             PROVE  CountIsBits'
  OBVIOUS
<1> USE FS_EmptySet DEF CountIsBits, memory, disk, history
<1>0. faults \subseteq faults'
  BY FaultsGrow
<1>1. ASSUME NEW c \in Configs, LoadTask(c) PROVE CountIsBits'
  BY <1>1 DEF LoadTask
<1>2. ASSUME NEW c \in Configs, RefuseTask(c) PROVE CountIsBits'
  BY <1>2 DEF RefuseTask, vars
<1>3. ASSUME NEW c \in Configs, NewTask(c) PROVE CountIsBits'
  BY <1>3 DEF NewTask
<1>4. ASSUME NEW p \in Parts, UpdatePart(p) PROVE CountIsBits'
  <2>1. IsFiniteSet(m_task_status)
    BY SubsetsAreFinite DEF TypeOK
  <2>2. Cardinality(m_task_status \cup {p}) = Cardinality(m_task_status) + 1
    BY <1>4, <2>1, FS_AddElement DEF UpdatePart
  <2>. QED
    BY <1>4, <2>2 DEF UpdatePart, CountPart
<1>5. CASE RepeatedPart
  BY <1>5 DEF RepeatedPart
<1>6. CASE Stop
  BY <1>6 DEF Stop, GoDown, StartFlush
<1>7. CASE AllocateBlob
  BY <1>7 DEF AllocateBlob, GoDown
<1>8. ASSUME NEW p \in Parts, WriteBlob(p) PROVE CountIsBits'
  BY <1>8 DEF WriteBlob
<1>9. CASE OpenTaskFile
  <2>1. task_file'.parts = {} /\ task_file'.done = 0
    BY <1>9 DEF OpenTaskFile, NoTaskFile
  <2>. QED
    BY <1>9, <2>1 DEF OpenTaskFile
<1>10. CASE CloseTaskFile
  BY <1>10 DEF CloseTaskFile
<1>11. CASE CloseBlobFile
  BY <1>11 DEF CloseBlobFile, GoDown
<1>12. CASE ResizeBlob
  BY <1>0, <1>12 DEF ResizeBlob
<1>13. CASE ResizeBlobThrows
  BY <1>13 DEF ResizeBlobThrows, GoDown
<1>14. CASE Rename
  BY <1>14 DEF Rename
<1>15. CASE RemoveTask
  BY <1>15 DEF RemoveTask, NoTaskFile
<1>16. CASE Finish
  BY <1>16 DEF Finish, GoDown
<1>17. CASE WriteBlobFails
  BY <1>0, <1>17 DEF WriteBlobFails
<1>18. CASE Kill
  BY <1>0, <1>18 DEF Kill, GoDown
<1>19. CASE UNCHANGED vars
  BY <1>19 DEF vars
<1>20. ASSUME NEW p \in Parts, UpdatePartBeyond(p) PROVE CountIsBits'
  BY <1>20 DEF UpdatePartBeyond, GoDown
<1>21. CASE WriteNoBlob
  BY <1>21 DEF WriteNoBlob
<1>22. CASE OpenTaskFileFails
  BY <1>0, <1>22 DEF OpenTaskFileFails
<1>23. CASE CloseTaskFileShort
  BY <1>0, <1>23 DEF CloseTaskFileShort
<1>. QED
  BY <1>1, <1>2, <1>3, <1>4, <1>5, <1>6, <1>7, <1>8, <1>9, <1>10, <1>11, <1>12,
     <1>13, <1>14, <1>15, <1>16, <1>17, <1>18, <1>19, <1>20, <1>21, <1>22, <1>23
  DEF Next, WorkerStep

(* m_done_part_num counts the bits of m_task_status_bytes, and the task    *)
(* file agrees with itself in the same way, in every reachable state,      *)
(* unless a task file was cut short within its bits, or a part came that   *)
(* is beyond the bitmap of a wrong part number.                            *)
THEOREM CountCorrect == Spec => []CountIsBits
<1>1. TypeOK /\ CountIsBits /\ [Next]_vars => (TypeOK /\ CountIsBits)'
  BY TypeStep, CountStep
<1>. QED
  BY TypeInit, CountInit, <1>1, PTL DEF Spec

-----------------------------------------------------------------------------
(* What pc says about the rest of the state.                               *)

LEMMA ControlInit == Init => Control
BY DEF Init, Control, Finalizing, NoTaskFile

LEMMA ControlStep == IInv /\ [Next]_vars => Control'
<1> SUFFICES ASSUME IInv, [Next]_vars
             PROVE  Control'
  OBVIOUS
<1> USE DEF Control, Finalizing, Sound, memory, disk, history
<1>a. TypeOK /\ CountIsBits /\ Control
  BY DEF IInv
<1>0. faults \subseteq faults'
  BY FaultsGrow
<1>b. blob_file \in BlobFile /\ task_file \in TaskFile
  BY <1>a DEF TypeOK
<1>c. IsDone(m_done_part_num) => m_task_status = Parts \/ m_config # SenderConfig \/ "count" \in faults
  BY <1>a, DoneIsAll DEF TypeOK, CountIsBits
<1>1. ASSUME NEW c \in Configs, LoadTask(c) PROVE Control'
  BY <1>a, <1>1 DEF LoadTask
<1>2. ASSUME NEW c \in Configs, RefuseTask(c) PROVE Control'
  BY <1>a, <1>2 DEF RefuseTask, vars
<1>3. ASSUME NEW c \in Configs, NewTask(c) PROVE Control'
  BY <1>a, <1>3 DEF NewTask, NewBlobFile
<1>4. ASSUME NEW p \in Parts, UpdatePart(p) PROVE Control'
  <2>1. m_task_status' \in SUBSET Parts /\ ("count" \notin faults => m_done_part_num' = Cardinality(m_task_status'))
    BY <1>a, <1>4, CountStep, TypeStep DEF TypeOK, CountIsBits, UpdatePart
  <2>2. m_config' = m_config /\ pc = "open" /\ faults' = faults
    BY <1>4 DEF UpdatePart
  <2>3. IsDone(m_done_part_num') => m_task_status' = Parts \/ m_config # SenderConfig \/ "count" \in faults
    BY <2>1, DoneIsAll
  <2>. QED
    BY <1>a, <1>4, <2>2, <2>3 DEF UpdatePart, CountPart, EndOfTurn, StartFlush
<1>5. CASE RepeatedPart
  BY <1>a, <1>c, <1>5 DEF RepeatedPart, EndOfTurn, StartFlush
<1>6. CASE Stop
  BY <1>a, <1>6 DEF Stop, GoDown, StartFlush
<1>7. CASE AllocateBlob
  BY <1>a, <1>7 DEF AllocateBlob, GoDown
<1>8. ASSUME NEW p \in Parts, WriteBlob(p) PROVE Control'
  <2>1. blob_file'.state = blob_file.state
    BY <1>b, <1>8 DEF WriteBlob, WithParts, BlobFile
  <2>. QED
    BY <1>a, <1>8, <2>1 DEF WriteBlob
<1>9. CASE OpenTaskFile
  <2>1. task_file'.parts = {} /\ task_file'.state = "empty"
    BY <1>9 DEF OpenTaskFile, NoTaskFile
  <2>. QED
    BY <1>a, <1>9, <2>1 DEF OpenTaskFile
<1>10. CASE CloseTaskFile
  BY <1>a, <1>10 DEF CloseTaskFile
<1>11. CASE CloseBlobFile
  <2>1. blob_file'.state = blob_file.state
    BY <1>b, <1>11 DEF CloseBlobFile, WithParts, BlobFile
  <2>. QED
    BY <1>a, <1>c, <1>11, <2>1 DEF CloseBlobFile, EndOfTurn, StartFlush, GoDown
<1>12. CASE ResizeBlob
  <2>1. blob_file.state = "present" /\ blob_file'.state = blob_file.state
    <3>1. \A size : \A kept : [blob_file EXCEPT !.size = size, !.parts = kept].state = blob_file.state
      BY <1>b DEF BlobFile
    <3>. QED
      BY <1>12, <3>1 DEF ResizeBlob
  <2>2. /\ pc = "resize" /\ pc' = "rename" /\ UNCHANGED <<memory, task_file, output>>
        /\ m_config = SenderConfig \/ "count" \in faults'
    BY <1>12 DEF ResizeBlob
  <2>. QED
    BY <1>0, <1>a, <2>1, <2>2
<1>13. CASE ResizeBlobThrows
  BY <1>a, <1>13 DEF ResizeBlobThrows, GoDown
<1>14. CASE Rename
  <2>1. /\ pc = "rename" /\ pc' = "remove_task" /\ UNCHANGED <<memory, task_file, history>>
        /\ output' \in {"target", "damaged"} /\ (Sound => output' = "target")
    BY <1>a, <1>14 DEF Rename, IInv, NothingMissing
  <2>. QED
    BY <1>a, <2>1
<1>15. CASE RemoveTask
  BY <1>a, <1>15 DEF RemoveTask, NoTaskFile
<1>16. CASE Finish
  BY <1>a, <1>16 DEF Finish, GoDown
<1>17. CASE WriteBlobFails
  BY <1>0, <1>a, <1>17 DEF WriteBlobFails
<1>18. CASE Kill
  BY <1>a, <1>18 DEF Kill, GoDown
<1>19. CASE UNCHANGED vars
  BY <1>a, <1>19 DEF vars
<1>20. ASSUME NEW p \in Parts, UpdatePartBeyond(p) PROVE Control'
  <2>1. CASE GoDown
    BY <1>a, <1>20, <2>1 DEF UpdatePartBeyond, GoDown
  <2>2. CASE ~GoDown
    BY <1>a, <1>20, <2>2 DEF UpdatePartBeyond, CountPart, EndOfTurn, StartFlush
  <2>. QED
    BY <2>1, <2>2
<1>21. CASE WriteNoBlob
  BY <1>a, <1>21 DEF WriteNoBlob
<1>22. CASE OpenTaskFileFails
  BY <1>0, <1>a, <1>22 DEF OpenTaskFileFails
<1>23. CASE CloseTaskFileShort
  <2>1. task_file'.state = "saved" \/ task_file' = task_file
    BY <1>23 DEF CloseTaskFileShort
  <2>2. pc = "write_task" /\ pc' = "close_blob" /\ UNCHANGED <<memory, blob_file, output>>
    BY <1>23 DEF CloseTaskFileShort
  <2>. QED
    BY <1>0, <1>a, <2>1, <2>2
<1>. QED
  BY <1>1, <1>2, <1>3, <1>4, <1>5, <1>6, <1>7, <1>8, <1>9, <1>10, <1>11, <1>12,
     <1>13, <1>14, <1>15, <1>16, <1>17, <1>18, <1>19, <1>20, <1>21, <1>22, <1>23
  DEF Next, WorkerStep

-----------------------------------------------------------------------------
(* Where the parts are.  Content is the half of the invariant that speaks  *)
(* of the blob and of the result.                                          *)

Content == NothingMissing /\ ExactOrFault

LEMMA ContentInit == Init => Content
BY DEF Init, Content, NothingMissing, ExactOrFault, OnDisk, NoTaskFile, NoBlobFile

LEMMA ContentStep == IInv /\ [Next]_vars => Content'
<1> SUFFICES ASSUME IInv, [Next]_vars
             PROVE  Content'
  OBVIOUS
<1> USE DEF Content, NothingMissing, ExactOrFault, Sound, OnDisk, Moved, memory, disk, history
<1>0. faults \subseteq faults'
  BY FaultsGrow
<1>a. TypeOK /\ Control /\ Content
  BY DEF IInv
<1>b. task_file \in TaskFile /\ blob_file \in BlobFile
  BY <1>a DEF TypeOK
<1>1. ASSUME NEW c \in Configs, LoadTask(c) PROVE Content'
  BY <1>a, <1>1 DEF LoadTask, Control
<1>2. ASSUME NEW c \in Configs, RefuseTask(c) PROVE Content'
  BY <1>a, <1>2 DEF RefuseTask, vars
<1>3. ASSUME NEW c \in Configs, NewTask(c) PROVE Content'
  <2>1. task_file.parts = {} /\ task_file' = task_file /\ m_task_status' = {}
    BY <1>a, <1>3 DEF NewTask, Control
  <2>2. pc' \in {"open", "allocate"} /\ output' = output /\ faults' = faults
    BY <1>3 DEF NewTask
  <2>. QED
    BY <1>a, <2>1, <2>2
<1>4. ASSUME NEW p \in Parts, UpdatePart(p) PROVE Content'
  BY <1>a, <1>4 DEF UpdatePart, CountPart, EndOfTurn, StartFlush, Control
<1>5. CASE RepeatedPart
  BY <1>a, <1>5 DEF RepeatedPart, EndOfTurn, StartFlush
<1>6. CASE Stop
  BY <1>a, <1>6 DEF Stop, GoDown, StartFlush, Control
<1>7. CASE AllocateBlob
  BY <1>a, <1>7 DEF AllocateBlob, GoDown, Control
<1>8. ASSUME NEW p \in Parts, WriteBlob(p) PROVE Content'
  <2>1. /\ blob_file'.parts \cup stream_buf' = blob_file.parts \cup stream_buf \cup {p}
        /\ blob_file.parts \subseteq blob_file'.parts
        /\ blob_file'.state = blob_file.state
    BY <1>b, <1>8 DEF WriteBlob, WithParts, BlobFile
  <2>. QED
    BY <1>a, <1>8, <2>1 DEF WriteBlob
<1>9. CASE OpenTaskFile
  <2>1. task_file'.parts = {}
    BY <1>9 DEF OpenTaskFile, NoTaskFile
  <2>. QED
    BY <1>a, <1>9, <2>1 DEF OpenTaskFile
<1>10. CASE CloseTaskFile
  BY <1>a, <1>10 DEF CloseTaskFile, Control
<1>11. CASE CloseBlobFile
  <2>1. /\ blob_file'.parts = blob_file.parts \cup stream_buf
        /\ blob_file'.state = blob_file.state
    BY <1>b, <1>11 DEF CloseBlobFile, WithParts, BlobFile
  <2>2. m_blob_buf = {} /\ m_blob_buf' = {} /\ stream_buf' = {} /\ pc = "close_blob"
    BY <1>a, <1>11 DEF CloseBlobFile, Control, GoDown, EndOfTurn, StartFlush
  <2>3. pc' \notin {"rename", "close_blob"} /\ m_task_status' \subseteq m_task_status
    BY <1>11 DEF CloseBlobFile, GoDown, EndOfTurn, StartFlush
  <2>. QED
    BY <1>a, <1>11, <2>1, <2>2, <2>3 DEF CloseBlobFile
<1>12. CASE ResizeBlob
  <2>1. /\ pc = "resize" /\ pc' = "rename" /\ blob_file.state = "present"
        /\ m_config # SenderConfig => "count" \in faults' /\ UNCHANGED <<memory, task_file, output>>
    BY <1>12 DEF ResizeBlob
  <2>2. CASE Sound'
    <3>1. Sound /\ m_config = SenderConfig
      BY <1>0, <2>1, <2>2
    <3>2. m_task_status = Parts /\ m_blob_buf = {} /\ stream_buf = {}
      BY <1>a, <2>1, <3>1 DEF Control, Finalizing
    <3>3. Parts \subseteq blob_file.parts
      BY <1>a, <2>1, <3>1, <3>2
    <3>4. blob_file'.size = "target" /\ blob_file'.parts = blob_file.parts \ {SizePart}
      BY <1>b, <1>12, <3>1, <3>3, PartsFacts DEF ResizeBlob, SizeIsRight, BlobFile
    <3>5. DataParts \subseteq blob_file'.parts
      BY <3>3, <3>4 DEF DataParts
    <3>6. output' = output
      BY <1>12 DEF ResizeBlob
    <3>. QED
      BY <1>a, <2>1, <3>1, <3>4, <3>5, <3>6
  <2>3. CASE ~Sound'
    BY <2>3
  <2>. QED
    BY <2>2, <2>3
<1>13. CASE ResizeBlobThrows
  BY <1>a, <1>13 DEF ResizeBlobThrows, GoDown, Control
<1>14. CASE Rename
  <2>1. blob_file'.state = "absent" /\ pc = "rename" /\ pc' = "remove_task" /\ faults' = faults
    BY <1>14 DEF Rename, NoBlobFile
  <2>2. Sound => output' = "target"
    BY <1>a, <1>14 DEF Rename
  <2>. QED
    BY <2>1, <2>2
<1>15. CASE RemoveTask
  <2>1. task_file'.parts = {}
    BY <1>15 DEF RemoveTask, NoTaskFile
  <2>. QED
    BY <1>a, <1>15, <2>1 DEF RemoveTask
<1>16. CASE Finish
  BY <1>a, <1>16 DEF Finish, GoDown, Control
<1>17. CASE WriteBlobFails
  BY <1>a, <1>17 DEF WriteBlobFails
<1>18. CASE Kill
  <2>1. pc' = "down" /\ m_task_status' = {} /\ UNCHANGED disk
    BY <1>18 DEF Kill, GoDown
  <2>2. Sound' =>
          /\ Sound
          /\ pc # "rename"
          /\ pc = "close_blob" => stream_buf \cap task_file.parts \subseteq blob_file.parts
    BY <1>18 DEF Kill, KillCosts
  <2>. QED
    BY <1>0, <1>a, <2>1, <2>2
<1>19. CASE UNCHANGED vars
  BY <1>a, <1>19 DEF vars
<1>20. ASSUME NEW p \in Parts, UpdatePartBeyond(p) PROVE Content'
  <2>1. CASE GoDown /\ UNCHANGED faults
    BY <1>a, <1>20, <2>1 DEF UpdatePartBeyond, GoDown, Control
  <2>2. CASE faults' = faults \cup {"count"}
    BY <2>2
  <2>. QED
    BY <1>20, <2>1, <2>2 DEF UpdatePartBeyond
<1>21. CASE WriteNoBlob
  BY <1>a, <1>21 DEF WriteNoBlob, Control
<1>22. CASE OpenTaskFileFails
  BY <1>0, <1>a, <1>22 DEF OpenTaskFileFails, Control
<1>23. CASE CloseTaskFileShort
  <2>1. task_file'.parts \subseteq m_task_status
    BY <1>a, <1>b, <1>23 DEF CloseTaskFileShort, CutBits, Control
  <2>2. pc = "write_task" /\ pc' = "close_blob" /\ UNCHANGED <<memory, blob_file, output>>
    BY <1>23 DEF CloseTaskFileShort
  <2>. QED
    BY <1>0, <1>a, <2>1, <2>2 DEF Control
<1>. QED
  BY <1>1, <1>2, <1>3, <1>4, <1>5, <1>6, <1>7, <1>8, <1>9, <1>10, <1>11, <1>12,
     <1>13, <1>14, <1>15, <1>16, <1>17, <1>18, <1>19, <1>20, <1>21, <1>22, <1>23
  DEF Next, WorkerStep

(* The inductive invariant holds in every reachable state.                 *)
THEOREM Invariance == Spec => []IInv
<1>1. Init => IInv
  BY TypeInit, CountInit, ControlInit, ContentInit DEF IInv, Content
<1>2. IInv /\ [Next]_vars => IInv'
  BY TypeStep, CountStep, ControlStep, ContentStep DEF IInv, Content
<1>. QED
  BY <1>1, <1>2, PTL DEF Spec

(* No part that counts as received is lost: short of a fault named it is   *)
(* in memory or in the blob, and what the task file says is done is in the *)
(* blob, so a receiver that restarts never skips a part it does not have.  *)
THEOREM NothingMissingCorrect == Spec => []NothingMissing
<1>1. IInv => NothingMissing
  BY DEF IInv
<1>. QED
  BY Invariance, <1>1, PTL

(* The file put in place is the file sent, unless a write failed, a kill   *)
(* hit one of the two points that TaskKillFlush and TaskKillFinalize show, *)
(* or the part number entered is smaller than the sender's.                *)
THEOREM ExactCorrect == Spec => []ExactOrFault
<1>1. IInv => ExactOrFault
  BY DEF IInv
<1>. QED
  BY Invariance, <1>1, PTL

-----------------------------------------------------------------------------
(* The refinement of FileReceiver: its variables, as the instance Abstract *)
(* gives them, and the step of FileReceiver that each step of the receiver *)
(* is.                                                                     *)

Received == IF pc = "down" THEN task_file.parts ELSE m_task_status
Saved == IF pc = "write_task" THEN m_task_status ELSE task_file.parts

LEMMA RefineInit == Init => Abstract!Init
BY DEF Init, Abstract!Init, NoTaskFile

LEMMA Stutter ==
  ASSUME Received' = Received, Saved' = Saved, UNCHANGED <<faults, output>>
  PROVE  [Abstract!Next]_Abstract!vars
BY DEF Received, Saved, Abstract!vars

(* A step after which there is no Task object and the disk is as before.   *)
LEMMA DownIsInterrupt ==
  ASSUME pc' = "down", pc # "write_task", UNCHANGED disk,
         faults' \in {faults, faults \cup {"content"}}
  PROVE  Abstract!Next
BY DEF Abstract!Next, Abstract!Interrupt, disk

LEMMA RefineStep == IInv /\ [Next]_vars => [Abstract!Next]_Abstract!vars
<1> SUFFICES ASSUME IInv, [Next]_vars
             PROVE  [Abstract!Next]_Abstract!vars
  OBVIOUS
<1> USE DEF memory, disk, history
<1>a. TypeOK /\ Control /\ Content
  BY DEF IInv, Content
<1>b. task_file \in TaskFile
  BY <1>a DEF TypeOK
<1>1. ASSUME NEW c \in Configs, LoadTask(c) PROVE [Abstract!Next]_Abstract!vars
  BY <1>1, Stutter DEF LoadTask, Received, Saved
<1>2. ASSUME NEW c \in Configs, RefuseTask(c) PROVE [Abstract!Next]_Abstract!vars
  BY <1>2, Stutter DEF RefuseTask, vars, Received, Saved
<1>3. ASSUME NEW c \in Configs, NewTask(c) PROVE [Abstract!Next]_Abstract!vars
  <2>1. task_file.parts = {} /\ task_file' = task_file /\ m_task_status' = {}
    BY <1>a, <1>3 DEF NewTask, Control
  <2>2. /\ pc = "down" /\ pc' \in {"open", "allocate"}
        /\ UNCHANGED <<faults, output>>
    BY <1>3 DEF NewTask
  <2>. QED
    BY <2>1, <2>2, Stutter DEF Received, Saved
<1>4. ASSUME NEW p \in Parts, UpdatePart(p) PROVE [Abstract!Next]_Abstract!vars
  <2>1. pc = "open" /\ pc' \in {"open", "write_blob"}
    BY <1>4 DEF UpdatePart, CountPart, EndOfTurn, StartFlush
  <2>2. Abstract!Receive(p)
    BY <1>4, <2>1 DEF UpdatePart, Abstract!Receive
  <2>. QED
    BY <2>2 DEF Abstract!Next
<1>5. CASE RepeatedPart
  BY <1>5, Stutter DEF RepeatedPart, EndOfTurn, StartFlush, Received, Saved
<1>6. CASE Stop
  <2>1. pc = "open" /\ UNCHANGED <<disk, faults>>
    BY <1>6 DEF Stop
  <2>2. CASE GoDown
    BY <2>1, <2>2, DownIsInterrupt DEF GoDown
  <2>3. CASE ~GoDown
    BY <1>6, <2>1, <2>3, Stutter DEF Stop, StartFlush, Received, Saved
  <2>. QED
    BY <2>2, <2>3
<1>7. CASE AllocateBlob
  <2>1. pc = "allocate" /\ UNCHANGED <<disk, faults>>
    BY <1>7 DEF AllocateBlob
  <2>2. CASE GoDown
    BY <2>1, <2>2, DownIsInterrupt DEF GoDown
  <2>3. CASE ~GoDown
    BY <1>7, <2>1, <2>3, Stutter DEF AllocateBlob, Received, Saved
  <2>. QED
    BY <2>2, <2>3
<1>8. ASSUME NEW p \in Parts, WriteBlob(p) PROVE [Abstract!Next]_Abstract!vars
  BY <1>8, Stutter DEF WriteBlob, Received, Saved
<1>9. CASE OpenTaskFile
  <2>1. pc = "write_blob" /\ pc' = "write_task"
        /\ UNCHANGED <<m_task_status, faults, output>>
    BY <1>9 DEF OpenTaskFile
  <2>2. Abstract!Save
    BY <2>1 DEF Abstract!Save
  <2>. QED
    BY <2>2 DEF Abstract!Next
<1>10. CASE CloseTaskFile
  BY <1>10, Stutter DEF CloseTaskFile, Received, Saved
<1>11. CASE CloseBlobFile
  <2>1. pc = "close_blob" /\ UNCHANGED <<task_file, output, faults>>
    BY <1>11 DEF CloseBlobFile
  <2>2. CASE pc' = "down"
    BY <2>1, <2>2 DEF Abstract!Next, Abstract!Interrupt
  <2>3. CASE pc' # "down"
    <3>1. pc' # "write_task" /\ m_task_status' = m_task_status
      BY <1>11, <2>3 DEF CloseBlobFile, EndOfTurn, StartFlush, GoDown
    <3>. QED
      BY <2>1, <2>3, <3>1, Stutter DEF Received, Saved
  <2>. QED
    BY <2>2, <2>3
<1>12. CASE ResizeBlob
  <2>1. /\ pc = "resize" /\ pc' = "rename" /\ UNCHANGED <<memory, task_file, output>>
        /\ faults' \in {faults, faults \cup {"count"}}
    BY <1>12 DEF ResizeBlob
  <2>2. CASE faults' = faults
    BY <2>1, <2>2, Stutter DEF Received, Saved
  <2>3. CASE faults' = faults \cup {"count"}
    BY <2>1, <2>3 DEF Abstract!Next, Abstract!Lose
  <2>. QED
    BY <2>1, <2>2, <2>3
<1>13. CASE ResizeBlobThrows
  BY <1>13, DownIsInterrupt DEF ResizeBlobThrows, GoDown
<1>14. CASE Rename
  <2>1. /\ pc = "rename" /\ pc' = "remove_task"
        /\ UNCHANGED <<m_task_status, task_file, faults>>
        /\ output' \in {"target", "damaged"}
    BY <1>14 DEF Rename
  <2>2. m_task_status = Parts \/ "count" \in faults
    BY <1>a, <2>1 DEF Control, Finalizing
  <2>3. output' = "damaged" => ~Sound
    BY <1>a, <1>14 DEF Rename, Content, NothingMissing
  <2>4. Abstract!Deliver
    BY <2>1, <2>2, <2>3 DEF Abstract!Deliver, Abstract!AllReceived, Sound
  <2>. QED
    BY <2>4 DEF Abstract!Next
<1>15. CASE RemoveTask
  <2>1. /\ pc = "remove_task" /\ pc' = "completed"
        /\ UNCHANGED <<m_task_status, faults, output>>
        /\ task_file'.parts = {}
    BY <1>15 DEF RemoveTask, NoTaskFile
  <2>2. (m_task_status = Parts \/ "count" \in faults) /\ output # "absent"
    BY <1>a, <2>1 DEF Control, Finalizing
  <2>3. Abstract!Clear
    BY <2>1, <2>2 DEF Abstract!Clear, Abstract!AllReceived
  <2>. QED
    BY <2>3 DEF Abstract!Next
<1>16. CASE Finish
  BY <1>16, DownIsInterrupt DEF Finish, GoDown
<1>17. CASE WriteBlobFails
  <2>1. Abstract!Damage
    BY <1>17 DEF WriteBlobFails, Abstract!Damage
  <2>. QED
    BY <2>1 DEF Abstract!Next
<1>18. CASE Kill
  <2>1. pc' = "down" /\ UNCHANGED disk /\ faults' = faults \cup KillCosts
    BY <1>18 DEF Kill, GoDown
  <2>2. CASE pc = "write_task"
    <3>1. faults' = faults \cup {"progress"}
      BY <2>1, <2>2 DEF KillCosts
    <3>2. task_file.parts = {}
      BY <1>a, <2>2 DEF Control
    <3>3. Abstract!Forget
      BY <2>1, <3>1, <3>2 DEF Abstract!Forget
    <3>. QED
      BY <3>3 DEF Abstract!Next
  <2>3. CASE pc # "write_task"
    BY <2>1, <2>3, DownIsInterrupt DEF KillCosts
  <2>. QED
    BY <2>2, <2>3
<1>19. CASE UNCHANGED vars
  BY <1>19, Stutter DEF vars, Received, Saved
<1>20. ASSUME NEW p \in Parts, UpdatePartBeyond(p) PROVE [Abstract!Next]_Abstract!vars
  <2>1. pc = "open" /\ UNCHANGED disk
    BY <1>20 DEF UpdatePartBeyond
  <2>2. CASE GoDown /\ UNCHANGED faults
    BY <2>1, <2>2, DownIsInterrupt DEF GoDown
  <2>3. CASE ~(GoDown /\ UNCHANGED faults)
    <3>1. pc' \in {"open", "write_blob"} /\ m_task_status' = m_task_status /\ faults' = faults \cup {"count"}
      BY <1>20, <2>3 DEF UpdatePartBeyond, CountPart, EndOfTurn, StartFlush
    <3>. QED
      BY <2>1, <3>1 DEF Abstract!Next, Abstract!Lose
  <2>. QED
    BY <2>2, <2>3
<1>21. CASE WriteNoBlob
  BY <1>21, Stutter DEF WriteNoBlob, Received, Saved
<1>22. CASE OpenTaskFileFails
  <2>1. /\ pc = "write_blob" /\ pc' = "close_blob" /\ UNCHANGED <<memory, disk>>
        /\ faults' = faults \cup {"progress"}
    BY <1>22 DEF OpenTaskFileFails
  <2>. QED
    BY <2>1 DEF Abstract!Next, Abstract!Lose
<1>23. CASE CloseTaskFileShort
  <2>1. /\ pc = "write_task" /\ pc' = "close_blob" /\ UNCHANGED <<memory, output>>
        /\ faults' \in {faults \cup {"progress"}, faults \cup {"count"}}
    BY <1>23 DEF CloseTaskFileShort
  <2>2. task_file'.parts \subseteq m_task_status
    BY <1>a, <1>b, <1>23 DEF CloseTaskFileShort, CutBits, Control
  <2>. QED
    BY <2>1, <2>2 DEF Abstract!Next, Abstract!Lose
<1>. QED
  BY <1>1, <1>2, <1>3, <1>4, <1>5, <1>6, <1>7, <1>8, <1>9, <1>10, <1>11, <1>12,
     <1>13, <1>14, <1>15, <1>16, <1>17, <1>18, <1>19, <1>20, <1>21, <1>22, <1>23
  DEF Next, WorkerStep

(* The receiver implements FileReceiver: kills take it back to the parts   *)
(* saved last and no further, but for a kill or a failed write while the   *)
(* task file is truncated, and the file appears in one step once every     *)
(* part was received, or what was counted as such after a count fault.     *)
THEOREM Refinement == Spec => AbstractSpec
<1>. QED
  BY RefineInit, RefineStep, Invariance, PTL DEF Spec, AbstractSpec, Abstract!Spec
=============================================================================
