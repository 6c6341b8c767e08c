-------------------------- MODULE QtReceiverProofs --------------------------
(***************************************************************************)
(* Proofs about QtReceiver, for any number of signals that wait: the GUI   *)
(* thread and the threads of a calibration or of a task are always in one  *)
(* of nine phases.                                                         *)
(***************************************************************************)
EXTENDS QtReceiver, SequenceTheorems, TLAPS

Kinds == {"valid", "invalid", "result", "error", "progress", "complete", "quit"}
Messages == [signal : Kinds, live : BOOLEAN]

Typed ==
    /\ program \in {"runs", "ended", "LIVE_THREAD", "NULL_THREAD"}
    /\ gui \in {"events", "joinFetch", "joinDecoders", "waitSave", "waitCalibrate", "closing"}
    /\ handler \in [stop : {"calibration", "task"}, after : {"return", "close", "uncheck"}]
    /\ box \in BOOLEAN /\ closed \in BOOLEAN /\ checked \in BOOLEAN /\ label \in BOOLEAN
    /\ valid \in BOOLEAN /\ m_calibration_running \in BOOLEAN /\ m_task_running \in BOOLEAN
    /\ frame_null \in BOOLEAN /\ part_null \in BOOLEAN
    /\ posted \in Seq(Messages)
    /\ stale \in BOOLEAN /\ upset \in BOOLEAN /\ enabled \subseteq Buttons
    /\ file \in {"none", "valid", "invalid"}

(* The phases.  The GUI thread handles events, or is about to close, while *)
(* nothing, a calibration or a task runs ...                               *)
Free == gui \in {"events", "closing"}
NoNulls == ~frame_null /\ ~part_null
NoFlags == ~m_calibration_running /\ ~m_task_running
NoTask == decoders = "null" /\ save = "null" /\ ~m_task_running

Idle == Free /\ NoThreads /\ NoNulls /\ NoFlags

CalibrationWorks ==
    /\ Free /\ NoNulls /\ NoTask /\ m_calibration_running
    /\ fetch = "calibration" /\ calibrate = "running"

(* ... a task that may have ended by itself, as its flag tells;            *)
TaskWorks ==
    /\ Free /\ NoNulls /\ ~m_calibration_running
    /\ m_task_running <=> save # "drain"
    /\ fetch = "task" \/ (fetch = "ended" /\ ~m_task_running)
    /\ calibrate = "null" /\ decoders = "running"
    /\ save \in {"load", "work", "emitted", "drain"}

(* or it stops a calibration, in two phases,                               *)
CalibrationStops ==
    /\ gui = "joinFetch" /\ handler.stop = "calibration" /\ NoNulls /\ NoTask /\ NoFlags
    /\ fetch \in {"calibration", "ended"} /\ calibrate = "running"

CalibrationWaits ==
    /\ gui = "waitCalibrate" /\ ~part_null /\ NoTask /\ NoFlags
    /\ fetch = "null"
    /\ calibrate = IF frame_null THEN "running" ELSE "ended"

(* or a task, in three,                                                    *)
TaskStops ==
    /\ gui = "joinFetch" /\ handler.stop = "task" /\ NoNulls /\ NoFlags
    /\ fetch \in {"task", "ended"} /\ calibrate = "null" /\ decoders = "running"
    /\ save \in {"load", "work", "emitted", "drain"}

TaskJoins ==
    /\ gui = "joinDecoders" /\ ~part_null /\ NoFlags
    /\ fetch = "null" /\ calibrate = "null"
    /\ decoders = IF frame_null THEN "running" ELSE "ended"
    /\ save \in {"load", "work", "emitted", "drain"}

TaskWaits ==
    /\ gui = "waitSave" /\ ~frame_null /\ NoFlags
    /\ fetch = "null" /\ calibrate = "null" /\ decoders = "null"
    /\ IF part_null THEN save \in {"load", "work", "emitted", "drain"} ELSE save = "ended"

(* or waits for the fetch thread of a calibration that nothing stops.      *)
Stuck ==
    /\ gui = "joinFetch" /\ handler.stop = "task" /\ NoNulls /\ NoTask /\ m_calibration_running
    /\ fetch = "calibration" /\ calibrate = "running"
    /\ stale

Phases ==
    \/ Idle \/ CalibrationWorks \/ TaskWorks \/ CalibrationStops \/ CalibrationWaits
    \/ TaskStops \/ TaskJoins \/ TaskWaits \/ Stuck

(* A signal whose threads are not reset was sent by threads that are       *)
(* there, and the window closes when nothing but a task's rest runs.       *)
Explained(m) ==
    /\ m.signal = "quit" => closed
    /\ m.live /\ m.signal = "complete" => save \in {"emitted", "drain", "ended"}

PostedExplained == \A i \in 1 .. Len(posted) : Explained(posted[i])

Closing == closed => NoFlags /\ calibrate = "null"

(* The buttons in each phase.                                              *)
Saving == {"save", "clear"}
Stopping == ~Free

ButtonsFit ==
    /\ NoThreads => enabled \in {Buttons, Buttons \ Saving}
    /\ calibrate # "null" => enabled = {"calibrate", "server"}
    /\ save # "null" => enabled = {"task"}
    /\ NoThreads /\ ~upset => ("save" \in enabled <=> valid)

(* The task button is pressed from the start of a task to its stop.        *)
Pressed ==
    /\ m_task_running => checked
    /\ calibrate # "null" => ~checked
    /\ gui = "events" /\ NoThreads /\ ~closed => ~checked
    /\ Stopping /\ handler.after = "return" => ~checked
    /\ NoThreads => ~label

IInv == Typed /\ Phases /\ PostedExplained /\ Closing /\ ButtonsFit /\ Pressed /\ FailuresExplained

-----------------------------------------------------------------------------
(* The signals that wait: some are sent, the first is taken, or the        *)
(* threads of all are reset.                                               *)
LEMMA Sent ==
  ASSUME posted \in Seq(Messages), NEW sigs \in Seq(Kinds), Emitted(sigs)
  PROVE  /\ posted' \in Seq(Messages)
         /\ \A i \in 1 .. Len(posted') :
               \/ i \in 1 .. Len(posted) /\ posted'[i] = posted[i]
               \/ \E j \in 1 .. Len(sigs) : posted'[i] = [signal |-> sigs[j], live |-> TRUE]
<1> DEFINE new == [i \in DOMAIN sigs |-> [signal |-> sigs[i], live |-> TRUE]]
<1>1. Len(sigs) \in Nat /\ DOMAIN sigs = 1 .. Len(sigs) /\ \A j \in 1 .. Len(sigs) : sigs[j] \in Kinds
  BY LenProperties, ElementOfSeq
<1>2. new \in Seq(Messages) /\ Len(new) = Len(sigs)
  <2>1. new \in [1 .. Len(sigs) -> Messages]
    BY <1>1 DEF Messages
  <2>. QED
    BY <1>1, <2>1, SeqDef, LenProperties
<1>3. /\ posted' = posted \o new
      /\ posted' \in Seq(Messages) /\ Len(posted') = Len(posted) + Len(sigs) /\ Len(posted) \in Nat
      /\ \A i \in 1 .. Len(posted') : posted'[i] = IF i <= Len(posted) THEN posted[i] ELSE new[i - Len(posted)]
  <2>1. posted' = posted \o new
    BY DEF Emitted
  <2> HIDE DEF new
  <2>2. posted \o new \in Seq(Messages) /\ Len(posted \o new) = Len(posted) + Len(new)
    BY <1>2, ConcatProperties
  <2>3. \A i \in 1 .. Len(posted) + Len(new) :
           (posted \o new)[i] = IF i <= Len(posted) THEN posted[i] ELSE new[i - Len(posted)]
    BY <1>2, ConcatProperties
  <2>4. Len(posted) \in Nat
    BY LenProperties
  <2>. QED
    BY <1>2, <2>1, <2>2, <2>3, <2>4
<1>4. ASSUME NEW i \in 1 .. Len(posted'), ~(i <= Len(posted))
      PROVE  \E j \in 1 .. Len(sigs) : posted'[i] = [signal |-> sigs[j], live |-> TRUE]
  <2>1. i - Len(posted) \in 1 .. Len(sigs)
    BY <1>1, <1>3, <1>4
  <2>2. posted'[i] = [signal |-> sigs[i - Len(posted)], live |-> TRUE]
    BY <1>1, <1>3, <1>4, <2>1
  <2>. QED
    BY <2>1, <2>2
<1>5. ASSUME NEW i \in 1 .. Len(posted'), i <= Len(posted)
      PROVE  i \in 1 .. Len(posted) /\ posted'[i] = posted[i]
  <2>1. i \in 1 .. Len(posted)
    BY <1>3, <1>5
  <2>. QED
    BY <1>3, <1>5, <2>1
<1>. QED
  BY <1>3, <1>4, <1>5

LEMMA Taken ==
  ASSUME posted \in Seq(Messages), posted # <<>>, posted' = Tail(posted)
  PROVE  /\ posted' \in Seq(Messages) /\ Head(posted) \in Messages
         /\ 1 \in 1 .. Len(posted) /\ Head(posted) = posted[1]
         /\ \A i \in 1 .. Len(posted') : i + 1 \in 1 .. Len(posted) /\ posted'[i] = posted[i + 1]
<1>1. Len(posted) \in Nat \ {0} /\ Head(posted) = posted[1]
  BY EmptySeq
<1>. QED
  BY <1>1, HeadTailProperties

Reset == posted' = [i \in DOMAIN posted |-> [posted[i] EXCEPT !.live = FALSE]]

LEMMA Dropped ==
  ASSUME posted \in Seq(Messages), Reset
  PROVE  /\ posted' \in Seq(Messages)
         /\ \A i \in 1 .. Len(posted') :
               i \in 1 .. Len(posted) /\ posted'[i].signal = posted[i].signal /\ ~posted'[i].live
<1>1. Len(posted) \in Nat /\ DOMAIN posted = 1 .. Len(posted) /\ \A i \in 1 .. Len(posted) : posted[i] \in Messages
  BY LenProperties, ElementOfSeq
<1>2. \A i \in 1 .. Len(posted) :
         /\ [posted[i] EXCEPT !.live = FALSE] \in Messages
         /\ [posted[i] EXCEPT !.live = FALSE].signal = posted[i].signal
         /\ [posted[i] EXCEPT !.live = FALSE].live = FALSE
  BY <1>1 DEF Messages
<1>3. posted' \in [1 .. Len(posted) -> Messages]
  BY <1>1, <1>2 DEF Reset
<1>4. posted' \in Seq(Messages) /\ Len(posted') = Len(posted)
  BY <1>1, <1>3, SeqDef, LenProperties
<1>. QED
  BY <1>1, <1>2, <1>4 DEF Reset

-----------------------------------------------------------------------------
(* The initial states.                                                     *)
LEMMA Initially == Init => IInv
<1> SUFFICES ASSUME Init
             PROVE  IInv
  OBVIOUS
<1>1. Len(<<>>) = 0 /\ <<>> \in Seq(Messages)
  BY EmptySeq
<1>2. Typed
  BY <1>1 DEF Init, Typed, Buttons
<1>3. Idle
  BY DEF Init, Idle, Free, NoThreads, NoNulls, NoFlags
<1>4. PostedExplained
  BY <1>1 DEF Init, PostedExplained
<1>5. Closing /\ Pressed /\ FailuresExplained
  BY DEF Init, Closing, Pressed, FailuresExplained, Stopping, Free
<1>6. ButtonsFit
  BY DEF Init, ButtonsFit, Buttons, Saving
<1>. QED
  BY <1>2, <1>3, <1>4, <1>5, <1>6 DEF IInv, Phases

-----------------------------------------------------------------------------
(* The types.                                                              *)
LEMMA TypedStep == Typed /\ [Next]_vars => Typed'
<1> SUFFICES ASSUME Typed, [Next]_vars
             PROVE  Typed'
  OBVIOUS
<1> USE DEF Typed, window, calibration, flags, threads, signals
<1>1. CASE FetchEnds
  BY <1>1 DEF FetchEnds
<1>2. CASE CalibrateResult
  <2>1. PICK v \in {"valid", "invalid"} : Emitted(<<v, "result">>)
    BY <1>2 DEF CalibrateResult
  <2>2. <<v, "result">> \in Seq(Kinds)
    BY DEF Kinds
  <2>3. posted' \in Seq(Messages)
    BY <2>1, <2>2, Sent
  <2>. QED
    BY <1>2, <2>3 DEF CalibrateResult
<1>3. CASE CalibrateEnds \/ DecodersEnd
  <2>1. frame_null' \in BOOLEAN
    BY <1>3 DEF CalibrateEnds, DecodersEnd
  <2>. QED
    BY <1>3, <2>1 DEF CalibrateEnds, DecodersEnd
<1>4. CASE DecodeResult
  <2>1. <<"result">> \in Seq(Kinds) /\ Emitted(<<"result">>)
    BY <1>4 DEF DecodeResult, Kinds
  <2>2. posted' \in Seq(Messages)
    BY <2>1, Sent
  <2>. QED
    BY <1>4, <2>2 DEF DecodeResult
<1>5. ASSUME NEW from, NEW to, NEW sigs \in Seq(Kinds), SaveStep(from, to, sigs),
             m_task_running' \in BOOLEAN, part_null' \in BOOLEAN
      PROVE  Typed'
  <2>1. posted' \in Seq(Messages)
    BY <1>5, Sent DEF SaveStep
  <2>. QED
    BY <1>5, <2>1 DEF SaveStep
<1>6. CASE SaveLoads \/ SaveRefuses \/ SaveProgress \/ SaveCompletes \/ SaveClearsFlag \/ SaveEnds
  <2>1. /\ <<>> \in Seq(Kinds) /\ <<"error">> \in Seq(Kinds)
        /\ <<"progress">> \in Seq(Kinds) /\ <<"complete">> \in Seq(Kinds)
    BY EmptySeq DEF Kinds
  <2>2. m_task_running' \in BOOLEAN /\ part_null' \in BOOLEAN
    BY <1>6 DEF SaveLoads, SaveRefuses, SaveProgress, SaveCompletes, SaveClearsFlag, SaveEnds
  <2>. QED
    BY <1>5, <1>6, <2>1, <2>2
    DEF SaveLoads, SaveRefuses, SaveProgress, SaveCompletes, SaveClearsFlag, SaveEnds
<1>7. CASE JoinFetch \/ JoinDecoders
  <2>1. frame_null' \in BOOLEAN /\ part_null' \in BOOLEAN
    BY <1>7 DEF JoinFetch, JoinDecoders
  <2>. QED
    BY <1>7, <2>1 DEF JoinFetch, JoinDecoders
<1>8. CASE WaitCalibrate \/ WaitSave
  <2>1. PICK b \in SUBSET Buttons : Stopped(b)
    BY <1>8 DEF WaitCalibrate, WaitSave, Buttons
  <2>2. posted' \in Seq(Messages)
    BY <2>1, Dropped DEF Stopped, Reset
  <2>3. enabled' \subseteq Buttons
    BY <2>1 DEF Stopped, Buttons
  <2>4. label' \in BOOLEAN /\ checked' \in BOOLEAN
    BY <2>1 DEF Stopped
  <2>. QED
    BY <2>1, <2>2, <2>3, <2>4 DEF Stopped
<1>9. ASSUME NEW kind \in {"calibration", "task"}, NEW after \in {"return", "close", "uncheck"},
             BeginStop(kind, after), posted' \in Seq(Messages), stale' \in BOOLEAN,
             checked' \in BOOLEAN
      PROVE  Typed'
  <2>1. m_calibration_running' \in BOOLEAN /\ m_task_running' \in BOOLEAN
    BY <1>9 DEF BeginStop, Fail
  <2>. QED
    BY <1>9, <2>1 DEF BeginStop, Fail
<1>10. CASE CloseEvent
  <2>1. CASE UNCHANGED <<posted, stale, checked>>
             /\ (BeginStop("calibration", "close") \/ BeginStop("task", "close"))
    BY <1>9, <2>1
  <2>2. CASE /\ gui' = "events" /\ closed' = TRUE /\ Emitted(<<"quit">>)
             /\ UNCHANGED <<program, handler, box, enabled, checked, label, stale, calibration, flags, threads>>
    <3>1. <<"quit">> \in Seq(Kinds)
      BY DEF Kinds
    <3>2. posted' \in Seq(Messages)
      BY <2>2, <3>1, Sent
    <3>. QED
      BY <2>2, <3>2
  <2>. QED
    BY <1>10, <2>1, <2>2 DEF CloseEvent
<1>11. CASE ToggleCalibrationStartStop
  <2>1. posted' \in Seq(Messages) /\ stale' \in BOOLEAN /\ checked' \in BOOLEAN
    BY <1>11 DEF ToggleCalibrationStartStop
  <2>2. CASE BeginStop("calibration", "return")
    BY <1>9, <2>1, <2>2
  <2>3. CASE StartCalibration
    <3>1. m_calibration_running' \in BOOLEAN /\ upset' \in BOOLEAN
      BY <2>3 DEF StartCalibration, Fail
    <3>. QED
      BY <2>1, <2>3, <3>1 DEF StartCalibration, Fail
  <2>. QED
    BY <1>11, <2>2, <2>3 DEF ToggleCalibrationStartStop
<1>12. CASE ToggleTaskStartStop
  <2>1. posted' \in Seq(Messages) /\ stale' \in BOOLEAN /\ checked' \in BOOLEAN
    BY <1>12 DEF ToggleTaskStartStop
  <2>2. CASE BeginStop("task", "return")
    BY <1>9, <2>1, <2>2
  <2>3. CASE StartTask
    <3>1. m_task_running' \in BOOLEAN /\ upset' \in BOOLEAN
      BY <2>3 DEF StartTask, Fail
    <3>. QED
      BY <2>1, <2>3, <3>1 DEF StartTask, Fail
  <2>. QED
    BY <1>12, <2>2, <2>3 DEF ToggleTaskStartStop
<1>13. CASE SaveCalibration \/ LoadCalibration \/ ClearCalibration \/ Close \/ CloseBox
  <2>1. enabled' \subseteq Buttons
    BY <1>13 DEF SaveCalibration, LoadCalibration, ClearCalibration, Close, CloseBox, Buttons
  <2>2. valid' \in BOOLEAN /\ upset' \in BOOLEAN /\ box' \in BOOLEAN
    BY <1>13 DEF SaveCalibration, LoadCalibration, ClearCalibration, Close, CloseBox
  <2>. QED
    BY <1>13, <2>1, <2>2 DEF SaveCalibration, LoadCalibration, ClearCalibration, Close, CloseBox
<1>14. ASSUME NEW kinds, Take(kinds)
       PROVE  posted' \in Seq(Messages) /\ stale' \in BOOLEAN
  <2>1. posted' \in Seq(Messages)
    BY <1>14, Taken DEF Take
  <2>. QED
    BY <1>14, <2>1 DEF Take
<1>15. CASE Signals
  <2>1. posted' \in Seq(Messages) /\ stale' \in BOOLEAN
    BY <1>14, <1>15 DEF Signals, ReceiveCalibration, Show, TaskSavePartComplete, ErrorMsg, Quit
  <2>2. CASE TaskSavePartComplete
    BY <1>9, <2>1, <2>2 DEF TaskSavePartComplete
  <2>3. CASE ReceiveCalibration \/ ErrorMsg \/ Quit
    <3>1. valid' \in BOOLEAN /\ upset' \in BOOLEAN /\ box' \in BOOLEAN
      BY <2>3 DEF ReceiveCalibration, ErrorMsg, Quit
    <3>. QED
      BY <2>1, <2>3, <3>1 DEF ReceiveCalibration, ErrorMsg, Quit
  <2>4. CASE Show
    BY <2>1, <2>4 DEF Show
  <2>. QED
    BY <1>15, <2>2, <2>3, <2>4 DEF Signals
<1>16. CASE UNCHANGED vars
  BY <1>16 DEF vars
<1>. QED
  BY <1>1, <1>2, <1>3, <1>4, <1>6, <1>7, <1>8, <1>10, <1>11, <1>12, <1>13, <1>15, <1>16
  DEF Next, Running, Threads, Gui, User

-----------------------------------------------------------------------------
(* The phases. Every step leads from one to itself or to the next.         *)

(* What the first signal says of the threads: one that comes too late is   *)
(* remembered.                                                             *)
LEMMA FirstExplained ==
  ASSUME Typed, PostedExplained, NEW kinds, Take(kinds)
  PROVE  /\ Head(posted) \in Messages /\ Explained(Head(posted)) /\ Head(posted).signal \in kinds
         /\ Head(posted).signal = "complete" /\ ~Head(posted).live => stale'
         /\ stale => stale'
BY Taken DEF Typed, PostedExplained, Take

LEMMA PhasesStep == Typed /\ Phases /\ PostedExplained /\ [Next]_vars => Phases'
<1> SUFFICES ASSUME Typed, Phases, PostedExplained, [Next]_vars
             PROVE  Phases'
  OBVIOUS
<1> USE DEF window, calibration, flags, threads, signals,
            Phases, Idle, CalibrationWorks, TaskWorks, CalibrationStops, CalibrationWaits,
            TaskStops, TaskJoins, TaskWaits, Stuck, Free, NoNulls, NoFlags, NoTask, NoThreads
<1>1. CASE FetchEnds
  BY <1>1 DEF FetchEnds
<1>2. CASE CalibrateResult \/ DecodeResult
  BY <1>2 DEF CalibrateResult, DecodeResult
<1>3. CASE CalibrateEnds
  BY <1>3 DEF CalibrateEnds
<1>4. CASE DecodersEnd
  BY <1>4 DEF DecodersEnd
<1>5. CASE SaveLoads \/ SaveRefuses \/ SaveProgress \/ SaveCompletes
  BY <1>5 DEF SaveLoads, SaveRefuses, SaveProgress, SaveCompletes, SaveStep
<1>6. CASE SaveClearsFlag
  BY <1>6 DEF SaveClearsFlag, SaveStep
<1>7. CASE SaveEnds
  BY <1>7 DEF SaveEnds, SaveStep
<1>8. CASE JoinFetch
  BY <1>8 DEF JoinFetch
<1>9. CASE JoinDecoders
  BY <1>9 DEF JoinDecoders
<1>10. CASE WaitCalibrate
  BY <1>10 DEF WaitCalibrate, Stopped
<1>11. CASE WaitSave
  BY <1>11 DEF WaitSave, Stopped
<1>12. CASE CloseEvent
  <2>1. CASE CalibrationWorks
    BY <1>12, <2>1 DEF CloseEvent, BeginStop
  <2>2. CASE TaskWorks
    BY <1>12, <2>2 DEF CloseEvent, BeginStop
  <2>3. CASE Idle
    BY <1>12, <2>3 DEF CloseEvent, BeginStop
  <2>. QED
    BY <1>12, <2>1, <2>2, <2>3 DEF CloseEvent
<1>13. CASE ToggleCalibrationStartStop
  <2>1. CASE CalibrationWorks
    BY <1>13, <2>1 DEF ToggleCalibrationStartStop, BeginStop
  <2>2. CASE TaskWorks
    BY <1>13, <2>2 DEF ToggleCalibrationStartStop, StartCalibration, Fail
  <2>3. CASE Idle
    BY <1>13, <2>3 DEF ToggleCalibrationStartStop, StartCalibration
  <2>. QED
    BY <1>13, <2>1, <2>2, <2>3 DEF ToggleCalibrationStartStop, Click
<1>14. CASE ToggleTaskStartStop
  <2>1. CASE CalibrationWorks
    BY <1>14, <2>1 DEF ToggleTaskStartStop, StartTask, Fail
  <2>2. CASE TaskWorks
    BY <1>14, <2>2 DEF ToggleTaskStartStop, BeginStop, StartTask, Fail
  <2>3. CASE Idle
    BY <1>14, <2>3 DEF ToggleTaskStartStop, StartTask
  <2>. QED
    BY <1>14, <2>1, <2>2, <2>3 DEF ToggleTaskStartStop, Click
<1>15. CASE SaveCalibration \/ LoadCalibration \/ ClearCalibration
  BY <1>15 DEF SaveCalibration, LoadCalibration, ClearCalibration
<1>16. CASE Close \/ CloseBox
  BY <1>16 DEF Close, CloseBox
<1>17. CASE ReceiveCalibration \/ Show \/ ErrorMsg \/ Quit
  <2>1. stale => stale'
    BY <1>17, FirstExplained DEF ReceiveCalibration, Show, ErrorMsg, Quit
  <2>2. UNCHANGED <<gui, handler, flags, threads>>
    BY <1>17 DEF ReceiveCalibration, Show, ErrorMsg, Quit
  <2>. QED
    BY <2>1, <2>2
<1>18. CASE TaskSavePartComplete
  <2>1. Take({"complete"}) /\ BeginStop("task", "uncheck") /\ gui = "events"
    BY <1>18 DEF TaskSavePartComplete, Take
  <2>2. Explained(Head(posted)) /\ Head(posted).signal = "complete"
        /\ (~Head(posted).live => stale')
    <3>1. /\ Explained(Head(posted)) /\ Head(posted).signal \in {"complete"}
          /\ Head(posted).signal = "complete" /\ ~Head(posted).live => stale'
      BY <2>1, FirstExplained
    <3>. QED
      BY <3>1
  <2>3. CASE Idle
    BY <2>1, <2>3 DEF BeginStop, Fail
  <2>4. CASE TaskWorks
    BY <2>1, <2>4 DEF BeginStop
  <2>5. CASE CalibrationWorks
    <3>1. stale'
      BY <2>2, <2>5 DEF Explained
    <3>. QED
      BY <2>1, <2>5, <3>1 DEF BeginStop
  <2>. QED
    BY <2>1, <2>3, <2>4, <2>5
<1>19. CASE UNCHANGED vars
  BY <1>19 DEF vars
<1>. QED
  BY <1>1, <1>2, <1>3, <1>4, <1>5, <1>6, <1>7, <1>8, <1>9, <1>10, <1>11, <1>12, <1>13, <1>14,
     <1>15, <1>16, <1>17, <1>18, <1>19
  DEF Next, Running, Threads, Gui, User, Signals

-----------------------------------------------------------------------------
(* The signals. None is sent by threads that are reset.                    *)
(* A signal stays explained while the threads it tells of are there.       *)
LEMMA StaysExplained ==
  ASSUME NEW m \in Messages, Explained(m),
         closed => closed',
         save \in {"emitted", "drain", "ended"} => save' \in {"emitted", "drain", "ended"}
  PROVE  Explained(m)'
BY DEF Explained

LEMMA KeptExplained ==
  ASSUME Typed, PostedExplained, UNCHANGED posted,
         closed => closed',
         save \in {"emitted", "drain", "ended"} => save' \in {"emitted", "drain", "ended"}
  PROVE  PostedExplained'
<1>1. \A i \in 1 .. Len(posted) : posted[i] \in Messages
  BY ElementOfSeq DEF Typed
<1>. QED
  BY <1>1, StaysExplained DEF PostedExplained

LEMMA SentExplained ==
  ASSUME Typed, PostedExplained, NEW sigs \in Seq(Kinds), Emitted(sigs),
         closed => closed',
         save \in {"emitted", "drain", "ended"} => save' \in {"emitted", "drain", "ended"},
         \A j \in 1 .. Len(sigs) :
            /\ sigs[j] = "quit" => closed'
            /\ sigs[j] = "complete" => save' \in {"emitted", "drain", "ended"}
  PROVE  PostedExplained'
<1>1. posted \in Seq(Messages) /\ \A i \in 1 .. Len(posted) : posted[i] \in Messages
  BY ElementOfSeq DEF Typed
<1>2. \A i \in 1 .. Len(posted') :
         \/ i \in 1 .. Len(posted) /\ posted'[i] = posted[i]
         \/ \E j \in 1 .. Len(sigs) : posted'[i] = [signal |-> sigs[j], live |-> TRUE]
  BY <1>1, Sent
<1>3. ASSUME NEW i \in 1 .. Len(posted), posted'[i] = posted[i]
      PROVE  Explained(posted[i])'
  BY <1>1, <1>3, StaysExplained DEF PostedExplained, Explained
<1>4. ASSUME NEW i, NEW j \in 1 .. Len(sigs), posted'[i] = [signal |-> sigs[j], live |-> TRUE]
      PROVE  Explained(posted[i])'
  BY <1>4 DEF Explained
<1>. QED
  BY <1>2, <1>3, <1>4 DEF PostedExplained

LEMMA TakenExplained ==
  ASSUME Typed, PostedExplained, NEW kinds, Take(kinds), UNCHANGED <<closed, save>>
  PROVE  PostedExplained'
<1>1. \A i \in 1 .. Len(posted') : i + 1 \in 1 .. Len(posted) /\ posted'[i] = posted[i + 1]
  BY Taken DEF Typed, Take
<1>. QED
  BY <1>1 DEF PostedExplained, Explained

LEMMA DroppedExplained ==
  ASSUME Typed, PostedExplained, Reset, UNCHANGED closed
  PROVE  PostedExplained'
<1>1. \A i \in 1 .. Len(posted') :
         i \in 1 .. Len(posted) /\ posted'[i].signal = posted[i].signal /\ ~posted'[i].live
  BY Dropped DEF Typed
<1>. QED
  BY <1>1 DEF PostedExplained, Explained

LEMMA PostedStep == Typed /\ Phases /\ PostedExplained /\ [Next]_vars => PostedExplained'
<1> SUFFICES ASSUME Typed, Phases, PostedExplained, [Next]_vars
             PROVE  PostedExplained'
  OBVIOUS
<1> USE DEF window, calibration, flags, threads, signals
<1> DEFINE Kept ==
      /\ closed => closed'
      /\ save \in {"emitted", "drain", "ended"} => save' \in {"emitted", "drain", "ended"}
<1>1. CASE FetchEnds \/ CalibrateEnds \/ DecodersEnd \/ JoinFetch \/ JoinDecoders
  <2>1. UNCHANGED posted /\ Kept
    BY <1>1 DEF FetchEnds, CalibrateEnds, DecodersEnd, JoinFetch, JoinDecoders
  <2>. QED
    BY <2>1, KeptExplained
<1>2. CASE CalibrateResult
  <2>1. PICK v \in {"valid", "invalid"} : Emitted(<<v, "result">>)
    BY <1>2 DEF CalibrateResult
  <2> DEFINE sent == <<v, "result">>
  <2>2. sent \in Seq(Kinds) /\ Len(sent) = 2 /\ sent[1] = v /\ sent[2] = "result"
    BY DEF Kinds
  <2>3. \A j \in 1 .. Len(sent) : sent[j] \in {"valid", "invalid", "result"}
    BY <2>2
  <2>4. Kept
    BY <1>2 DEF CalibrateResult
  <2>. QED
    BY <2>1, <2>2, <2>3, <2>4, SentExplained
<1>3. CASE DecodeResult
  <2> DEFINE sent == <<"result">>
  <2>1. Emitted(sent) /\ Kept
    BY <1>3 DEF DecodeResult
  <2>2. sent \in Seq(Kinds) /\ \A j \in 1 .. Len(sent) : sent[j] = "result"
    BY DEF Kinds
  <2>. QED
    BY <2>1, <2>2, SentExplained
<1>4. CASE SaveLoads \/ SaveClearsFlag \/ SaveEnds
  <2> DEFINE sent == <<>>
  <2>1. Emitted(sent) /\ Kept
    BY <1>4 DEF SaveLoads, SaveClearsFlag, SaveEnds, SaveStep
  <2>2. sent \in Seq(Kinds) /\ \A j \in 1 .. Len(sent) : FALSE
    BY EmptySeq
  <2>. QED
    BY <2>1, <2>2, SentExplained
<1>5. CASE SaveRefuses \/ SaveProgress
  <2>1. PICK k \in {"error", "progress"} : Emitted(<<k>>)
    BY <1>5 DEF SaveRefuses, SaveProgress, SaveStep
  <2> DEFINE sent == <<k>>
  <2>2. Kept
    BY <1>5 DEF SaveRefuses, SaveProgress, SaveStep
  <2>3. sent \in Seq(Kinds) /\ \A j \in 1 .. Len(sent) : sent[j] \in {"error", "progress"}
    BY DEF Kinds
  <2>. QED
    BY <2>1, <2>2, <2>3, SentExplained
<1>6. CASE SaveCompletes
  <2> DEFINE sent == <<"complete">>
  <2>1. Emitted(sent) /\ Kept /\ save' = "emitted"
    BY <1>6 DEF SaveCompletes, SaveStep
  <2>2. sent \in Seq(Kinds) /\ \A j \in 1 .. Len(sent) : sent[j] = "complete"
    BY DEF Kinds
  <2>. QED
    BY <2>1, <2>2, SentExplained
<1>7. CASE WaitCalibrate \/ WaitSave
  <2>1. Reset /\ UNCHANGED closed
    BY <1>7 DEF WaitCalibrate, WaitSave, Stopped, Reset
  <2>. QED
    BY <2>1, DroppedExplained
<1>8. ASSUME NEW kind, NEW after, BeginStop(kind, after)
      PROVE  UNCHANGED <<closed, save>>
  BY <1>8 DEF BeginStop, Fail
<1>9. CASE CloseEvent
  <2>1. CASE UNCHANGED <<posted, stale, checked>>
             /\ (BeginStop("calibration", "close") \/ BeginStop("task", "close"))
    <3>1. UNCHANGED posted /\ Kept
      BY <1>8, <2>1
    <3>. QED
      BY <3>1, KeptExplained
  <2>2. CASE /\ gui' = "events" /\ closed' = TRUE /\ Emitted(<<"quit">>)
             /\ UNCHANGED <<program, handler, box, enabled, checked, label, stale, calibration, flags, threads>>
    <3> DEFINE sent == <<"quit">>
    <3>1. Emitted(sent) /\ Kept /\ closed'
      BY <2>2
    <3>2. sent \in Seq(Kinds) /\ \A j \in 1 .. Len(sent) : sent[j] = "quit"
      BY DEF Kinds
    <3>. QED
      BY <3>1, <3>2, SentExplained
  <2>. QED
    BY <1>9, <2>1, <2>2 DEF CloseEvent
<1>10. CASE ToggleCalibrationStartStop
  <2>1. UNCHANGED posted /\ Kept
    BY <1>8, <1>10 DEF ToggleCalibrationStartStop, StartCalibration, Fail
  <2>. QED
    BY <2>1, KeptExplained
<1>11. CASE ToggleTaskStartStop
  <2>1. CASE StartTask /\ fetch = "null"
    <3>1. save = "null"
      BY <1>11, <2>1 DEF ToggleTaskStartStop, Click, Phases, Idle, CalibrationWorks, TaskWorks,
        CalibrationStops, CalibrationWaits, TaskStops, TaskJoins, TaskWaits, Stuck, Free, NoThreads
    <3>2. UNCHANGED posted /\ Kept
      BY <1>11, <2>1, <3>1 DEF ToggleTaskStartStop, StartTask
    <3>. QED
      BY <3>2, KeptExplained
  <2>2. CASE BeginStop("task", "return") \/ Fail("LIVE_THREAD")
    <3>1. UNCHANGED posted /\ Kept
      BY <1>8, <1>11, <2>2 DEF ToggleTaskStartStop, Fail
    <3>. QED
      BY <3>1, KeptExplained
  <2>. QED
    BY <1>11, <2>1, <2>2 DEF ToggleTaskStartStop, StartTask
<1>12. CASE SaveCalibration \/ LoadCalibration \/ ClearCalibration \/ Close \/ CloseBox
  <2>1. UNCHANGED posted /\ Kept
    BY <1>12 DEF SaveCalibration, LoadCalibration, ClearCalibration, Close, CloseBox
  <2>. QED
    BY <2>1, KeptExplained
<1>13. CASE Signals
  <2>1. UNCHANGED <<closed, save>>
    BY <1>8, <1>13 DEF Signals, ReceiveCalibration, Show, TaskSavePartComplete, ErrorMsg, Quit
  <2>. QED
    BY <1>13, <2>1, TakenExplained
    DEF Signals, ReceiveCalibration, Show, TaskSavePartComplete, ErrorMsg, Quit
<1>14. CASE UNCHANGED vars
  <2>1. UNCHANGED posted /\ Kept
    BY <1>14 DEF vars
  <2>. QED
    BY <2>1, KeptExplained
<1>. QED
  BY <1>1, <1>2, <1>3, <1>4, <1>5, <1>6, <1>7, <1>9, <1>10, <1>11, <1>12, <1>13, <1>14
  DEF Next, Running, Threads, Gui, User

-----------------------------------------------------------------------------
(* The window that is closed, the buttons and the failures.                *)
LEMMA ClosingStep == Typed /\ Phases /\ Closing /\ [Next]_vars => Closing'
<1> SUFFICES ASSUME Typed, Phases, Closing, [Next]_vars
             PROVE  Closing'
  OBVIOUS
<1> USE DEF window, calibration, flags, threads, signals, Closing,
            Phases, Idle, CalibrationWorks, TaskWorks, CalibrationStops, CalibrationWaits,
            TaskStops, TaskJoins, TaskWaits, Stuck, Free, NoNulls, NoFlags, NoTask, NoThreads
<1>1. CASE Threads
  BY <1>1 DEF Threads, FetchEnds, CalibrateResult, CalibrateEnds, DecodeResult, DecodersEnd,
    SaveLoads, SaveRefuses, SaveProgress, SaveCompletes, SaveClearsFlag, SaveEnds, SaveStep
<1>2. CASE JoinFetch \/ JoinDecoders \/ WaitCalibrate \/ WaitSave
  BY <1>2 DEF JoinFetch, JoinDecoders, WaitCalibrate, WaitSave, Stopped
<1>3. CASE CloseEvent
  <2>1. CASE m_calibration_running \/ m_task_running
    BY <1>3, <2>1 DEF CloseEvent, BeginStop, Fail
  <2>2. CASE ~m_calibration_running /\ ~m_task_running
    BY <1>3, <2>2 DEF CloseEvent
  <2>. QED
    BY <2>1, <2>2
<1>4. CASE User \/ CloseBox
  BY <1>4 DEF User, CloseBox, ToggleCalibrationStartStop, ToggleTaskStartStop, SaveCalibration,
    LoadCalibration, ClearCalibration, Close, Click, BeginStop, Fail, StartCalibration, StartTask
<1>5. CASE Signals
  BY <1>5 DEF Signals, ReceiveCalibration, Show, TaskSavePartComplete, ErrorMsg, Quit, BeginStop, Fail
<1>6. CASE UNCHANGED vars
  BY <1>6 DEF vars
<1>. QED
  BY <1>1, <1>2, <1>3, <1>4, <1>5, <1>6 DEF Next, Running, Gui

(* What a phase says of the buttons.                                       *)
LEMMA ButtonsStep ==
  Typed /\ Phases /\ ButtonsFit /\ [Next]_vars => ButtonsFit'
<1> SUFFICES ASSUME Typed, Phases, ButtonsFit, [Next]_vars
             PROVE  ButtonsFit'
  OBVIOUS
<1> USE DEF window, calibration, flags, threads, signals, ButtonsFit, NoThreads,
            Phases, Idle, CalibrationWorks, TaskWorks, CalibrationStops, CalibrationWaits,
            TaskStops, TaskJoins, TaskWaits, Stuck, Free, NoNulls, NoFlags, NoTask
<1>1. CASE Threads
  <2>1. UNCHANGED <<enabled, valid, upset>>
    BY <1>1 DEF Threads, FetchEnds, CalibrateResult, CalibrateEnds, DecodeResult, DecodersEnd,
    SaveLoads, SaveRefuses, SaveProgress, SaveCompletes, SaveClearsFlag, SaveEnds, SaveStep
  <2>2. (NoThreads' => NoThreads) /\ (calibrate' # "null" => calibrate # "null") /\ (save' # "null" => save # "null")
    BY <1>1 DEF Threads, FetchEnds, CalibrateResult, CalibrateEnds, DecodeResult, DecodersEnd,
    SaveLoads, SaveRefuses, SaveProgress, SaveCompletes, SaveClearsFlag, SaveEnds, SaveStep
  <2>. QED
    BY <2>1, <2>2
<1>2. CASE JoinFetch \/ JoinDecoders
  <2>1. UNCHANGED <<enabled, valid, upset, calibrate, save>> /\ (calibrate # "null" \/ save # "null")
    BY <1>2 DEF JoinFetch, JoinDecoders
  <2>. QED
    BY <2>1
<1>3. CASE WaitCalibrate
  <2>1. save = "null" /\ calibrate # "null" /\ calibrate' = "null" /\ UNCHANGED <<save, upset, valid>>
    BY <1>3 DEF WaitCalibrate, Stopped
  <2>2. enabled' = {"calibrate", "server"} \cup {"task", "load"} \cup (IF valid THEN {"save", "clear"} ELSE {})
    BY <1>3, <2>1 DEF WaitCalibrate, Stopped
  <2>3. enabled' = IF valid THEN Buttons ELSE Buttons \ Saving
    BY <2>2 DEF Buttons, Saving
  <2>. QED
    BY <2>1, <2>3 DEF Buttons, Saving, Typed
<1>4. CASE WaitSave
  <2>1. calibrate = "null" /\ save # "null" /\ save' = "null" /\ UNCHANGED <<calibrate, upset, valid>>
    BY <1>4 DEF WaitSave, Stopped
  <2>2. enabled' = {"task"} \cup {"calibrate", "load", "server"} \cup (IF valid THEN {"save", "clear"} ELSE {})
    BY <1>4, <2>1 DEF WaitSave, Stopped
  <2>3. enabled' = IF valid THEN Buttons ELSE Buttons \ Saving
    BY <2>2 DEF Buttons, Saving
  <2>. QED
    BY <2>1, <2>3 DEF Buttons, Saving, Typed
<1>5. CASE CloseEvent \/ Close \/ CloseBox
  <2>1. UNCHANGED <<enabled, valid, upset, fetch, calibrate, decoders, save>>
    BY <1>5 DEF CloseEvent, BeginStop, Fail, Close, CloseBox
  <2>. QED
    BY <2>1
<1>6. CASE ToggleCalibrationStartStop
  <2>1. CASE StartCalibration /\ fetch = "null"
    <3>1. NoThreads /\ save' = "null"
      BY <1>6, <2>1 DEF ToggleCalibrationStartStop, StartCalibration, Click
    <3>2. /\ enabled' = enabled \ {"task", "save", "load", "clear"} /\ calibrate' = "running"
      BY <1>6, <2>1 DEF ToggleCalibrationStartStop, StartCalibration
    <3>3. enabled' = {"calibrate", "server"}
      BY <3>1, <3>2 DEF Buttons, Saving
    <3>. QED
      BY <3>1, <3>2, <3>3
  <2>2. CASE BeginStop("calibration", "return") \/ Fail("LIVE_THREAD")
    BY <1>6, <2>2 DEF ToggleCalibrationStartStop, BeginStop, Fail
  <2>. QED
    BY <1>6, <2>1, <2>2 DEF ToggleCalibrationStartStop, StartCalibration
<1>7. CASE ToggleTaskStartStop
  <2>1. CASE StartTask /\ fetch = "null"
    <3>1. NoThreads /\ calibrate' = "null"
      BY <1>7, <2>1 DEF ToggleTaskStartStop, StartTask, Click
    <3>2. /\ enabled' = enabled \ {"calibrate", "save", "load", "clear", "server"} /\ save' = "load"
      BY <1>7, <2>1 DEF ToggleTaskStartStop, StartTask
    <3>3. enabled' = {"task"}
      BY <3>1, <3>2 DEF Buttons, Saving
    <3>. QED
      BY <3>1, <3>2, <3>3
  <2>2. CASE BeginStop("task", "return") \/ Fail("LIVE_THREAD")
    BY <1>7, <2>2 DEF ToggleTaskStartStop, BeginStop, Fail
  <2>. QED
    BY <1>7, <2>1, <2>2 DEF ToggleTaskStartStop, StartTask
<1>8. ASSUME gui = "events", "load" \in enabled \/ "clear" \in enabled \/ "save" \in enabled
      PROVE  NoThreads
  BY <1>8 DEF Phases
<1>9. CASE SaveCalibration
  BY <1>9 DEF SaveCalibration
<1>10. CASE LoadCalibration
  <2>1. NoThreads /\ UNCHANGED <<fetch, calibrate, decoders, save>>
    BY <1>8, <1>10 DEF LoadCalibration, Click
  <2>2. CASE file = "valid"
    <3>1. valid' = TRUE /\ enabled' = enabled \cup {"save", "clear"}
      BY <1>10, <2>2 DEF LoadCalibration
    <3>2. enabled' = Buttons
      BY <2>1, <3>1 DEF Buttons, Saving
    <3>. QED
      BY <2>1, <3>1, <3>2 DEF Buttons
  <2>3. CASE file = "invalid"
    <3>1. valid' = FALSE /\ enabled' = enabled /\ upset' = (valid \/ upset)
      BY <1>10, <2>3 DEF LoadCalibration
    <3>. QED
      BY <2>1, <2>3, <3>1
  <2>. QED
    BY <1>10, <2>2, <2>3 DEF LoadCalibration, Typed
<1>11. CASE ClearCalibration
  <2>1. NoThreads /\ UNCHANGED <<fetch, calibrate, decoders, save>>
    BY <1>8, <1>11 DEF ClearCalibration, Click
  <2>2. valid' = FALSE /\ enabled' = enabled \ {"save", "clear"}
    BY <1>11 DEF ClearCalibration
  <2>3. enabled' = Buttons \ Saving
    BY <2>1, <2>2 DEF Buttons, Saving
  <2>. QED
    BY <2>1, <2>2, <2>3 DEF Saving
<1>12. CASE ReceiveCalibration
  <2>1. UNCHANGED <<enabled, fetch, calibrate, decoders, save>> /\ upset' = (upset \/ NoThreads)
    BY <1>12 DEF ReceiveCalibration
  <2>. QED
    BY <2>1
<1>13. CASE Show \/ TaskSavePartComplete \/ ErrorMsg \/ Quit
  <2>1. UNCHANGED <<enabled, valid, fetch, calibrate, decoders, save>>
    BY <1>13 DEF Show, TaskSavePartComplete, ErrorMsg, Quit, BeginStop, Fail
  <2>2. UNCHANGED upset
    BY <1>13 DEF Show, TaskSavePartComplete, ErrorMsg, Quit, BeginStop, Fail
  <2>. QED
    BY <2>1, <2>2
<1>14. CASE UNCHANGED vars
  BY <1>14 DEF vars
<1>. QED
  BY <1>1, <1>2, <1>3, <1>4, <1>5, <1>6, <1>7, <1>9, <1>10, <1>11, <1>12, <1>13, <1>14
  DEF Next, Running, Gui, User, Signals

(* The task button and the status.                                         *)
LEMMA PressedStep ==
  Typed /\ Phases /\ ButtonsFit /\ Pressed /\ [Next]_vars => Pressed'
<1> SUFFICES ASSUME Typed, Phases, ButtonsFit, Pressed, [Next]_vars
             PROVE  Pressed'
  OBVIOUS
<1> USE DEF window, calibration, flags, threads, signals, Pressed, Stopping, NoThreads,
            Phases, Idle, CalibrationWorks, TaskWorks, CalibrationStops, CalibrationWaits,
            TaskStops, TaskJoins, TaskWaits, Stuck, Free, NoNulls, NoFlags, NoTask
<1>1. CASE Threads
  <2>1. UNCHANGED <<gui, handler, closed, checked, label>>
    BY <1>1 DEF Threads, FetchEnds, CalibrateResult, CalibrateEnds, DecodeResult, DecodersEnd,
    SaveLoads, SaveRefuses, SaveProgress, SaveCompletes, SaveClearsFlag, SaveEnds, SaveStep
  <2>2. (NoThreads' => NoThreads) /\ (calibrate' # "null" => calibrate # "null") /\ (m_task_running' => m_task_running)
    BY <1>1 DEF Threads, FetchEnds, CalibrateResult, CalibrateEnds, DecodeResult, DecodersEnd,
    SaveLoads, SaveRefuses, SaveProgress, SaveCompletes, SaveClearsFlag, SaveEnds, SaveStep
  <2>. QED
    BY <2>1, <2>2
<1>2. CASE JoinFetch \/ JoinDecoders
  <2>1. /\ UNCHANGED <<handler, closed, checked, label, calibrate, save, m_task_running>>
        /\ calibrate # "null" \/ save # "null"
        /\ gui \notin {"events", "closing"} /\ gui' # "events"
    BY <1>2 DEF JoinFetch, JoinDecoders
  <2>. QED
    BY <2>1
<1>3. CASE WaitCalibrate \/ WaitSave
  <2>1. /\ checked' = (checked /\ handler.after # "uncheck") /\ label' = FALSE
        /\ gui' = IF handler.after = "close" THEN "closing" ELSE "events"
        /\ handler.after \in {"return", "close", "uncheck"}
        /\ gui \notin {"events", "closing"}
    BY <1>3 DEF WaitCalibrate, WaitSave, Stopped, Typed
  <2>2. ~m_task_running' /\ calibrate' = "null"
    BY <1>3 DEF WaitCalibrate, WaitSave, Stopped
  <2>. QED
    BY <2>1, <2>2
<1>4. CASE CloseEvent
  <2>1. UNCHANGED <<checked, label, fetch, calibrate, decoders, save>> /\ (m_task_running' => m_task_running)
    BY <1>4 DEF CloseEvent, BeginStop, Fail
  <2>2. \/ gui' = "events" /\ closed'
        \/ gui' = "joinFetch" /\ handler'.after = "close"
        \/ UNCHANGED <<gui, closed, handler>>
    BY <1>4 DEF CloseEvent, BeginStop, Fail
  <2>. QED
    BY <2>1, <2>2
<1>5. CASE ToggleCalibrationStartStop
  <2>1. CASE CalibrationWorks
    BY <1>5, <2>1 DEF ToggleCalibrationStartStop, BeginStop, CalibrationWorks
  <2>2. CASE TaskWorks
    BY <1>5, <2>2 DEF ToggleCalibrationStartStop, Click, TaskWorks, ButtonsFit
  <2>3. CASE Idle
    BY <1>5, <2>3 DEF ToggleCalibrationStartStop, StartCalibration, Click, Idle, NoFlags
  <2>. QED
    BY <1>5, <2>1, <2>2, <2>3
    DEF ToggleCalibrationStartStop, Click
<1>6. CASE ToggleTaskStartStop
  <2>1. CASE CalibrationWorks
    BY <1>6, <2>1 DEF ToggleTaskStartStop, Click, CalibrationWorks, ButtonsFit
  <2>2. CASE TaskWorks
    BY <1>6, <2>2 DEF ToggleTaskStartStop, BeginStop, StartTask, Fail, TaskWorks
  <2>3. CASE Idle
    BY <1>6, <2>3 DEF ToggleTaskStartStop, StartTask, Click, Idle, NoFlags
  <2>. QED
    BY <1>6, <2>1, <2>2, <2>3
    DEF ToggleTaskStartStop, Click
<1>7. CASE SaveCalibration \/ LoadCalibration \/ ClearCalibration \/ Close \/ CloseBox
  BY <1>7 DEF SaveCalibration, LoadCalibration, ClearCalibration, Close, CloseBox
<1>8. CASE Show
  <2>1. NoThreads => ~m_task_running /\ ~m_calibration_running
    BY DEF Phases
  <2>2. UNCHANGED <<gui, handler, closed, checked, flags, threads>>
        /\ (label' => label \/ m_task_running \/ m_calibration_running)
    BY <1>8 DEF Show
  <2>. QED
    BY <2>1, <2>2
<1>9. CASE TaskSavePartComplete
  BY <1>9 DEF TaskSavePartComplete, BeginStop, Fail
<1>10. CASE ReceiveCalibration \/ ErrorMsg \/ Quit
  BY <1>10 DEF ReceiveCalibration, ErrorMsg, Quit
<1>11. CASE UNCHANGED vars
  BY <1>11 DEF vars
<1>. QED
  BY <1>1, <1>2, <1>3, <1>4, <1>5, <1>6, <1>7, <1>8, <1>9, <1>10, <1>11
  DEF Next, Running, Gui, User, Signals

(* A program that has failed takes no further step.                        *)
LEMMA FailuresStep ==
  IInv /\ [Next]_vars => FailuresExplained'
<1> SUFFICES ASSUME IInv, [Next]_vars
             PROVE  FailuresExplained'
  OBVIOUS
<1> USE DEF window, calibration, flags, threads, signals, FailuresExplained, NoThreads,
            Phases, Idle, CalibrationWorks, TaskWorks, CalibrationStops, CalibrationWaits,
            TaskStops, TaskJoins, TaskWaits, Stuck, Free, NoNulls, NoFlags, NoTask
<1>1. CASE program = "runs" /\ program' = "runs"
  BY <1>1
<1>2. CASE UNCHANGED vars
  BY <1>2 DEF vars, IInv
<1>3. CASE Running(Threads)
  BY <1>1, <1>3 DEF Running, Threads, FetchEnds, CalibrateResult, CalibrateEnds, DecodeResult, DecodersEnd,
    SaveLoads, SaveRefuses, SaveProgress, SaveCompletes, SaveClearsFlag, SaveEnds, SaveStep
<1>4. CASE Running(JoinFetch \/ JoinDecoders \/ WaitCalibrate \/ WaitSave)
  BY <1>1, <1>4 DEF Running, JoinFetch, JoinDecoders, WaitCalibrate, WaitSave, Stopped
<1>5. CASE Running(CloseEvent)
  <2>1. m_calibration_running \/ m_task_running => fetch # "null"
    BY <1>5 DEF Running, CloseEvent, IInv
  <2>. QED
    BY <1>1, <1>5, <2>1 DEF Running, CloseEvent, BeginStop
<1>6. CASE Running(ToggleCalibrationStartStop)
  <2>1. fetch = "null" \/ m_calibration_running
    BY <1>6 DEF Running, ToggleCalibrationStartStop, Click, IInv, ButtonsFit
  <2>2. m_calibration_running => fetch # "null"
    BY <1>6 DEF Running, ToggleCalibrationStartStop, Click, IInv
  <2>. QED
    BY <1>1, <1>6, <2>1, <2>2 DEF Running, ToggleCalibrationStartStop, BeginStop, StartCalibration
<1>7. CASE Running(ToggleTaskStartStop)
  <2>1. fetch = "null" \/ m_task_running \/ save = "drain"
    BY <1>7 DEF Running, ToggleTaskStartStop, Click, IInv, ButtonsFit
  <2>2. m_task_running => fetch # "null"
    BY <1>7 DEF Running, ToggleTaskStartStop, Click, IInv
  <2>. QED
    BY <1>1, <1>7, <2>1, <2>2 DEF Running, ToggleTaskStartStop, BeginStop, StartTask, Fail
<1>8. CASE Running(SaveCalibration \/ LoadCalibration \/ ClearCalibration \/ Close \/ CloseBox)
  BY <1>1, <1>8 DEF Running, SaveCalibration, LoadCalibration, ClearCalibration, Close, CloseBox
<1>9. CASE Running(ReceiveCalibration \/ Show \/ ErrorMsg)
  BY <1>1, <1>9 DEF Running, ReceiveCalibration, Show, ErrorMsg
<1>10. CASE Running(TaskSavePartComplete)
  <2>1. Take({"complete"}) /\ BeginStop("task", "uncheck")
    BY <1>10 DEF Running, TaskSavePartComplete
  <2>2. /\ Explained(Head(posted)) /\ Head(posted).signal \in {"complete"}
        /\ Head(posted).signal = "complete" /\ ~Head(posted).live => stale'
    BY <2>1, FirstExplained DEF IInv
  <2>3. CASE fetch = "null"
    <3>1. save = "null"
      BY <2>1, <2>3 DEF Take, IInv
    <3>2. stale'
      BY <2>2, <3>1 DEF Explained
    <3>. QED
      BY <2>1, <2>3, <3>2 DEF BeginStop, Fail
  <2>4. CASE fetch # "null"
    BY <1>1, <1>10, <2>1, <2>4 DEF Running, BeginStop
  <2>. QED
    BY <2>3, <2>4
<1>11. CASE Running(Quit)
  <2>1. Take({"quit"}) /\ UNCHANGED save /\ program' = IF NoThreads THEN "ended" ELSE "LIVE_THREAD"
    BY <1>11 DEF Running, Quit
  <2>2. closed
    <3>1. Explained(Head(posted)) /\ Head(posted).signal \in {"quit"}
      BY <2>1, FirstExplained DEF IInv
    <3>. QED
      BY <3>1 DEF Explained
  <2>3. gui = "events" /\ NoFlags /\ calibrate = "null"
    BY <2>1, <2>2 DEF Take, IInv, Closing
  <2>4. NoThreads \/ save = "drain"
    BY <2>3 DEF IInv
  <2>. QED
    BY <2>1, <2>4
<1>. QED
  BY <1>2, <1>3, <1>4, <1>5, <1>6, <1>7, <1>8, <1>9, <1>10, <1>11
  DEF Next, Running, Gui, User, Signals

LEMMA Inductive == IInv /\ [Next]_vars => IInv'
<1> SUFFICES ASSUME IInv, [Next]_vars
             PROVE  IInv'
  OBVIOUS
<1>1. Typed' /\ Phases'
  BY TypedStep, PhasesStep DEF IInv
<1>2. PostedExplained' /\ Closing'
  BY PostedStep, ClosingStep DEF IInv
<1>3. ButtonsFit' /\ Pressed'
  BY ButtonsStep, PressedStep DEF IInv
<1>4. FailuresExplained'
  BY FailuresStep
<1>. QED
  BY <1>1, <1>2, <1>3, <1>4 DEF IInv

LEMMA Invariant == Spec => []IInv
<1>. QED
  BY Initially, Inductive, PTL DEF Spec

-----------------------------------------------------------------------------
(* The program fails only over the threads of a task that has ended by     *)
(* itself, or because a task that has completed is stopped twice.          *)
THEOREM FailuresExplainedCorrect == Spec => []FailuresExplained
<1>1. IInv => FailuresExplained
  BY DEF IInv
<1>. QED
  BY <1>1, Invariant, PTL

(* One kind of work stops before the other starts.                         *)
THEOREM OneKindOfWorkCorrect == Spec => []OneKindOfWork
<1>1. IInv => OneKindOfWork
  BY DEF IInv, OneKindOfWork, Phases, Idle, CalibrationWorks, TaskWorks, CalibrationStops, CalibrationWaits,
            TaskStops, TaskJoins, TaskWaits, Stuck, Free, NoNulls, NoFlags, NoTask, NoThreads
<1>. QED
  BY <1>1, Invariant, PTL

(* Without threads the window is ready for the next start.                 *)
THEOREM BackToRestCorrect == Spec => []BackToRest
<1>1. IInv => BackToRest
  BY DEF IInv, BackToRest, AtRest, ButtonsFit, Pressed, Saving
<1>. QED
  BY <1>1, Invariant, PTL

=============================================================================
