----------------------------- MODULE QtReceiver -----------------------------
(***************************************************************************)
(* The receiver with a window (decode_image_stream_qt/Widget.cpp): buttons *)
(* start and stop the threads of a calibration or of a task, the threads   *)
(* send signals that are queued for the GUI thread, and SavePartWorker     *)
(* (image_decode_worker.cpp) ends a task by itself.  What the threads do   *)
(* with frames is DecodePipeline's business: here they run until they see  *)
(* their flag or their null.  The decoders, the result and the transform   *)
(* thread start and stop together and are one.                             *)
(***************************************************************************)
EXTENDS Naturals, Sequences

CONSTANT MaxPosted  \* signals that wait, but for Quit

ASSUME QtReceiverAssumption == MaxPosted \in Nat

VARIABLES
    program,   \* "runs", "ended", or how it failed
    gui,       \* where the GUI thread is; "events": in an event loop
    handler,   \* what it stops, and what the handler does after that
    box,       \* the error message is shown; its event loop is nested
    closed,    \* the window is closed
    posted,    \* the signals that wait; live: their thread is not reset
    stale,     \* a complete was handled after its task had been stopped
    enabled,   \* the buttons that can be pressed
    checked,   \* the task button's state
    label,     \* the status shows something
    valid,     \* m_calibration.valid
    upset,     \* ... and it changed while nothing was done to the buttons
    file,      \* the calibration file; an earlier session may have left it
    m_calibration_running, m_task_running,
    fetch,     \* m_fetch_image_thread: null, ended, or the flag it reads
    calibrate, \* m_calibrate_thread
    decoders,  \* m_decode_image_threads and the two that watch with them
    save,      \* m_save_part_thread
    frame_null, part_null  \* PushNull was called and the nulls are not taken

window == <<box, closed, enabled, checked, label>>
calibration == <<valid, upset, file>>
flags == <<m_calibration_running, m_task_running>>
threads == <<fetch, calibrate, decoders, save, frame_null, part_null>>
signals == <<posted, stale>>
vars == <<program, gui, handler, window, signals, calibration, flags, threads>>

Buttons == {"calibrate", "save", "load", "clear", "task", "server"}

Init ==
    /\ program = "runs" /\ gui = "events" /\ handler = [stop |-> "task", after |-> "return"]
    /\ box = FALSE /\ closed = FALSE /\ posted = <<>> /\ stale = FALSE
    /\ enabled = Buttons \ {"save", "clear"} /\ checked = FALSE /\ label = FALSE
    /\ valid = FALSE /\ upset = FALSE /\ file \in {"none", "valid", "invalid"}
    /\ m_calibration_running = FALSE /\ m_task_running = FALSE
    /\ fetch = "null" /\ calibrate = "null" /\ decoders = "null" /\ save = "null"
    /\ frame_null = FALSE /\ part_null = FALSE

NoThreads == fetch = "null" /\ calibrate = "null" /\ decoders = "null" /\ save = "null"

Emitted(sigs) == posted' = posted \o [i \in DOMAIN sigs |-> [signal |-> sigs[i], live |-> TRUE]]

Room(n) == Len(posted) + n <= MaxPosted

-----------------------------------------------------------------------------
(* The threads.                                                            *)

(* FetchImageWorker reads the flag it was started with.                    *)
FetchEnds ==
    /\ \/ fetch = "calibration" /\ ~m_calibration_running
       \/ fetch = "task" /\ ~m_task_running
    /\ fetch' = "ended"
    /\ UNCHANGED <<program, gui, handler, window, signals, calibration, flags, calibrate, decoders, save,
                   frame_null, part_null>>

(* CalibrateWorker: a frame makes a calibration, which may be invalid.     *)
CalibrateResult ==
    /\ calibrate = "running" /\ Room(2)
    /\ \E v \in {"valid", "invalid"} : Emitted(<<v, "result">>)
    /\ UNCHANGED <<program, gui, handler, window, stale, calibration, flags, threads>>

CalibrateEnds ==
    /\ calibrate = "running" /\ frame_null
    /\ calibrate' = "ended" /\ frame_null' = FALSE
    /\ UNCHANGED <<program, gui, handler, window, signals, calibration, flags, fetch, decoders, save, part_null>>

(* DecodeResultWorker shows what it decodes.                               *)
DecodeResult ==
    /\ decoders = "running" /\ Room(1)
    /\ Emitted(<<"result">>)
    /\ UNCHANGED <<program, gui, handler, window, stale, calibration, flags, threads>>

DecodersEnd ==
    /\ decoders = "running" /\ frame_null
    /\ decoders' = "ended" /\ frame_null' = FALSE
    /\ UNCHANGED <<program, gui, handler, window, signals, calibration, flags, fetch, calibrate, save, part_null>>

(* SavePartWorker: it accepts the task; reports progress; refuses the task *)
(* or completes it, which it signals before it clears the flag and drops   *)
(* what comes until the null.                                              *)
SaveStep(from, to, sigs) ==
    /\ save = from /\ save' = to
    /\ Room(Len(sigs)) /\ Emitted(sigs)
    /\ UNCHANGED <<program, gui, handler, window, stale, calibration, m_calibration_running,
                   fetch, calibrate, decoders, frame_null>>

SaveLoads == SaveStep("load", "work", <<>>) /\ UNCHANGED <<m_task_running, part_null>>
SaveRefuses == SaveStep("load", "emitted", <<"error">>) /\ UNCHANGED <<m_task_running, part_null>>
SaveProgress == SaveStep("work", "work", <<"progress">>) /\ UNCHANGED <<m_task_running, part_null>>
SaveCompletes == SaveStep("work", "emitted", <<"complete">>) /\ UNCHANGED <<m_task_running, part_null>>
SaveClearsFlag == SaveStep("emitted", "drain", <<>>) /\ m_task_running' = FALSE /\ UNCHANGED part_null
SaveEnds ==
    /\ part_null /\ part_null' = FALSE
    /\ SaveStep("work", "ended", <<>>) \/ SaveStep("drain", "ended", <<>>)
    /\ UNCHANGED m_task_running

Threads ==
    FetchEnds \/ CalibrateResult \/ CalibrateEnds \/ DecodeResult \/ DecodersEnd
    \/ SaveLoads \/ SaveRefuses \/ SaveProgress \/ SaveCompletes \/ SaveClearsFlag \/ SaveEnds

-----------------------------------------------------------------------------
(* The GUI thread.                                                         *)
Fail(why) ==
    /\ program' = why
    /\ UNCHANGED <<gui, handler, box, closed, enabled, label, calibration, flags, threads>>

(* A std::thread that is joinable is replaced: std::terminate.             *)
StartCalibration ==
    IF fetch # "null" THEN Fail("LIVE_THREAD") ELSE
    /\ enabled' = enabled \ {"task", "save", "load", "clear"}
    /\ m_calibration_running' = TRUE /\ upset' = FALSE
    /\ fetch' = "calibration" /\ calibrate' = "running"
    /\ UNCHANGED <<program, gui, handler, box, closed, label, valid, file, m_task_running, decoders, save,
                   frame_null, part_null>>

StartTask ==
    IF fetch # "null" THEN Fail("LIVE_THREAD") ELSE
    /\ enabled' = enabled \ {"calibrate", "save", "load", "clear", "server"}
    /\ m_task_running' = TRUE /\ upset' = FALSE
    /\ fetch' = "task" /\ decoders' = "running" /\ save' = "load"
    /\ UNCHANGED <<program, gui, handler, box, closed, label, valid, file, m_calibration_running, calibrate,
                   frame_null, part_null>>

(* StopCalibration or StopTask up to the join of the fetch thread, which   *)
(* there must be; kind says which.                                         *)
BeginStop(kind, after) ==
    IF fetch = "null" THEN Fail("NULL_THREAD") ELSE
    /\ gui' = "joinFetch" /\ handler' = [stop |-> kind, after |-> after]
    /\ IF kind = "calibration"
       THEN m_calibration_running' = FALSE /\ UNCHANGED m_task_running
       ELSE m_task_running' = FALSE /\ UNCHANGED m_calibration_running
    /\ UNCHANGED <<program, box, closed, enabled, label, calibration, threads>>

(* Nothing tells the consumers of m_frame_q that no frame comes.           *)
MutJoinFetchWithoutNull ==
    /\ gui = "joinFetch" /\ fetch = "ended"
    /\ fetch' = "null"
    /\ gui' = IF handler.stop = "calibration" THEN "waitCalibrate" ELSE "joinDecoders"
    /\ UNCHANGED <<program, handler, window, signals, calibration, flags, calibrate, decoders, save, frame_null, part_null>>

JoinFetch ==
    /\ gui = "joinFetch" /\ fetch = "ended"
    /\ fetch' = "null" /\ frame_null' = TRUE
    /\ gui' = IF handler.stop = "calibration" THEN "waitCalibrate" ELSE "joinDecoders"
    /\ UNCHANGED <<program, handler, window, signals, calibration, flags, calibrate, decoders, save, part_null>>

JoinDecoders ==
    /\ gui = "joinDecoders" /\ decoders = "ended"
    /\ decoders' = "null" /\ part_null' = TRUE
    /\ gui' = "waitSave"
    /\ UNCHANGED <<program, handler, window, signals, calibration, flags, fetch, calibrate, save, frame_null>>

(* The rest of the two functions and of their callers; buttons are those   *)
(* enabled in any case.  What was signalled and not handled stays posted.  *)
Stopped(buttons) ==
    /\ enabled' = enabled \cup buttons \cup (IF valid THEN {"save", "clear"} ELSE {})
    /\ label' = FALSE
    /\ posted' = [i \in DOMAIN posted |-> [posted[i] EXCEPT !.live = FALSE]]
    /\ gui' = IF handler.after = "close" THEN "closing" ELSE "events"
    /\ checked' = (checked /\ handler.after # "uncheck")
    /\ UNCHANGED <<program, handler, box, closed, stale, calibration, flags, fetch, decoders, frame_null, part_null>>

(* quit is taken for the end of the thread.                                *)
MutWaitCalibrateOnlyQuits ==
    /\ gui = "waitCalibrate"
    /\ Stopped({"task", "load"}) /\ UNCHANGED <<calibrate, save>>

WaitCalibrate ==
    /\ gui = "waitCalibrate" /\ calibrate = "ended"
    /\ calibrate' = "null" /\ Stopped({"task", "load"}) /\ UNCHANGED save

WaitSave ==
    /\ gui = "waitSave" /\ save = "ended"
    /\ save' = "null" /\ Stopped({"calibrate", "load", "server"}) /\ UNCHANGED calibrate

(* The window closes over a calibration.                                   *)
MutCloseEventLeavesCalibration ==
    /\ gui = "closing"
    /\ IF m_task_running THEN BeginStop("task", "close") /\ UNCHANGED <<posted, stale, checked>>
       ELSE /\ gui' = "events" /\ closed' = TRUE /\ Emitted(<<"quit">>)
            /\ UNCHANGED <<program, handler, box, enabled, checked, label, stale, calibration, flags, threads>>

(* closeEvent; the last window that is closed posts a Quit event.          *)
CloseEvent ==
    /\ gui = "closing"
    /\ \/ m_calibration_running /\ BeginStop("calibration", "close") /\ UNCHANGED <<posted, stale, checked>>
       \/ ~m_calibration_running /\ m_task_running /\ BeginStop("task", "close") /\ UNCHANGED <<posted, stale, checked>>
       \/ /\ ~m_calibration_running /\ ~m_task_running
          /\ gui' = "events" /\ closed' = TRUE /\ Emitted(<<"quit">>)
          /\ UNCHANGED <<program, handler, box, enabled, checked, label, stale, calibration, flags, threads>>

-----------------------------------------------------------------------------
(* The user.                                                               *)
Click(button) == gui = "events" /\ ~box /\ ~closed /\ button \in enabled

ToggleCalibrationStartStop ==
    /\ Click("calibrate")
    /\ IF m_calibration_running THEN BeginStop("calibration", "return") ELSE StartCalibration
    /\ UNCHANGED <<checked, signals>>

ToggleTaskStartStop ==
    /\ Click("task")
    /\ checked' = ~checked
    /\ IF m_task_running THEN BeginStop("task", "return") ELSE StartTask
    /\ UNCHANGED signals

SaveCalibration ==
    /\ Click("save")
    /\ file' = IF valid THEN "valid" ELSE "invalid"
    /\ UNCHANGED <<program, gui, handler, window, signals, valid, upset, flags, threads>>

LoadCalibration ==
    /\ Click("load") /\ file # "none"
    /\ valid' = (file = "valid")
    /\ enabled' = IF valid' THEN enabled \cup {"save", "clear"} ELSE enabled
    /\ upset' = (~valid' /\ (valid \/ upset))
    /\ UNCHANGED <<program, gui, handler, box, closed, checked, label, signals, file, flags, threads>>

ClearCalibration ==
    /\ Click("clear")
    /\ valid' = FALSE /\ upset' = FALSE /\ enabled' = enabled \ {"save", "clear"}
    /\ UNCHANGED <<program, gui, handler, box, closed, checked, label, signals, file, flags, threads>>

Close ==
    /\ gui = "events" /\ ~box /\ ~closed
    /\ gui' = "closing"
    /\ UNCHANGED <<program, handler, window, signals, calibration, flags, threads>>

(* The end of ErrorMsg, when the user has read it.                         *)
CloseBox ==
    /\ gui = "events" /\ box
    /\ box' = FALSE /\ gui' = "closing"
    /\ UNCHANGED <<program, handler, closed, enabled, checked, label, signals, calibration, flags, threads>>

User ==
    ToggleCalibrationStartStop \/ ToggleTaskStartStop \/ SaveCalibration \/ LoadCalibration \/ ClearCalibration
    \/ Close

-----------------------------------------------------------------------------
(* The signals, in the order in which they were sent.                      *)
Take(kinds) ==
    /\ gui = "events" /\ posted # <<>> /\ Head(posted).signal \in kinds
    /\ posted' = Tail(posted)
    /\ stale' = (stale \/ (Head(posted).signal = "complete" /\ ~Head(posted).live))

ReceiveCalibration ==
    /\ Take({"valid", "invalid"})
    /\ valid' = (Head(posted).signal = "valid")
    /\ upset' = (upset \/ NoThreads)
    /\ UNCHANGED <<program, gui, handler, window, file, flags, threads>>

(* What comes after the stop is shown.                                     *)
MutShowLate ==
    /\ Take({"result", "progress"})
    /\ label' = TRUE
    /\ UNCHANGED <<program, gui, handler, box, closed, enabled, checked, calibration, flags, threads>>

(* ShowResult and ShowTaskSavePartProgress.                                *)
Show ==
    /\ Take({"result", "progress"})
    /\ label' = (label \/ m_task_running \/ (Head(posted).signal = "result" /\ m_calibration_running))
    /\ UNCHANGED <<program, gui, handler, box, closed, enabled, checked, calibration, flags, threads>>

TaskSavePartComplete ==
    /\ Take({"complete"})
    /\ BeginStop("task", "uncheck") /\ UNCHANGED checked

ErrorMsg ==
    /\ Take({"error"})
    /\ box' = TRUE
    /\ UNCHANGED <<program, gui, handler, closed, enabled, checked, label, calibration, flags, threads>>

(* exec returns and the widget is destroyed with what is left of its       *)
(* threads: std::terminate for one that is joinable, qFatal for a QThread  *)
(* that runs.                                                              *)
Quit ==
    /\ Take({"quit"})
    /\ program' = IF NoThreads THEN "ended" ELSE "LIVE_THREAD"
    /\ UNCHANGED <<gui, handler, window, calibration, flags, threads>>

Signals == ReceiveCalibration \/ Show \/ TaskSavePartComplete \/ ErrorMsg \/ Quit
Gui == JoinFetch \/ JoinDecoders \/ WaitCalibrate \/ WaitSave \/ CloseEvent \/ Signals

-----------------------------------------------------------------------------
Running(A) == program = "runs" /\ A

Next == Running(Threads \/ Gui \/ User \/ CloseBox)

Spec == Init /\ [][Next]_vars

(* The threads end when they are told to, the GUI thread runs, and the     *)
(* user confirms the error message.                                        *)
FairSpec ==
    /\ Spec
    /\ WF_vars(Running(FetchEnds)) /\ WF_vars(Running(CalibrateEnds)) /\ WF_vars(Running(DecodersEnd))
    /\ WF_vars(Running(SaveLoads \/ SaveClearsFlag \/ SaveEnds))
    /\ WF_vars(Running(Gui)) /\ WF_vars(Running(CloseBox))

-----------------------------------------------------------------------------
(* The program fails only in two ways.  The threads of a task that has     *)
(* ended by itself are replaced or destroyed before its signal is handled, *)
(* or in place of it: after an error nothing stops them.  Or a task that   *)
(* completes while it is being stopped is stopped again.                   *)
FailuresExplained ==
    /\ program = "LIVE_THREAD" => save = "drain"
    /\ program = "NULL_THREAD" => stale

(* A calibration and a task never share m_frame_q: whatever is pressed,    *)
(* signalled or left over, one stops before the other starts.              *)
OneKindOfWork ==
    /\ ~(m_calibration_running /\ m_task_running)
    /\ calibrate # "null" => decoders = "null" /\ save = "null"

(* Without threads the window is ready for the next start: the buttons fit *)
(* the calibration, none is left pressed, and no result or progress that   *)
(* comes late is shown.  Only a calibration that comes while nothing runs, *)
(* or an invalid one that is loaded over a valid one, upsets the buttons,  *)
(* until the next start, a valid file or ClearCalibration.                 *)
AtRest == gui = "events" /\ NoThreads

BackToRest ==
    AtRest /\ ~closed =>
        /\ enabled \in {Buttons, Buttons \ {"save", "clear"}}
        /\ ~upset => ("save" \in enabled <=> valid)
        /\ ~checked /\ ~label

(* A stop returns, and a task that has ended by itself is stopped, unless  *)
(* the program fails, or a stale signal of a task stops a calibration:     *)
(* its flag is never cleared and the GUI waits for ever.                   *)
Settles ==
    gui # "events" \/ save \in {"emitted", "drain"}
        ~> AtRest \/ program # "runs" \/ stale
=============================================================================
