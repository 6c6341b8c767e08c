------------------------------ MODULE DisplayQt -----------------------------
(***************************************************************************)
(* The sender (display_qt/Widget.cpp): two pages, calibration and task,    *)
(* that share one context, a canvas, a timer, and a list of the parts the  *)
(* receiver misses, from a task file or from its status server.  The       *)
(* receiver is there as far as the sender can tell: of what is on the      *)
(* canvas it gets what it gets, it publishes what it misses now and then,  *)
(* it flushes what it got to its task file now and then, and it may be     *)
(* killed and started again at any time.  Layout, labels, frame rates and  *)
(* what is painted are left out; a part is its number, a configuration     *)
(* (symbol type and dimensions) is a model value.                          *)
(***************************************************************************)
EXTENDS Integers, Sequences, SequencesExt, FiniteSets

CONSTANTS
    Files,         \* the files that can be sent
    Configs,       \* the configurations
    PartNumOf,     \* PartNumOf[f][c]: the parts of f, 0 if c's parts are too small
    ReceiverTask,  \* <<file, configuration>> of the running receiver
    Threshold,     \* m_task_status_auto_update_threshold (200)
    SpinDefault,   \* the maximum of a new QSpinBox (99)
    MaxRestarts    \* bound on the number of restarts of the receiver

NoFile == "none"
NoPart == -1
NoStatus == {NoPart}

PartIds(task) == 0 .. PartNumOf[task[1]][task[2]] - 1
Tasks == {t \in Files \X Configs : PartNumOf[t[1]][t[2]] > 0}

ASSUME DisplayQtAssumption ==
    /\ PartNumOf \in [Files -> [Configs -> Nat]]
    /\ ReceiverTask \in Tasks
    /\ Threshold \in Nat /\ SpinDefault \in Nat /\ MaxRestarts \in Nat

VARIABLES
    state,       \* m_context.state, or the failure that ended the program
    attended,    \* the user is there
    tab,         \* the page in front
    tabs,        \* the pages that are enabled
    visible,     \* the pages are not hidden by full screen
    existing,    \* the check box existing_task
    server,      \* a status server is chosen
    autoUpdate,  \* ... and asked at the end of the list
    target,      \* m_target_file_path
    config,      \* symbol type and dimensions of m_context
    m_part_num, m_undone_part_ids, m_cur_undone_part_id_index, m_cur_part_id,
    m_display_mode,
    spin,        \* value and maximum of m_cur_part_id_spin_box
    shown,       \* the part on the canvas
    listed,      \* the task m_undone_part_ids is about
    up,          \* the receiver's status server runs
    missing,     \* what the receiver misses
    unsaved,     \* what it got since it last flushed, which a kill takes away
    published,   \* what it missed when it published
    restarts,    \* how often it was started again
    outdated     \* history: what it took back of what the list could know of

pages == <<tab, tabs, visible>>
setup == <<existing, server, autoUpdate, target, config>>
list == <<m_part_num, m_undone_part_ids, m_cur_undone_part_id_index, listed, outdated>>
position == <<m_cur_part_id, spin, shown>>
receiver == <<up, missing, unsaved, published, restarts>>
vars == <<state, attended, pages, setup, list, position, m_display_mode, receiver>>

(* An assertion that fails, or what it guards against, by its subject:     *)
(* assert(false) in a handler, the number of parts of the list, the task   *)
(* and the undone parts of a status, the undone parts of a task file.      *)
Failures == {"BAD_STATE", "BAD_LIST", "BAD_STATUS", "BAD_FILE"}

TypeOK ==
    /\ state \in {"CONFIG", "CALIBRATE", "DISPLAY"} \cup Failures
    /\ tab \in tabs /\ tabs \subseteq {"calibration", "task"}
    /\ {attended, visible, existing, server, autoUpdate, up} \subseteq BOOLEAN
    /\ target \in Files \cup {NoFile} /\ config \in Configs
    /\ m_part_num \in Nat /\ m_undone_part_ids \in Seq(Nat)
    /\ m_cur_undone_part_id_index \in Nat /\ m_cur_part_id \in Nat
    /\ m_display_mode \in {"MANUAL", "AUTO"}
    /\ spin.value \in 0 .. spin.max
    /\ shown \in Nat \cup {NoPart} /\ listed \in Tasks
    /\ missing \subseteq PartIds(ReceiverTask)
    /\ unsaved \subseteq PartIds(ReceiverTask) /\ outdated \subseteq PartIds(ReceiverTask)
    /\ published \in {NoStatus} \cup SUBSET PartIds(ReceiverTask)
    /\ restarts \in 0 .. MaxRestarts

Init ==
    /\ state = "CONFIG" /\ attended = TRUE
    /\ tab = "calibration" /\ tabs = {"calibration", "task"} /\ visible = TRUE
    /\ existing = FALSE /\ server = FALSE /\ autoUpdate = FALSE
    /\ target = NoFile /\ config \in Configs
    /\ m_part_num = 0 /\ m_undone_part_ids = <<>> /\ m_cur_undone_part_id_index = 0
    /\ m_cur_part_id = 0 /\ m_display_mode = "MANUAL"
    /\ spin = [value |-> 0, max |-> SpinDefault] /\ shown = NoPart
    /\ listed = ReceiverTask
    /\ up = TRUE /\ missing = PartIds(ReceiverTask) /\ unsaved = {}
    /\ published = NoStatus /\ restarts = 0 /\ outdated = {}

Fail(why) == state' = why /\ UNCHANGED <<pages, setup, list, position, m_display_mode, receiver>>

-----------------------------------------------------------------------------
(* The configuration, while nothing is shown.                              *)
Configuring == state = "CONFIG" /\ visible

(* A page that is disabled can be chosen as well.                          *)
MutSelectTab(t) ==
    /\ visible /\ t # tab /\ state \notin Failures
    /\ tab' = t
    /\ UNCHANGED <<state, tabs, visible, setup, list, position, m_display_mode, receiver>>

(* A page is brought to the front.                                         *)
SelectTab(t) ==
    /\ visible /\ t \in tabs \ {tab} /\ state \notin Failures
    /\ tab' = t
    /\ UNCHANGED <<state, tabs, visible, setup, list, position, m_display_mode, receiver>>

OpenTargetFile(f) ==
    /\ Configuring /\ tab = "task"
    /\ target' = f
    /\ UNCHANGED <<state, pages, existing, server, autoUpdate, config, list, position, m_display_mode, receiver>>

ToggleTaskMode ==
    /\ Configuring /\ tab = "task"
    /\ existing' = ~existing
    /\ UNCHANGED <<state, pages, server, autoUpdate, target, config, list, position, m_display_mode, receiver>>

(* The spin boxes of the two pages set each other and the context; those   *)
(* of the task page are disabled for an existing task.                     *)
SetConfig(c) ==
    /\ Configuring /\ (tab = "task" => ~existing)
    /\ c # config /\ config' = c
    /\ UNCHANGED <<state, pages, existing, server, autoUpdate, target, list, position, m_display_mode, receiver>>

SetServer ==
    /\ Configuring /\ tab = "task"
    /\ server' \in BOOLEAN /\ autoUpdate' \in BOOLEAN
    /\ (autoUpdate' # autoUpdate) => server
    /\ UNCHANGED <<state, pages, existing, target, config, list, position, m_display_mode, receiver>>

(* The undone parts in ascending order: the id at place i has i - 1 below. *)
Sorted(ids) ==
    [i \in 1 .. Cardinality(ids) |->
        CHOOSE id \in ids : Cardinality({other \in ids : other < id}) = i - 1]

(* The list is opened, but not the number of parts.                        *)
MutOpenTaskFileKeepsPartNum(t, undone) ==
    /\ Configuring /\ tab = "task" /\ existing
    /\ t = ReceiverTask => missing \cup unsaved \subseteq undone
    /\ IF undone = {} THEN Fail("BAD_FILE") ELSE
       /\ config' = t[2]
       /\ m_undone_part_ids' = Sorted(undone) /\ listed' = t /\ outdated' = {}
       /\ UNCHANGED <<state, pages, existing, server, autoUpdate, target, m_part_num, m_cur_undone_part_id_index,
                      position, m_display_mode, receiver>>

(* A task file of task t, in which the parts in undone are not done; it    *)
(* brings its configuration, not its target file.  A task file of the      *)
(* receiver, old or new, says done of flushed parts only.                  *)
OpenTaskFile(t, undone) ==
    /\ Configuring /\ tab = "task" /\ existing
    /\ t = ReceiverTask => missing \cup unsaved \subseteq undone
    /\ IF undone = {} THEN Fail("BAD_FILE") ELSE
       /\ config' = t[2]
       /\ m_part_num' = PartNumOf[t[1]][t[2]]
       /\ m_undone_part_ids' = Sorted(undone) /\ listed' = t /\ outdated' = {}
       /\ UNCHANGED <<state, pages, existing, server, autoUpdate, target, m_cur_undone_part_id_index,
                      position, m_display_mode, receiver>>

(* The calibration page.                                                   *)
ToggleCalibrationStartStop ==
    /\ visible /\ tab = "calibration"
    /\ \/ /\ state = "CONFIG"
          /\ state' = "CALIBRATE" /\ tabs' = {"calibration"}
       \/ /\ state = "CALIBRATE"
          /\ state' = "CONFIG" /\ tabs' = {"calibration", "task"}
       \/ /\ state = "DISPLAY"
          /\ state' = "BAD_STATE" /\ UNCHANGED tabs
    /\ UNCHANGED <<tab, visible, setup, list, position, m_display_mode, receiver>>

(* Key F.                                                                  *)
ToggleFullScreen ==
    /\ state \in {"DISPLAY", "CALIBRATE"}
    /\ visible' = ~visible
    /\ UNCHANGED <<state, tab, tabs, setup, list, position, m_display_mode, receiver>>

-----------------------------------------------------------------------------
(* The number of the current part: setValue of its spin box, which emits   *)
(* valueChanged, NavigatePart and Draw, when the value changes.            *)
SetValue(pos, v) ==
    LET w == IF v <= pos.spin.max THEN v ELSE pos.spin.max IN
    IF w = pos.spin.value THEN pos
    ELSE [spin |-> [pos.spin EXCEPT !.value = w], cur |-> w, shown |-> w]

SetMaximum(pos, max) ==
    LET p == [pos EXCEPT !.spin.max = max] IN
    IF pos.spin.value <= max THEN p ELSE SetValue(p, max)

Position(cur) == [spin |-> spin, cur |-> cur, shown |-> shown]
MoveTo(pos) == spin' = pos.spin /\ m_cur_part_id' = pos.cur /\ shown' = pos.shown

(* What FetchTaskStatus gets, what it asserts of it (for num parts), and   *)
(* whether the list is left without a first element.                       *)
Status == IF up THEN published ELSE NoStatus
StatusFits(num) == ReceiverTask[2] = config /\ PartNumOf[ReceiverTask[1]][ReceiverTask[2]] = num

(* ToggleTaskStartStop in CONFIG, with a valid configuration: the range of *)
(* the spin box is set after the part to start with.                       *)
StartWith(fetches) ==
    /\ visible /\ tab = "task" /\ state = "CONFIG"
    /\ target # NoFile /\ PartNumOf[target][config] > 0
    /\ LET num == PartNumOf[target][config]
           hasList == m_undone_part_ids # <<>>
           first == Position(IF hasList THEN m_undone_part_ids[1] ELSE 0)
           ids == Sorted(Status)
           asked == IF fetches THEN SetValue([first EXCEPT !.cur = ids[1]], ids[1]) ELSE first
           ranged == SetMaximum(asked, num - 1)
           final == SetValue(ranged, ranged.cur)
       IN IF hasList /\ num # m_part_num THEN Fail("BAD_LIST")
          ELSE IF fetches /\ (~StatusFits(num) \/ Status = {}) THEN Fail("BAD_STATUS")
          ELSE /\ state' = "DISPLAY" /\ tabs' = {"task"}
               /\ m_part_num' = num
               /\ m_undone_part_ids' = IF fetches THEN ids ELSE m_undone_part_ids
               /\ listed' = IF fetches THEN ReceiverTask ELSE listed
               /\ outdated' = IF fetches THEN {} ELSE outdated
               /\ m_cur_undone_part_id_index' = IF hasList \/ fetches THEN 0 ELSE m_cur_undone_part_id_index
               /\ MoveTo([final EXCEPT !.shown = final.cur])
               /\ UNCHANGED <<tab, visible, setup, m_display_mode, receiver>>

(* The client gets nothing when there is nothing or anything goes wrong.   *)
StartTask == \E fetches \in {FALSE, server /\ autoUpdate /\ Status # NoStatus} : StartWith(fetches)

(* ToggleTaskStartStop in DISPLAY, or in CALIBRATE.                        *)
StopTask ==
    /\ visible /\ tab = "task"
    /\ \/ /\ state = "DISPLAY"
          /\ state' = "CONFIG" /\ tabs' = {"calibration", "task"}
          /\ m_display_mode' = "MANUAL" /\ shown' = NoPart
       \/ /\ state = "CALIBRATE"
          /\ state' = "BAD_STATE" /\ UNCHANGED <<tabs, m_display_mode, shown>>
    /\ UNCHANGED <<tab, visible, setup, list, m_cur_part_id, spin, receiver>>

(* The button or the space key.                                            *)
ToggleDisplayMode ==
    /\ state = "DISPLAY"
    /\ m_display_mode' = IF m_display_mode = "MANUAL" THEN "AUTO" ELSE "MANUAL"
    /\ UNCHANGED <<state, pages, setup, list, position, receiver>>

(* The user turns the spin box.                                            *)
SpinTo(p) ==
    /\ state = "DISPLAY" /\ visible /\ p \in 0 .. spin.max
    /\ MoveTo(SetValue(Position(m_cur_part_id), p))
    /\ UNCHANGED <<state, pages, setup, list, m_display_mode, receiver>>

(* The place in the old list is kept.                                      *)
MutTakeStatusKeepsIndex ==
    IF ~StatusFits(m_part_num) \/ Status = {} THEN Fail("BAD_STATUS") ELSE
    /\ m_undone_part_ids' = Sorted(Status) /\ listed' = ReceiverTask /\ outdated' = {}
    /\ MoveTo(SetValue(Position(Sorted(Status)[1]), Sorted(Status)[1]))
    /\ UNCHANGED <<state, pages, setup, m_part_num, m_cur_undone_part_id_index, m_display_mode, receiver>>

(* The part that is shown is taken for received.                           *)
MutTakeStatusWithoutShown ==
    IF ~StatusFits(m_part_num) \/ Status = {} THEN Fail("BAD_STATUS") ELSE
    /\ m_undone_part_ids' = Sorted(Status \ {m_cur_part_id}) /\ listed' = ReceiverTask /\ outdated' = {}
    /\ m_cur_undone_part_id_index' = 0
    /\ MoveTo(SetValue(Position(Sorted(Status)[1]), Sorted(Status)[1]))
    /\ UNCHANGED <<state, pages, setup, m_part_num, m_display_mode, receiver>>

(* FetchTaskStatus while a task is shown.                                  *)
TakeStatus ==
    IF ~StatusFits(m_part_num) \/ Status = {} THEN Fail("BAD_STATUS") ELSE
    /\ m_undone_part_ids' = Sorted(Status) /\ listed' = ReceiverTask /\ outdated' = {}
    /\ m_cur_undone_part_id_index' = 0
    /\ MoveTo(SetValue(Position(Sorted(Status)[1]), Sorted(Status)[1]))
    /\ UNCHANGED <<state, pages, setup, m_part_num, m_display_mode, receiver>>

(* Key T.                                                                  *)
UpdateTaskStatus == state = "DISPLAY" /\ server /\ Status # NoStatus /\ TakeStatus

GoTo(i, part) ==
    /\ m_cur_undone_part_id_index' = i
    /\ MoveTo(SetValue(Position(m_cur_part_id), part))
    /\ UNCHANGED <<state, pages, setup, m_part_num, m_undone_part_ids, listed, outdated, m_display_mode, receiver>>

Length == IF m_undone_part_ids # <<>> THEN Len(m_undone_part_ids) ELSE m_part_num
At == IF m_undone_part_ids # <<>> THEN m_cur_undone_part_id_index ELSE m_cur_part_id

(* The place after place i, or before it, in the list or, without one,     *)
(* among all parts.                                                        *)
GoToPlace(i) ==
    IF m_undone_part_ids # <<>> THEN GoTo(i, m_undone_part_ids[i + 1])
    ELSE GoTo(m_cur_undone_part_id_index, i)

(* At the end of a list longer than the threshold a status is asked for;   *)
(* if there is none, or the client does not get it, the list starts again. *)
CanUpdate ==
    /\ autoUpdate /\ Length > Threshold /\ At = Length - 1
    /\ server /\ Status # NoStatus

(* The list is left when it ends, before its last part.                    *)
MutNavigateNextPartShort ==
    /\ state = "DISPLAY"
    /\ \/ CanUpdate /\ TakeStatus
       \/ GoToPlace(IF At + 1 < Length - 1 THEN At + 1 ELSE 0)

NavigateNextPart ==
    /\ state = "DISPLAY"
    /\ \/ CanUpdate /\ TakeStatus
       \/ GoToPlace(IF At < Length - 1 THEN At + 1 ELSE 0)

NavigatePrevPart ==
    /\ state = "DISPLAY"
    /\ GoToPlace(IF At > 0 THEN At - 1 ELSE Length - 1)

(* The timer of the automatic mode; the same slot as key Right.            *)
Timeout == m_display_mode = "AUTO" /\ NavigateNextPart

-----------------------------------------------------------------------------
(* The receiver gets a part of its task that is on the canvas.             *)
Receive(p) ==
    /\ state = "DISPLAY" /\ <<target, config>> = ReceiverTask
    /\ shown = p /\ p \in missing
    /\ missing' = missing \ {p} /\ unsaved' = unsaved \cup {p}
    /\ UNCHANGED <<state, pages, setup, list, position, m_display_mode, up, published, restarts>>

(* It publishes what it misses, flushed or not ...                         *)
Publish ==
    /\ up /\ published # missing /\ state \notin Failures
    /\ published' = missing
    /\ UNCHANGED <<state, pages, setup, list, position, m_display_mode, up, missing, unsaved, restarts>>

(* ... and it flushes less often, and when it is stopped.                  *)
Flush ==
    /\ unsaved # {} /\ state \notin Failures
    /\ unsaved' = {}
    /\ UNCHANGED <<state, pages, setup, list, position, m_display_mode, up, missing, published, restarts>>

(* Complete, it flushes, and it stops its server.                          *)
ServerStops ==
    /\ up /\ missing = {} /\ unsaved = {} /\ state \notin Failures
    /\ up' = FALSE
    /\ UNCHANGED <<state, pages, setup, list, position, m_display_mode, missing, unsaved, published, restarts>>

(* The list is about the receiver's task.                                  *)
OfReceiver == m_undone_part_ids # <<>> /\ listed = ReceiverTask

(* The parts that a kill takes back after they were published as done.     *)
Unkept == IF published = NoStatus THEN {} ELSE unsaved \ published

(* It is stopped or killed, and started again on its task file; in between *)
(* it answers as one that has published nothing.                           *)
Restart ==
    /\ up /\ restarts < MaxRestarts /\ state \notin Failures
    /\ missing' = missing \cup unsaved /\ unsaved' = {}
    /\ published' = NoStatus /\ restarts' = restarts + 1
    /\ outdated' = IF OfReceiver THEN outdated \cup Unkept ELSE outdated
    /\ UNCHANGED <<state, pages, setup, m_part_num, m_undone_part_ids, m_cur_undone_part_id_index, listed,
                   position, m_display_mode, up>>

-----------------------------------------------------------------------------
User ==
    \/ \E t \in {"calibration", "task"} : SelectTab(t)
    \/ \E f \in Files : OpenTargetFile(f)
    \/ ToggleTaskMode
    \/ \E c \in Configs : SetConfig(c)
    \/ SetServer
    \/ \E t \in Tasks : \E undone \in SUBSET PartIds(t) : OpenTaskFile(t, undone)
    \/ ToggleCalibrationStartStop \/ ToggleFullScreen
    \/ StartTask \/ StopTask \/ ToggleDisplayMode
    \/ \E p \in 0 .. spin.max : SpinTo(p)
    \/ UpdateTaskStatus \/ NavigatePrevPart
    \/ m_display_mode = "MANUAL" /\ NavigateNextPart

Receiver ==
    \/ \E p \in PartIds(ReceiverTask) : Receive(p)
    \/ Publish \/ Flush \/ ServerStops \/ Restart

(* The user leaves it to itself.                                           *)
LetRun ==
    /\ attended /\ attended' = FALSE
    /\ UNCHANGED <<state, pages, setup, list, position, m_display_mode, receiver>>

Next ==
    \/ (attended /\ User) /\ UNCHANGED attended
    \/ (Timeout \/ Receiver) /\ UNCHANGED attended
    \/ LetRun

Spec == Init /\ [][Next]_vars

(* The timer ticks and the receiver publishes; a part that is shown again  *)
(* and again is received, and a status that is asked for again and again   *)
(* is got.                                                                 *)
Refresh == state = "DISPLAY" /\ m_display_mode = "AUTO" /\ CanUpdate /\ TakeStatus

FairSpec ==
    /\ Spec /\ WF_vars(Timeout /\ UNCHANGED attended) /\ WF_vars(Publish /\ UNCHANGED attended)
    /\ SF_vars(Refresh /\ UNCHANGED attended)
    /\ \A p \in PartIds(ReceiverTask) : SF_vars(Receive(p) /\ UNCHANGED attended)

-----------------------------------------------------------------------------
(* While a task is shown, the list, the spin box, the current part and the *)
(* canvas agree, and Draw stays inside the bytes of the target file:       *)
(* whatever was shown before, with another file, list or configuration.    *)
(* The part need not be in the list: one to start with that is beyond the  *)
(* spin box's old maximum is cut to it.                                    *)
Shown ==
    state = "DISPLAY" =>
        /\ m_part_num = PartNumOf[target][config]
        /\ spin = [value |-> m_cur_part_id, max |-> m_part_num - 1]
        /\ shown = m_cur_part_id
        /\ \A i \in DOMAIN m_undone_part_ids : m_undone_part_ids[i] < m_part_num
        /\ m_undone_part_ids # <<>> => m_cur_undone_part_id_index < Len(m_undone_part_ids)

(* A list about the receiver's task, from its task file or from a status,  *)
(* however old, has every part the receiver misses, but for those that it  *)
(* had published as done and not flushed when it was killed, since then.   *)
NothingSkipped == OfReceiver => missing \ outdated \subseteq ToSet(m_undone_part_ids)

(* A program that fails was started with a list about another task, which  *)
(* nothing clears, or got the status of another task, or one that says     *)
(* everything is done.  The handlers' assertions about the state hold: no  *)
(* button can be pressed in the state of the other page.                   *)
FailuresExplained ==
    /\ state # "BAD_STATE"
    /\ state = "BAD_LIST" => listed # <<target, config>>
    /\ state = "BAD_STATUS" => published = {} \/ ReceiverTask # <<target, config>>

(* The receiver gets every part of a file that is shown in automatic mode  *)
(* with no list or a list of its own, if the user lets it run, also over   *)
(* kills of the receiver; unless the list leaves out a part it lost in one *)
(* and is never refreshed, for it is too short, or no server is asked.     *)
Serving ==
    /\ state = "DISPLAY" /\ m_display_mode = "AUTO" /\ <<target, config>> = ReceiverTask
    /\ m_undone_part_ids = <<>> \/ OfReceiver

LeftOut == m_undone_part_ids # <<>> /\ ~(missing \subseteq ToSet(m_undone_part_ids))
Refreshes == server /\ autoUpdate /\ Length > Threshold

Delivered == ~attended /\ Serving ~> missing = {} \/ (LeftOut /\ ~Refreshes)
=============================================================================
