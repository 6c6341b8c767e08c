--------------------------- MODULE DecodePipeline ---------------------------
(***************************************************************************)
(* The threads of a receiver and the two queues between them: App::Start   *)
(* and App::Stop of decode_image_stream.cpp (Widget::StartTask and         *)
(* StopTask of the Qt receiver follow the same protocol) and the worker    *)
(* loops of image_decode_worker.cpp.                                       *)
(*                                                                         *)
(*   fetch --frame_q--> decoders, result, auto --part_q--> save            *)
(*                                                                         *)
(* The decoders pop frames.  result (DecodeResultWorker) and auto          *)
(* (AutoTransformWorker) only look at the head of frame_q, and pop the     *)
(* null that ends them.  What is decoded is left out: a frame is "frame",  *)
(* whatever Decode returns, success or failure, is "result".  Whether the  *)
(* task is refused, or done after a result, is save's free choice here;    *)
(* DecodeTask.tla decides it.                                              *)
(***************************************************************************)
EXTENDS Naturals, Sequences, FiniteSets

CONSTANTS
    Decoders,  \* the mp DecodeImageWorker threads
    FrameMax,  \* bound of frame_q (128 in the source)
    PartMax    \* bound of part_q (128 in the source)

Watchers == {"result", "auto"}
Workers == Decoders \cup Watchers
AllThreads == Workers \cup {"fetch", "save", "main"}

(* At least one thread pops frames, and frame_q holds more frames than     *)
(* there are threads that call Front (see ThreadSafeQueue!NoMutualWait).   *)
ASSUME PipelineAssumption ==
    /\ IsFiniteSet(Decoders) /\ Decoders # {}
    /\ Decoders \cap {"result", "auto", "fetch", "save", "main"} = {}
    /\ FrameMax \in Nat /\ FrameMax > 2
    /\ PartMax \in Nat \ {0}

VARIABLES
    running,  \* the atomic flag shared by fetch, save and main
    pc,       \* pc[t] : where thread t is between two calls on the queues
    nulls,    \* nulls main has still to push to frame_q
    frame_q, frame_op, frame_item, frame_in, frame_out,
    part_q, part_op, part_item, part_in, part_out

frameVars == <<frame_q, frame_op, frame_item, frame_in, frame_out>>
partVars == <<part_q, part_op, part_item, part_in, part_out>>
vars == <<running, pc, nulls, frameVars, partVars>>

FrameQ == INSTANCE ThreadSafeQueue WITH
    Pushers <- {"fetch", "main"}, Poppers <- Decoders, Peekers <- Watchers,
    Items <- {"frame"}, Null <- "null", MaxSize <- FrameMax,
    m_queue <- frame_q, op <- frame_op, item <- frame_item,
    cv_in <- frame_in, cv_out <- frame_out

PartQ == INSTANCE ThreadSafeQueue WITH
    Pushers <- Workers \cup {"main"}, Poppers <- {"save"}, Peekers <- {},
    Items <- {"result"}, Null <- "null", MaxSize <- PartMax,
    m_queue <- part_q, op <- part_op, item <- part_item,
    cv_in <- part_in, cv_out <- part_out

TypeOK ==
    /\ running \in BOOLEAN
    /\ pc \in [AllThreads ->
          {"exited", "grabbing", "popping", "peeking", "taking", "pushing",
           "opening", "saving", "draining", "running", "joining_fetch",
           "pushing_nulls", "joining_workers", "joining_save", "stopped"}]
    /\ nulls \in 0 .. Cardinality(Workers)
    /\ FrameQ!TypeOK
    /\ PartQ!TypeOK

Goto(t, l) == pc' = [pc EXCEPT ![t] = l]

(* The thread has returned from its last call on the queue.                *)
FrameReturned(t) == frame_op[t] = "returned"
PartReturned(t) == part_op[t] = "returned"

Init ==
    /\ running = FALSE
    /\ pc = [t \in AllThreads |-> IF t = "main" THEN "stopped" ELSE "exited"]
    /\ nulls = 0
    /\ FrameQ!Init
    /\ PartQ!Init

-----------------------------------------------------------------------------
(* FetchImageWorker.  A stream that ends is created again, which touches   *)
(* nothing the other threads see; running is tested before every GetFrame. *)

FetchFrame ==
    /\ pc["fetch"] = "grabbing"
    /\ FrameReturned("fetch")
    /\ IF running
       THEN FrameQ!CallPush("fetch", "frame") /\ UNCHANGED pc
       ELSE Goto("fetch", "exited") /\ UNCHANGED frameVars
    /\ UNCHANGED <<running, nulls, partVars>>

-----------------------------------------------------------------------------
(* DecodeImageWorker.                                                      *)

Decode(d) ==
    /\ pc[d] = "popping"
    /\ FrameReturned(d)
    /\ \/ /\ frame_item[d] = "null"
          /\ Goto(d, "exited")
          /\ UNCHANGED partVars
       \/ /\ frame_item[d] = "frame"
          /\ Goto(d, "pushing")
          /\ PartQ!CallPush(d, "result")
    /\ UNCHANGED <<running, nulls, frameVars>>

NextFrame(d) ==
    /\ pc[d] = "pushing"
    /\ PartReturned(d)
    /\ Goto(d, "popping")
    /\ FrameQ!CallPop(d)
    /\ UNCHANGED <<running, nulls, partVars>>

-----------------------------------------------------------------------------
(* DecodeResultWorker and AutoTransformWorker: each result comes from a    *)
(* copy of the head of frame_q.  AutoTransformWorker emplaces exactly one  *)
(* result for the eight thresholds it tries.                               *)

Watch(w) ==
    /\ pc[w] = "peeking"
    /\ FrameReturned(w)
    /\ \/ /\ frame_item[w] = "null"
          /\ Goto(w, "taking")
          /\ FrameQ!CallPop(w)
          /\ UNCHANGED partVars
       \/ /\ frame_item[w] = "frame"
          /\ Goto(w, "pushing")
          /\ PartQ!CallPush(w, "result")
          /\ UNCHANGED frameVars
    /\ UNCHANGED <<running, nulls>>

WatchNext(w) ==
    /\ pc[w] = "pushing"
    /\ PartReturned(w)
    /\ Goto(w, "peeking")
    /\ FrameQ!CallFront(w)
    /\ UNCHANGED <<running, nulls, partVars>>

WatchExit(w) ==
    /\ pc[w] = "taking"
    /\ FrameReturned(w)
    /\ Goto(w, "exited")
    /\ UNCHANGED <<running, nulls, frameVars, partVars>>

-----------------------------------------------------------------------------
(* SavePartWorker: it refuses the task or opens it, pops results, and once *)
(* it has refused or finished it clears running and drains part_q.         *)

MutSaveNoDrain ==
    /\ pc["save"] = "opening"
    /\ \/ Goto("save", "saving") /\ UNCHANGED running /\ PartQ!CallPop("save")
       \/ Goto("save", "exited") /\ running' = FALSE /\ UNCHANGED partVars
    /\ UNCHANGED <<nulls, frameVars>>

SaveOpen ==
    /\ pc["save"] = "opening"
    /\ \/ Goto("save", "saving") /\ UNCHANGED running
       \/ Goto("save", "draining") /\ running' = FALSE
    /\ PartQ!CallPop("save")
    /\ UNCHANGED <<nulls, frameVars>>

SaveExit ==
    /\ pc["save"] \in {"saving", "draining"}
    /\ PartReturned("save")
    /\ part_item["save"] = "null"
    /\ Goto("save", "exited")
    /\ UNCHANGED <<running, nulls, frameVars, partVars>>

MutSaveGivesUp ==
    /\ pc["save"] \in {"saving", "draining"}
    /\ PartReturned("save")
    /\ part_item["save"] = "result"
    /\ Goto("save", "exited")
    /\ UNCHANGED <<running, nulls, frameVars, partVars>>

SaveResult ==
    /\ pc["save"] \in {"saving", "draining"}
    /\ PartReturned("save")
    /\ part_item["save"] = "result"
    /\ \/ UNCHANGED <<pc, running>>
       \/ /\ pc["save"] = "saving"
          /\ Goto("save", "draining")
          /\ running' = FALSE
    /\ PartQ!CallPop("save")
    /\ UNCHANGED <<nulls, frameVars>>

-----------------------------------------------------------------------------
(* main: App::Start, the polling loop, App::Stop.                          *)

Start ==
    /\ pc["main"] = "stopped"
    /\ running' = TRUE
    /\ pc' = [t \in AllThreads |->
                CASE t \in Decoders -> "popping"
                  [] t \in Watchers -> "peeking"
                  [] t = "fetch"    -> "grabbing"
                  [] t = "save"     -> "opening"
                  [] t = "main"     -> "running"]
    /\ frame_op' = [t \in DOMAIN frame_op |->
                      CASE t \in Decoders -> "pop"
                        [] t \in Watchers -> "front"
                        [] OTHER          -> "returned"]
    /\ frame_item' = [t \in DOMAIN frame_item |-> "null"]
    /\ UNCHANGED <<nulls, frame_q, frame_in, frame_out, partVars>>

(* The polling loop ends when running is cleared or the user asks.         *)
LeaveLoop ==
    /\ pc["main"] = "running"
    /\ running' = FALSE
    /\ Goto("main", "joining_fetch")
    /\ UNCHANGED <<nulls, frameVars, partVars>>

MutNoJoinFetch ==
    /\ pc["main"] = "joining_fetch"
    /\ Goto("main", "pushing_nulls")
    /\ nulls' = Cardinality(Workers)
    /\ UNCHANGED <<running, frameVars, partVars>>

MutNullsForDecodersOnly ==
    /\ pc["main"] = "joining_fetch"
    /\ pc["fetch"] = "exited"
    /\ Goto("main", "pushing_nulls")
    /\ nulls' = Cardinality(Decoders)
    /\ UNCHANGED <<running, frameVars, partVars>>

MutOneNullTooMany ==
    /\ pc["main"] = "joining_fetch"
    /\ pc["fetch"] = "exited"
    /\ Goto("main", "pushing_nulls")
    /\ nulls' = Cardinality(Workers) + 1
    /\ UNCHANGED <<running, frameVars, partVars>>

JoinFetch ==
    /\ pc["main"] = "joining_fetch"
    /\ pc["fetch"] = "exited"
    /\ Goto("main", "pushing_nulls")
    /\ nulls' = Cardinality(Workers)
    /\ UNCHANGED <<running, frameVars, partVars>>

PushNull ==
    /\ pc["main"] = "pushing_nulls"
    /\ FrameReturned("main")
    /\ \/ /\ nulls > 0
          /\ nulls' = nulls - 1
          /\ FrameQ!CallPush("main", "null")
          /\ UNCHANGED pc
       \/ /\ nulls = 0
          /\ Goto("main", "joining_workers")
          /\ UNCHANGED <<nulls, frameVars>>
    /\ UNCHANGED <<running, partVars>>

JoinWorkers ==
    /\ pc["main"] = "joining_workers"
    /\ \A w \in Workers : pc[w] = "exited"
    /\ Goto("main", "joining_save")
    /\ PartQ!CallPush("main", "null")
    /\ UNCHANGED <<running, nulls, frameVars>>

JoinSave ==
    /\ pc["main"] = "joining_save"
    /\ PartReturned("main")
    /\ pc["save"] = "exited"
    /\ Goto("main", "stopped")
    /\ UNCHANGED <<running, nulls, frameVars, partVars>>

-----------------------------------------------------------------------------

FrameSection(t) ==
    /\ t \in FrameQ!Threads
    /\ FrameQ!Section(t)
    /\ UNCHANGED <<running, pc, nulls, partVars>>

PartSection(t) ==
    /\ t \in PartQ!Threads
    /\ PartQ!Section(t)
    /\ UNCHANGED <<running, pc, nulls, frameVars>>

SpuriousWakeup(t) ==
    /\ \/ FrameQ!SpuriousWakeup(t) /\ UNCHANGED partVars
       \/ PartQ!SpuriousWakeup(t) /\ UNCHANGED frameVars
    /\ UNCHANGED <<running, pc, nulls>>

FetchStep == FetchFrame
DecoderStep(d) == Decode(d) \/ NextFrame(d)
WatcherStep(w) == Watch(w) \/ WatchNext(w) \/ WatchExit(w)
SaveStep == SaveOpen \/ SaveExit \/ SaveResult
StopStep == JoinFetch \/ PushNull \/ JoinWorkers \/ JoinSave

Next ==
    \/ FetchStep
    \/ \E d \in Decoders : DecoderStep(d)
    \/ \E w \in Watchers : WatcherStep(w)
    \/ SaveStep
    \/ Start
    \/ LeaveLoop
    \/ StopStep
    \/ \E t \in AllThreads : FrameSection(t) \/ PartSection(t)
    \/ \E t \in AllThreads : SpuriousWakeup(t)

(* A full part_q: decoder d gets a place, or is woken to compete for one.  *)
GetsPlace(d) == PartSection(d) /\ part_op'[d] = "returned"
IsWoken(d) == PartSection("save") /\ d \in part_in \ part_in'

(* Every thread is scheduled and gets the mutexes it waits for; frames     *)
(* keep coming while fetch runs.  main notices a cleared flag (it polls    *)
(* once a second), but no user has to stop or restart the receiver.        *)
(* The strong part: a watcher sleeps for a second and decodes a frame      *)
(* between two results, so it does not get ahead of a decoder at every     *)
(* free place of part_q and at every notification, for ever.               *)
Fairness ==
    /\ \A d \in Decoders : SF_vars(GetsPlace(d)) /\ SF_vars(IsWoken(d))
    /\ WF_vars(FetchStep)
    /\ \A d \in Decoders : WF_vars(DecoderStep(d))
    /\ \A w \in Watchers : WF_vars(WatcherStep(w))
    /\ WF_vars(SaveStep)
    /\ WF_vars(~running /\ LeaveLoop)
    /\ WF_vars(StopStep)
    /\ \A t \in AllThreads : WF_vars(FrameSection(t)) /\ WF_vars(PartSection(t))

Spec == Init /\ [][Next]_vars
FairSpec == Spec /\ Fairness

-----------------------------------------------------------------------------
(* Properties.                                                             *)

NullsLast(q) ==
    \A i, j \in DOMAIN q : i < j /\ q[i] = "null" => q[j] = "null"

(* The null that ends a worker never overtakes work: no frame is queued    *)
(* behind a null in frame_q (fetch is joined first) and no result behind   *)
(* the null in part_q (all workers are joined first), so save has every    *)
(* result before it ends.                                                  *)
NullsAfterWork == NullsLast(frame_q) /\ NullsLast(part_q)

(* Stop leaves the queues as Start expects them, since they are members    *)
(* that the next task reuses: no item and no null left over, no thread     *)
(* alive or asleep on a condition variable.                                *)
CleanStop ==
    pc["main"] = "stopped" =>
        /\ frame_q = <<>> /\ part_q = <<>>
        /\ frame_in \cup frame_out \cup part_in \cup part_out = {}
        /\ \A t \in AllThreads \ {"main"} : pc[t] = "exited"

(* A stop, by the user, by a finished or by a refused task, always ends:   *)
(* nobody waits for a full queue that has no reader left, for a null that  *)
(* another thread took, or for a notification spent on a Front.            *)
StopEnds == ~running ~> pc["main"] = "stopped"

(* While the receiver runs the decoders keep taking frames from frame_q,   *)
(* although the watchers may be given the notifications.                   *)
DecodersKeepUp ==
    \/ []<>(pc["main"] # "running")
    \/ []<><<\E d \in Decoders : NextFrame(d)>>_vars
=============================================================================
