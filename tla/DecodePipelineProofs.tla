------------------------ MODULE DecodePipelineProofs ------------------------
(***************************************************************************)
(* Proofs about DecodePipeline, for any number of decoders and any bounds  *)
(* of the queues: a stop takes every thread's null to it and leaves both   *)
(* queues as the next start expects them.                                  *)
(***************************************************************************)
EXTENDS DecodePipeline, SequenceTheorems, FiniteSetTheorems, TLAPS

(* Where a thread is says which calls it can be in, and with what.         *)
Early == {"running", "joining_fetch"}
Late == {"joining_save", "stopped"}

AtWork(w) ==
    /\ pc[w] \in {"popping", "peeking", "taking", "pushing", "exited"}
    /\ pc[w] = "popping" => w \in Decoders
    /\ pc[w] \in {"peeking", "taking"} => w \in Watchers
    /\ frame_op[w] = "front" => pc[w] = "peeking"
    /\ frame_op[w] = "pop" => pc[w] \in {"popping", "taking"}
    /\ part_op[w] = "push" => pc[w] = "pushing" /\ part_item[w] = "result"
    /\ pc["main"] \in Late => pc[w] = "exited"

Control ==
    /\ pc["main"] \in Early \cup {"pushing_nulls", "joining_workers"} \cup Late
    /\ frame_op["main"] = "push" => pc["main"] = "pushing_nulls" /\ frame_item["main"] = "null"
    /\ part_op["main"] = "push" => pc["main"] = "joining_save" /\ part_item["main"] = "null"
    /\ pc["fetch"] \in {"grabbing", "exited"}
    /\ pc["fetch"] = "grabbing" => pc["main"] \in Early
    /\ frame_op["fetch"] = "push" => pc["fetch"] = "grabbing" /\ frame_item["fetch"] = "frame"
    /\ pc["save"] \in {"opening", "saving", "draining", "exited"}
    /\ part_op["save"] = "pop" => pc["save"] \in {"saving", "draining"}
    /\ \A w \in Workers : AtWork(w)

(* A worker that has seen its null, and one that has taken it.             *)
Ended(w) ==
    \/ pc[w] \in {"taking", "exited"}
    \/ pc[w] \in {"popping", "peeking"} /\ FrameReturned(w) /\ frame_item[w] = "null"
Gone(w) ==
    \/ pc[w] = "exited"
    \/ pc[w] = "popping" /\ FrameReturned(w) /\ frame_item[w] = "null"
    \/ pc[w] = "taking" /\ FrameReturned(w)
Waiting == {w \in Workers : ~Gone(w)}

(* frame_q is k frames and then nulls.  There are none before fetch has    *)
(* been joined; then those that are queued, being pushed or still to be    *)
(* pushed are one for each worker that has not taken its own.  Once one    *)
(* has seen a null no frame is left.                                       *)
Pushing == IF frame_op["main"] = "push" THEN 1 ELSE 0
Frames(k) ==
    /\ \A i \in 1 .. Len(frame_q) : frame_q[i] = "null" <=> i > k
    /\ pc["main"] \in Early => k = Len(frame_q) /\ \A w \in Workers : ~Ended(w)
    /\ pc["main"] \notin Early =>
          (Len(frame_q) - k) + nulls + Pushing = Cardinality(Waiting)
    /\ (\E w \in Workers : Ended(w)) => k = 0
FrameNulls == \E k \in 0 .. Len(frame_q) : Frames(k)

(* part_q holds results, and behind them the null of JoinWorkers until     *)
(* save takes it.                                                          *)
SaveGone ==
    \/ pc["save"] = "exited"
    \/ pc["save"] \in {"saving", "draining"} /\ PartReturned("save") /\ part_item["save"] = "null"
NullSent == pc["main"] = "joining_save" /\ PartReturned("main")
PartNulls ==
    /\ pc["main"] # "stopped" /\ ~NullSent =>
          ~SaveGone /\ \A i \in 1 .. Len(part_q) : part_q[i] # "null"
    /\ NullSent /\ ~SaveGone =>
          part_q # <<>> /\ \A i \in 1 .. Len(part_q) : part_q[i] = "null" <=> i = Len(part_q)
    /\ NullSent /\ SaveGone => part_q = <<>>
    /\ pc["main"] = "stopped" => part_q = <<>> /\ pc["save"] = "exited"

IInv == Control /\ FrameNulls /\ PartNulls

-----------------------------------------------------------------------------
(* What one turn under the mutex of a queue does to it: the thread falls   *)
(* asleep, or its call takes effect and returns.                           *)

FrameReturns(t, x) ==
    /\ frame_op' = [frame_op EXCEPT ![t] = "returned"]
    /\ frame_item' = [frame_item EXCEPT ![t] = x]

FrameEffect(t) ==
    \/ UNCHANGED <<frame_q, frame_op, frame_item>>
    \/ /\ frame_op[t] = "push"
       /\ frame_q' = Append(frame_q, frame_item[t]) /\ FrameReturns(t, "null")
    \/ /\ frame_op[t] = "front" /\ frame_q # <<>>
       /\ UNCHANGED frame_q /\ FrameReturns(t, Head(frame_q))
    \/ /\ frame_op[t] = "pop" /\ frame_q # <<>>
       /\ frame_q' = Tail(frame_q) /\ FrameReturns(t, Head(frame_q))

LEMMA FrameSections ==
  ASSUME NEW t \in AllThreads, FrameSection(t)
  PROVE  FrameEffect(t) /\ UNCHANGED <<running, pc, nulls, partVars>> /\ t \in FrameQ!Threads
BY DEF FrameSection, FrameEffect, FrameReturns, FrameQ!Section, FrameQ!Push, FrameQ!Front,
       FrameQ!Pop, FrameQ!SleepIn, FrameQ!SleepOut, FrameQ!Return, FrameQ!HasItem

PartReturns(t, x) ==
    /\ part_op' = [part_op EXCEPT ![t] = "returned"]
    /\ part_item' = [part_item EXCEPT ![t] = x]

PartEffect(t) ==
    \/ UNCHANGED <<part_q, part_op, part_item>>
    \/ /\ part_op[t] = "push"
       /\ part_q' = Append(part_q, part_item[t]) /\ PartReturns(t, "null")
    \/ /\ part_op[t] = "pop" /\ part_q # <<>>
       /\ part_q' = Tail(part_q) /\ PartReturns(t, Head(part_q))

LEMMA PartSections ==
  ASSUME TypeOK, NEW t \in AllThreads, PartSection(t)
  PROVE  PartEffect(t) /\ UNCHANGED <<running, pc, nulls, frameVars>> /\ t \in PartQ!Threads
<1>1. part_op[t] # "front"
  BY PipelineAssumption DEF TypeOK, PartQ!TypeOK, PartSection, PartQ!Threads, Workers, Watchers
<1>. QED
  BY <1>1 DEF PartSection, PartEffect, PartReturns, PartQ!Section, PartQ!Push, PartQ!Front,
       PartQ!Pop, PartQ!SleepIn, PartQ!SleepOut, PartQ!Return, PartQ!HasItem

-----------------------------------------------------------------------------
(* Type correctness: the queues keep their types under every call and turn. *)

LEMMA Roles ==
    /\ FrameQ!Threads = {"fetch", "main"} \cup Workers
    /\ PartQ!Threads = Workers \cup {"main", "save"}
    /\ FrameQ!Threads \subseteq AllThreads /\ PartQ!Threads \subseteq AllThreads
    /\ Workers \cap {"fetch", "main", "save"} = {}
    /\ Decoders \cap Watchers = {} /\ Decoders \subseteq Workers /\ Watchers \subseteq Workers
    /\ "fetch" # "main" /\ "save" # "main"
BY PipelineAssumption DEF FrameQ!Threads, PartQ!Threads, Workers, Watchers, AllThreads

LEMMA FrameWaits ==
  ASSUME FrameQ!TypeOK, NEW t \in FrameQ!Threads, FrameQ!Section(t) \/ FrameQ!SpuriousWakeup(t)
  PROVE  FrameQ!TypeOK'
<1> USE Roles DEF FrameQ!TypeOK, FrameQ!Value, FrameQ!Threads
<1>1. CASE FrameQ!Push(t)
  <2>1. frame_op[t] = "push" /\ t \notin frame_in
    BY <1>1 DEF FrameQ!Push
  <2>2. CASE FrameQ!SleepIn(t)
    BY <2>1, <2>2 DEF FrameQ!SleepIn
  <2>3. CASE ~FrameQ!SleepIn(t)
    <3>1. frame_q' = Append(frame_q, frame_item[t]) /\ FrameQ!Return(t, "null") /\ frame_in' = frame_in
      BY <1>1, <2>3 DEF FrameQ!Push
    <3>2. frame_out' \subseteq frame_out
      BY <1>1, <2>3 DEF FrameQ!Push, FrameQ!NotifyOne
    <3>. QED
      BY <2>1, <3>1, <3>2 DEF FrameQ!Return
  <2>. QED
    BY <2>2, <2>3
<1>2. CASE FrameQ!Front(t)
  <2>1. CASE FrameQ!SleepOut(t)
    BY <1>2, <2>1 DEF FrameQ!Front, FrameQ!SleepOut
  <2>2. CASE ~FrameQ!SleepOut(t)
    <3>1. Head(frame_q) \in FrameQ!Value
      BY <1>2, <2>2, HeadTailProperties DEF FrameQ!Front, FrameQ!HasItem
    <3>2. /\ frame_op[t] = "front" /\ t \notin frame_out
          /\ UNCHANGED <<frame_q, frame_in, frame_out>>
          /\ frame_op' = [frame_op EXCEPT ![t] = "returned"]
          /\ frame_item' = [frame_item EXCEPT ![t] = Head(frame_q)]
      BY <1>2, <2>2 DEF FrameQ!Front, FrameQ!Return
    <3>. QED
      BY <3>1, <3>2
  <2>. QED
    BY <2>1, <2>2
<1>3. CASE FrameQ!Pop(t)
  <2>1. frame_op[t] = "pop" /\ t \notin frame_out
    BY <1>3 DEF FrameQ!Pop
  <2>2. CASE FrameQ!SleepOut(t)
    BY <2>1, <2>2 DEF FrameQ!SleepOut
  <2>3. CASE ~FrameQ!SleepOut(t)
    <3>1. /\ frame_q # <<>> /\ frame_q' = Tail(frame_q)
          /\ FrameQ!Return(t, Head(frame_q)) /\ frame_out' = frame_out
      BY <1>3, <2>3 DEF FrameQ!Pop, FrameQ!HasItem
    <3>2. frame_in' \subseteq frame_in
      BY <1>3, <2>3 DEF FrameQ!Pop, FrameQ!NotifyOne
    <3>3. frame_q' \in Seq(FrameQ!Value) /\ Head(frame_q) \in FrameQ!Value
      BY <3>1, HeadTailProperties
    <3>. QED
      BY <2>1, <3>1, <3>2, <3>3 DEF FrameQ!Return
  <2>. QED
    BY <2>2, <2>3
<1>4. CASE FrameQ!SpuriousWakeup(t)
  BY <1>4 DEF FrameQ!SpuriousWakeup
<1>. QED
  BY <1>1, <1>2, <1>3, <1>4 DEF FrameQ!Section

LEMMA FrameCalls ==
  ASSUME FrameQ!TypeOK,
         \/ \E t \in {"fetch", "main"}, x \in {"frame", "null"} : FrameQ!CallPush(t, x)
         \/ \E t \in Watchers : FrameQ!CallFront(t)
         \/ \E t \in Workers : FrameQ!CallPop(t)
  PROVE  FrameQ!TypeOK'
<1> USE Roles DEF FrameQ!TypeOK, FrameQ!Value, FrameQ!Threads, FrameQ!Call
<1>1. ASSUME NEW t \in {"fetch", "main"}, NEW x \in {"frame", "null"}, FrameQ!CallPush(t, x)
      PROVE  FrameQ!TypeOK'
  BY <1>1 DEF FrameQ!CallPush
<1>2. ASSUME NEW t \in Watchers, FrameQ!CallFront(t)
      PROVE  FrameQ!TypeOK'
  BY <1>2 DEF FrameQ!CallFront
<1>3. ASSUME NEW t \in Workers, FrameQ!CallPop(t)
      PROVE  FrameQ!TypeOK'
  BY <1>3 DEF FrameQ!CallPop, Workers
<1>. QED
  BY <1>1, <1>2, <1>3

LEMMA PartWaits ==
  ASSUME PartQ!TypeOK, NEW t \in PartQ!Threads, PartQ!Section(t) \/ PartQ!SpuriousWakeup(t)
  PROVE  PartQ!TypeOK'
<1> USE Roles DEF PartQ!TypeOK, PartQ!Value, PartQ!Threads
<1>1. CASE PartQ!Push(t)
  <2>1. part_op[t] = "push" /\ t \notin part_in
    BY <1>1 DEF PartQ!Push
  <2>2. CASE PartQ!SleepIn(t)
    BY <2>1, <2>2 DEF PartQ!SleepIn
  <2>3. CASE ~PartQ!SleepIn(t)
    <3>1. part_q' = Append(part_q, part_item[t]) /\ PartQ!Return(t, "null") /\ part_in' = part_in
      BY <1>1, <2>3 DEF PartQ!Push
    <3>2. part_out' \subseteq part_out
      BY <1>1, <2>3 DEF PartQ!Push, PartQ!NotifyOne
    <3>. QED
      BY <2>1, <3>1, <3>2 DEF PartQ!Return
  <2>. QED
    BY <2>2, <2>3
<1>2. CASE PartQ!Front(t)
  BY <1>2 DEF PartQ!Front, PartQ!SleepOut, PartQ!Return, PartQ!HasItem
<1>3. CASE PartQ!Pop(t)
  <2>1. part_op[t] = "pop" /\ t \notin part_out
    BY <1>3 DEF PartQ!Pop
  <2>2. CASE PartQ!SleepOut(t)
    BY <2>1, <2>2 DEF PartQ!SleepOut
  <2>3. CASE ~PartQ!SleepOut(t)
    <3>1. /\ part_q # <<>> /\ part_q' = Tail(part_q)
          /\ PartQ!Return(t, Head(part_q)) /\ part_out' = part_out
      BY <1>3, <2>3 DEF PartQ!Pop, PartQ!HasItem
    <3>2. part_in' \subseteq part_in
      BY <1>3, <2>3 DEF PartQ!Pop, PartQ!NotifyOne
    <3>3. part_q' \in Seq(PartQ!Value) /\ Head(part_q) \in PartQ!Value
      BY <3>1, HeadTailProperties
    <3>. QED
      BY <2>1, <3>1, <3>2, <3>3 DEF PartQ!Return
  <2>. QED
    BY <2>2, <2>3
<1>4. CASE PartQ!SpuriousWakeup(t)
  BY <1>4 DEF PartQ!SpuriousWakeup
<1>. QED
  BY <1>1, <1>2, <1>3, <1>4 DEF PartQ!Section

LEMMA PartCalls ==
  ASSUME PartQ!TypeOK,
         \/ \E t \in Workers \cup {"main"}, x \in {"result", "null"} : PartQ!CallPush(t, x)
         \/ PartQ!CallPop("save")
  PROVE  PartQ!TypeOK'
<1> USE Roles DEF PartQ!TypeOK, PartQ!Value, PartQ!Threads, PartQ!Call
<1>1. ASSUME NEW t \in Workers \cup {"main"}, NEW x \in {"result", "null"}, PartQ!CallPush(t, x)
      PROVE  PartQ!TypeOK'
  BY <1>1 DEF PartQ!CallPush
<1>2. CASE PartQ!CallPop("save")
  BY <1>2 DEF PartQ!CallPop
<1> HIDE DEF PartQ!TypeOK
<1>. QED
  BY <1>1, <1>2

LEMMA Facts ==
  ASSUME TypeOK
  PROVE  /\ DOMAIN pc = AllThreads
         /\ frame_op \in [{"fetch", "main"} \cup Workers -> {"returned", "push", "front", "pop"}]
         /\ frame_item \in [{"fetch", "main"} \cup Workers -> {"frame", "null"}]
         /\ frame_q \in Seq({"frame", "null"}) /\ Len(frame_q) \in Nat
         /\ frame_op["fetch"] \in {"returned", "push"} /\ frame_op["main"] \in {"returned", "push"}
         /\ \A d \in Decoders : frame_op[d] \in {"returned", "pop"}
         /\ \A w \in Watchers : frame_op[w] \in {"returned", "front", "pop"}
         /\ part_op \in [Workers \cup {"main", "save"} -> {"returned", "push", "front", "pop"}]
         /\ part_item \in [Workers \cup {"main", "save"} -> {"result", "null"}]
         /\ part_q \in Seq({"result", "null"}) /\ Len(part_q) \in Nat
         /\ part_op["save"] \in {"returned", "pop"}
         /\ \A w \in Workers \cup {"main"} : part_op[w] \in {"returned", "push"}
<1>1. FrameQ!TypeOK /\ PartQ!TypeOK /\ DOMAIN pc = AllThreads
  BY DEF TypeOK
<1>2. {"frame"} \cup {"null"} = {"frame", "null"} /\ {"result"} \cup {"null"} = {"result", "null"}
  OBVIOUS
<1>3. frame_q \in Seq({"frame", "null"}) /\ part_q \in Seq({"result", "null"})
  BY <1>1, <1>2 DEF FrameQ!TypeOK, FrameQ!Value, PartQ!TypeOK, PartQ!Value
<1>4. Len(frame_q) \in Nat /\ Len(part_q) \in Nat
  BY <1>3, LenProperties
<1>5. /\ frame_op \in [{"fetch", "main"} \cup Workers -> {"returned", "push", "front", "pop"}]
      /\ frame_item \in [{"fetch", "main"} \cup Workers -> {"frame", "null"}]
      /\ part_op \in [Workers \cup {"main", "save"} -> {"returned", "push", "front", "pop"}]
      /\ part_item \in [Workers \cup {"main", "save"} -> {"result", "null"}]
  BY <1>1, <1>2, Roles DEF FrameQ!TypeOK, FrameQ!Value, PartQ!TypeOK, PartQ!Value
<1>6. /\ frame_op["fetch"] \in {"returned", "push"} /\ frame_op["main"] \in {"returned", "push"}
      /\ \A d \in Decoders : frame_op[d] \in {"returned", "pop"}
      /\ \A w \in Watchers : frame_op[w] \in {"returned", "front", "pop"}
      /\ part_op["save"] \in {"returned", "pop"}
      /\ \A w \in Workers \cup {"main"} : part_op[w] \in {"returned", "push"}
  BY <1>1 DEF FrameQ!TypeOK, PartQ!TypeOK
<1>. QED
  BY <1>1, <1>3, <1>4, <1>5, <1>6

LEMMA WorkersFinite == IsFiniteSet(Workers) /\ Cardinality(Workers) \in Nat
<1>1. IsFiniteSet(Watchers)
  <2>1. IsFiniteSet({"result"} \cup {"auto"})
    BY FS_Singleton, FS_Union
  <2>. QED
    BY <2>1 DEF Watchers
<1>. QED
  BY <1>1, PipelineAssumption, FS_Union, FS_CardinalityType DEF Workers

-----------------------------------------------------------------------------
(* After a stop nobody is left in a call, and nothing in a queue.          *)

LEMMA Stopped ==
  ASSUME TypeOK, IInv, pc["main"] = "stopped"
  PROVE  /\ frame_q = <<>> /\ part_q = <<>>
         /\ \A t \in AllThreads \ {"main"} : pc[t] = "exited"
         /\ \A t \in {"fetch", "main"} \cup Workers : frame_op[t] = "returned"
         /\ \A t \in Workers \cup {"main", "save"} : part_op[t] = "returned"
         /\ frame_in = {} /\ frame_out = {} /\ part_in = {} /\ part_out = {}
<1>1. Control /\ FrameNulls /\ PartNulls
  BY DEF IInv
<1>2. \A w \in Workers : pc[w] = "exited"
  BY <1>1 DEF Control, AtWork, Late
<1>3. pc["fetch"] = "exited" /\ pc["save"] = "exited" /\ part_q = <<>>
  BY <1>1 DEF Control, PartNulls, Early
<1>4. \A t \in AllThreads \ {"main"} : pc[t] = "exited"
  BY <1>2, <1>3 DEF AllThreads
<1>5. \A t \in {"fetch", "main"} \cup Workers : frame_op[t] = "returned"
  <2>1. \A w \in Workers : frame_op[w] \notin {"front", "pop"}
    BY <1>1, <1>2 DEF Control, AtWork
  <2>2. \A w \in Workers : frame_op[w] = "returned"
    BY <2>1, Facts DEF Workers
  <2>3. frame_op["fetch"] = "returned" /\ frame_op["main"] = "returned"
    BY <1>1, <1>3, Facts DEF Control
  <2>. QED
    BY <2>2, <2>3
<1>6. \A t \in Workers \cup {"main", "save"} : part_op[t] = "returned"
  <2>1. \A w \in Workers : part_op[w] = "returned"
    BY <1>1, <1>2, Facts DEF Control, AtWork
  <2>2. part_op["main"] = "returned" /\ part_op["save"] = "returned"
    BY <1>1, <1>3, Facts DEF Control, AtWork
  <2>. QED
    BY <2>1, <2>2
<1>7. frame_in = {} /\ frame_out = {} /\ part_in = {} /\ part_out = {}
  BY <1>5, <1>6, Roles DEF TypeOK, FrameQ!TypeOK, PartQ!TypeOK
<1>8. frame_q = <<>>
  <2>1. PICK k \in 0 .. Len(frame_q) : Frames(k)
    BY <1>1 DEF FrameNulls
  <2>2. Waiting = {}
    BY <1>2 DEF Waiting, Gone
  <2>3. "result" \in Workers /\ Ended("result")
    BY <1>2 DEF Workers, Watchers, Ended
  <2>4. k = 0 /\ (Len(frame_q) - k) + nulls + Pushing = 0
    BY <2>1, <2>2, <2>3, FS_EmptySet DEF Frames, Early
  <2>5. Pushing = 0 /\ nulls \in Nat
    BY <1>5, WorkersFinite DEF Pushing, TypeOK
  <2>6. Len(frame_q) = 0
    BY <2>4, <2>5, Facts
  <2>. QED
    BY <2>6, Facts, EmptySeq
<1>. QED
  BY <1>3, <1>4, <1>5, <1>6, <1>7, <1>8

LEMMA TypeInit == Init => TypeOK
<1> SUFFICES ASSUME Init
             PROVE  TypeOK
  OBVIOUS
<1>1. FrameQ!TypeOK
  BY DEF Init, FrameQ!Init, FrameQ!TypeOK, FrameQ!Value, FrameQ!Threads
<1>2. PartQ!TypeOK
  BY DEF Init, PartQ!Init, PartQ!TypeOK, PartQ!Value, PartQ!Threads
<1>3. nulls \in 0 .. Cardinality(Workers)
  BY WorkersFinite DEF Init
<1>. QED
  BY <1>1, <1>2, <1>3 DEF Init, TypeOK

LEMMA TypeStep == TypeOK /\ IInv /\ [Next]_vars => TypeOK'
<1> SUFFICES ASSUME TypeOK, IInv, [Next]_vars
             PROVE  TypeOK'
  OBVIOUS
<1>a. /\ FrameQ!TypeOK /\ PartQ!TypeOK /\ nulls \in 0 .. Cardinality(Workers)
      /\ Cardinality(Workers) \in Nat /\ {"fetch", "save", "main"} \cup Workers \subseteq AllThreads
  BY WorkersFinite DEF TypeOK, AllThreads
<1>b. UNCHANGED frameVars => FrameQ!TypeOK'
  BY <1>a DEF frameVars, FrameQ!TypeOK
<1>c. UNCHANGED partVars => PartQ!TypeOK'
  BY <1>a DEF partVars, PartQ!TypeOK
<1>1. CASE FetchFrame
  <2>1. FrameQ!TypeOK' /\ UNCHANGED partVars /\ UNCHANGED <<running, nulls>>
    BY <1>1, <1>a, <1>b, FrameCalls DEF FetchFrame
  <2>2. pc' = pc \/ Goto("fetch", "exited")
    BY <1>1 DEF FetchFrame
  <2>. QED
    BY <1>a, <1>c, <2>1, <2>2 DEF TypeOK, Goto
<1>2. ASSUME NEW w \in Workers,
             Decode(w) \/ NextFrame(w) \/ Watch(w) \/ WatchNext(w) \/ WatchExit(w),
             w \in Watchers \/ Decode(w) \/ NextFrame(w)
      PROVE  TypeOK'
  <2>1. FrameQ!TypeOK'
    BY <1>2, <1>a, <1>b, FrameCalls DEF Decode, NextFrame, Watch, WatchNext, WatchExit
  <2>2. PartQ!TypeOK'
    BY <1>2, <1>a, <1>c, PartCalls DEF Decode, NextFrame, Watch, WatchNext, WatchExit
  <2>3. UNCHANGED <<running, nulls>> /\ \E l \in {"exited", "pushing", "popping", "peeking", "taking"} : Goto(w, l)
    BY <1>2 DEF Decode, NextFrame, Watch, WatchNext, WatchExit
  <2>. QED
    BY <1>a, <2>1, <2>2, <2>3 DEF TypeOK, Goto
<1>3. CASE SaveStep
  <2>1. FrameQ!TypeOK' /\ PartQ!TypeOK' /\ UNCHANGED nulls
    BY <1>3, <1>a, <1>b, <1>c, PartCalls DEF SaveStep, SaveOpen, SaveExit, SaveResult
  <2>2. /\ pc' = pc \/ \E l \in {"saving", "draining", "exited"} : Goto("save", l)
        /\ running' \in BOOLEAN
    BY <1>3 DEF SaveStep, SaveOpen, SaveExit, SaveResult, TypeOK
  <2>. QED
    BY <1>a, <2>1, <2>2 DEF TypeOK, Goto
<1>4. CASE Start
  <2>1. frame_in = {} /\ frame_out = {} /\ pc["main"] = "stopped"
    BY <1>4, Stopped DEF Start
  <2>2. /\ frame_op' = [t \in FrameQ!Threads |->
             CASE t \in Decoders -> "pop" [] t \in Watchers -> "front" [] OTHER -> "returned"]
        /\ frame_item' = [t \in FrameQ!Threads |-> "null"]
        /\ UNCHANGED <<nulls, frame_q, frame_in, frame_out, partVars>>
    BY <1>4, <1>a DEF Start, FrameQ!TypeOK
  <2>3. /\ \A t \in {"fetch", "main"} : frame_op'[t] = "returned"
        /\ \A t \in Decoders : frame_op'[t] = "pop"
        /\ \A t \in Watchers : frame_op'[t] = "front"
        /\ frame_op' \in [FrameQ!Threads -> {"returned", "push", "front", "pop"}]
    BY <2>2, Roles
  <2>4. FrameQ!TypeOK'
    BY <1>a, <2>1, <2>2, <2>3 DEF FrameQ!TypeOK, FrameQ!Value
  <2>5. \A t \in AllThreads :
           t \in Decoders \/ t \in Watchers \/ t = "fetch" \/ t = "save" \/ t = "main"
    BY DEF AllThreads, Workers
  <2>6. /\ pc' \in [AllThreads -> {"popping", "peeking", "grabbing", "opening", "running"}]
        /\ running' = TRUE
    BY <1>4, <2>5 DEF Start
  <2>7. pc' \in [AllThreads ->
          {"exited", "grabbing", "popping", "peeking", "taking", "pushing",
           "opening", "saving", "draining", "running", "joining_fetch",
           "pushing_nulls", "joining_workers", "joining_save", "stopped"}]
    BY <2>6
  <2>. QED
    BY <1>a, <1>c, <2>2, <2>4, <2>6, <2>7 DEF TypeOK
<1>5. CASE LeaveLoop \/ StopStep
  <2>1. FrameQ!TypeOK'
    BY <1>5, <1>a, <1>b, FrameCalls
    DEF LeaveLoop, StopStep, JoinFetch, PushNull, JoinWorkers, JoinSave
  <2>2. PartQ!TypeOK'
    BY <1>5, <1>a, <1>c, PartCalls
    DEF LeaveLoop, StopStep, JoinFetch, PushNull, JoinWorkers, JoinSave
  <2>3. /\ nulls' \in {nulls, Cardinality(Workers)} \/ (nulls > 0 /\ nulls' = nulls - 1)
        /\ running' \in BOOLEAN
        /\ pc' = pc \/ \E l \in {"joining_fetch", "pushing_nulls", "joining_workers",
                                   "joining_save", "stopped"} : Goto("main", l)
    BY <1>5 DEF LeaveLoop, StopStep, JoinFetch, PushNull, JoinWorkers, JoinSave, TypeOK
  <2>4. nulls' \in 0 .. Cardinality(Workers)
    BY <1>a, <2>3
  <2>. QED
    BY <1>a, <2>1, <2>2, <2>3, <2>4 DEF TypeOK, Goto
<1>6. ASSUME NEW t \in AllThreads, FrameSection(t)
      PROVE  TypeOK'
  BY <1>6, <1>a, <1>c, FrameWaits DEF FrameSection, TypeOK
<1>7. ASSUME NEW t \in AllThreads, PartSection(t)
      PROVE  TypeOK'
  BY <1>7, <1>a, <1>b, PartWaits DEF PartSection, TypeOK
<1>8. ASSUME NEW t \in AllThreads, SpuriousWakeup(t)
      PROVE  TypeOK'
  <2>1. FrameQ!SpuriousWakeup(t) => t \in FrameQ!Threads
    BY <1>a DEF FrameQ!SpuriousWakeup, FrameQ!TypeOK, FrameQ!Threads
  <2>2. PartQ!SpuriousWakeup(t) => t \in PartQ!Threads
    BY <1>a DEF PartQ!SpuriousWakeup, PartQ!TypeOK, PartQ!Threads
  <2>. QED
    BY <1>8, <1>a, <1>b, <1>c, <2>1, <2>2, FrameWaits, PartWaits DEF SpuriousWakeup, TypeOK
<1>9. CASE UNCHANGED vars
  BY <1>9, <1>b, <1>c DEF vars, TypeOK
<1>. QED
  BY <1>1, <1>2, <1>3, <1>4, <1>5, <1>6, <1>7, <1>8, <1>9, Roles
  DEF Next, FetchStep, DecoderStep, WatcherStep

-----------------------------------------------------------------------------
(* Control: each action keeps what a thread's place says of its calls.     *)

LEMMA OneWorker ==
  ASSUME TypeOK, Control, NEW w \in Workers, NEW l, Goto(w, l),
         pc["main"] \notin Late, AtWork(w)',
         \A t \in ({"fetch", "main"} \cup Workers) \ {w} :
            frame_op'[t] = frame_op[t] /\ frame_item'[t] = frame_item[t],
         \A t \in (Workers \cup {"main", "save"}) \ {w} :
            part_op'[t] = part_op[t] /\ part_item'[t] = part_item[t]
  PROVE  Control'
<1>1. w \notin {"fetch", "main", "save"}
  BY Roles
<1>2. \A t \in AllThreads \ {w} : pc'[t] = pc[t]
  BY Facts DEF Goto
<1>3. \A v \in Workers \ {w} : AtWork(v)'
  <2> SUFFICES ASSUME NEW v \in Workers \ {w}
               PROVE  AtWork(v)'
    OBVIOUS
  <2>1. /\ pc'[v] = pc[v] /\ pc'["main"] = pc["main"] /\ frame_op'[v] = frame_op[v]
        /\ part_op'[v] = part_op[v] /\ part_item'[v] = part_item[v]
    BY <1>1, <1>2 DEF AllThreads
  <2>. QED
    BY <2>1 DEF Control, AtWork
<1>. QED
  BY <1>1, <1>2, <1>3 DEF Control, AllThreads

LEMMA ControlStep == TypeOK /\ IInv /\ [Next]_vars => Control'
<1> SUFFICES ASSUME TypeOK, IInv, [Next]_vars
             PROVE  Control'
  OBVIOUS
<1>a. Control /\ PartNulls
  BY DEF IInv
<1> DEFINE FrameCall(t, o, x) == /\ frame_op' = [frame_op EXCEPT ![t] = o]
                                 /\ frame_item' = [frame_item EXCEPT ![t] = x]
           PartCall(t, o, x) == /\ part_op' = [part_op EXCEPT ![t] = o]
                                /\ part_item' = [part_item EXCEPT ![t] = x]
           FrameStays == UNCHANGED <<frame_op, frame_item>>
           PartStays == UNCHANGED <<part_op, part_item>>
<1>1. CASE FetchFrame
  <2>1. /\ PartStays /\ pc["fetch"] = "grabbing"
        /\ \/ UNCHANGED pc /\ FrameCall("fetch", "push", "frame")
           \/ Goto("fetch", "exited") /\ FrameStays /\ frame_op["fetch"] = "returned"
    BY <1>1 DEF FetchFrame, FrameReturned, FrameQ!CallPush, FrameQ!Call, frameVars, partVars
  <2>. QED
    BY <1>a, <2>1, Facts, Roles DEF Control, AtWork, Goto, Early, Late
<1>2. ASSUME NEW d \in Decoders, Decode(d)
      PROVE  Control'
  <2>1. /\ FrameStays /\ pc[d] = "popping" /\ frame_op[d] = "returned"
        /\ \/ Goto(d, "exited") /\ PartStays
           \/ Goto(d, "pushing") /\ PartCall(d, "push", "result")
    BY <1>2 DEF Decode, FrameReturned, PartQ!CallPush, PartQ!Call, frameVars, partVars
  <2>2. d \in Workers /\ d \notin {"fetch", "main", "save"} /\ d \notin Watchers
    BY Roles
  <2>3. AtWork(d)' /\ pc["main"] \notin Late
    BY <1>a, <2>1, <2>2, Facts DEF Control, AtWork, Goto, Late, AllThreads
  <2>4. /\ \E l : Goto(d, l)
        /\ \A t \in ({"fetch", "main"} \cup Workers) \ {d} :
              frame_op'[t] = frame_op[t] /\ frame_item'[t] = frame_item[t]
        /\ \A t \in (Workers \cup {"main", "save"}) \ {d} :
              part_op'[t] = part_op[t] /\ part_item'[t] = part_item[t]
    BY <2>1, Facts
  <2>. QED
    BY <1>a, <2>1, <2>2, <2>3, <2>4, OneWorker
<1>3. ASSUME NEW d \in Decoders, NextFrame(d)
      PROVE  Control'
  <2>1. /\ PartStays /\ pc[d] = "pushing" /\ part_op[d] = "returned"
        /\ Goto(d, "popping") /\ FrameCall(d, "pop", "null")
    BY <1>3 DEF NextFrame, PartReturned, FrameQ!CallPop, FrameQ!Call, partVars
  <2>2. d \in Workers /\ d \notin {"fetch", "main", "save"} /\ d \notin Watchers
    BY Roles
  <2>3. AtWork(d)' /\ pc["main"] \notin Late
    BY <1>a, <2>1, <2>2, Facts DEF Control, AtWork, Goto, Late, AllThreads
  <2>4. /\ \E l : Goto(d, l)
        /\ \A t \in ({"fetch", "main"} \cup Workers) \ {d} :
              frame_op'[t] = frame_op[t] /\ frame_item'[t] = frame_item[t]
        /\ \A t \in (Workers \cup {"main", "save"}) \ {d} :
              part_op'[t] = part_op[t] /\ part_item'[t] = part_item[t]
    BY <2>1, Facts
  <2>. QED
    BY <1>a, <2>1, <2>2, <2>3, <2>4, OneWorker
<1>4. ASSUME NEW w \in Watchers, Watch(w)
      PROVE  Control'
  <2>1. /\ pc[w] = "peeking" /\ frame_op[w] = "returned"
        /\ \/ Goto(w, "taking") /\ FrameCall(w, "pop", "null") /\ PartStays
           \/ Goto(w, "pushing") /\ PartCall(w, "push", "result") /\ FrameStays
    BY <1>4 DEF Watch, FrameReturned, FrameQ!CallPop, FrameQ!Call, PartQ!CallPush, PartQ!Call,
                frameVars, partVars
  <2>2. w \in Workers /\ w \notin {"fetch", "main", "save"} /\ w \notin Decoders
    BY Roles
  <2>3. AtWork(w)' /\ pc["main"] \notin Late
    BY <1>a, <2>1, <2>2, Facts DEF Control, AtWork, Goto, Late, AllThreads
  <2>4. /\ \E l : Goto(w, l)
        /\ \A t \in ({"fetch", "main"} \cup Workers) \ {w} :
              frame_op'[t] = frame_op[t] /\ frame_item'[t] = frame_item[t]
        /\ \A t \in (Workers \cup {"main", "save"}) \ {w} :
              part_op'[t] = part_op[t] /\ part_item'[t] = part_item[t]
    BY <2>1, Facts
  <2>. QED
    BY <1>a, <2>1, <2>2, <2>3, <2>4, OneWorker
<1>5. ASSUME NEW w \in Watchers, WatchNext(w)
      PROVE  Control'
  <2>1. /\ PartStays /\ pc[w] = "pushing" /\ part_op[w] = "returned"
        /\ Goto(w, "peeking") /\ FrameCall(w, "front", "null")
    BY <1>5 DEF WatchNext, PartReturned, FrameQ!CallFront, FrameQ!Call, partVars
  <2>2. w \in Workers /\ w \notin {"fetch", "main", "save"} /\ w \notin Decoders
    BY Roles
  <2>3. AtWork(w)' /\ pc["main"] \notin Late
    BY <1>a, <2>1, <2>2, Facts DEF Control, AtWork, Goto, Late, AllThreads
  <2>4. /\ \E l : Goto(w, l)
        /\ \A t \in ({"fetch", "main"} \cup Workers) \ {w} :
              frame_op'[t] = frame_op[t] /\ frame_item'[t] = frame_item[t]
        /\ \A t \in (Workers \cup {"main", "save"}) \ {w} :
              part_op'[t] = part_op[t] /\ part_item'[t] = part_item[t]
    BY <2>1, Facts
  <2>. QED
    BY <1>a, <2>1, <2>2, <2>3, <2>4, OneWorker
<1>6. ASSUME NEW w \in Watchers, WatchExit(w)
      PROVE  Control'
  <2>1. FrameStays /\ PartStays /\ pc[w] = "taking" /\ frame_op[w] = "returned" /\ Goto(w, "exited")
    BY <1>6 DEF WatchExit, FrameReturned, frameVars, partVars
  <2>2. w \in Workers /\ w \notin {"fetch", "main", "save"} /\ w \notin Decoders
    BY Roles
  <2>3. AtWork(w)' /\ pc["main"] \notin Late
    BY <1>a, <2>1, <2>2, Facts DEF Control, AtWork, Goto, Late, AllThreads
  <2>4. /\ \E l : Goto(w, l)
        /\ \A t \in ({"fetch", "main"} \cup Workers) \ {w} :
              frame_op'[t] = frame_op[t] /\ frame_item'[t] = frame_item[t]
        /\ \A t \in (Workers \cup {"main", "save"}) \ {w} :
              part_op'[t] = part_op[t] /\ part_item'[t] = part_item[t]
    BY <2>1, Facts
  <2>. QED
    BY <1>a, <2>1, <2>2, <2>3, <2>4, OneWorker
<1>7. CASE SaveStep
  <2>1. /\ FrameStays
        /\ \/ Goto("save", "exited") /\ PartStays /\ part_op["save"] = "returned"
           \/ /\ Goto("save", "saving") \/ Goto("save", "draining") \/ pc' = pc
              /\ pc'["save"] \in {"saving", "draining"}
              /\ PartCall("save", "pop", "null")
    BY <1>7, Facts DEF SaveStep, SaveOpen, SaveExit, SaveResult, PartReturned, PartQ!CallPop,
                PartQ!Call, frameVars, partVars, Goto, AllThreads
  <2>. QED
    BY <1>a, <2>1, Facts, Roles DEF Control, AtWork, Goto, Early, Late
<1>8. CASE Start
  <2>1. pc["main"] = "stopped" /\ \A t \in Workers \cup {"main", "save"} : part_op[t] = "returned"
    BY <1>8, Stopped DEF Start
  <2>2. /\ pc'["main"] = "running" /\ pc'["fetch"] = "grabbing" /\ pc'["save"] = "opening"
        /\ \A d \in Decoders : pc'[d] = "popping"
        /\ \A w \in Watchers : pc'[w] = "peeking"
    BY <1>8, PipelineAssumption DEF Start, AllThreads, Workers, Watchers
  <2>3. /\ frame_op'["fetch"] = "returned" /\ frame_op'["main"] = "returned"
        /\ \A d \in Decoders : frame_op'[d] = "pop"
        /\ \A w \in Watchers : frame_op'[w] = "front"
    BY <1>8, Facts, Roles DEF Start
  <2>4. part_op' = part_op
    BY <1>8 DEF Start, partVars
  <2>5. \A w \in Workers : AtWork(w)'
    <3>1. \A w \in Workers : part_op'[w] = "returned" /\ pc'["main"] \notin Late
      BY <2>1, <2>2, <2>4 DEF Late
    <3>2. \A w \in Decoders : w \in Workers /\ AtWork(w)'
      BY <2>2, <2>3, <3>1, Roles DEF AtWork
    <3>3. \A w \in Watchers : w \in Workers /\ AtWork(w)'
      BY <2>2, <2>3, <3>1, Roles DEF AtWork
    <3>. QED
      BY <3>2, <3>3 DEF Workers
  <2>. QED
    BY <2>1, <2>2, <2>3, <2>4, <2>5 DEF Control, Early, Late
<1>9. CASE LeaveLoop \/ JoinFetch
  <2>1. /\ FrameStays /\ PartStays /\ pc["main"] \in Early
        /\ \/ Goto("main", "joining_fetch")
           \/ Goto("main", "pushing_nulls") /\ pc["fetch"] = "exited"
    BY <1>9 DEF LeaveLoop, JoinFetch, Early, frameVars, partVars
  <2>. QED
    BY <1>a, <2>1, Facts, Roles DEF Control, AtWork, Goto, Early, Late
<1>10. CASE PushNull
  <2>1. /\ PartStays /\ pc["main"] = "pushing_nulls" /\ frame_op["main"] = "returned"
        /\ \/ FrameCall("main", "push", "null") /\ pc' = pc
           \/ FrameStays /\ Goto("main", "joining_workers")
    BY <1>10 DEF PushNull, FrameReturned, FrameQ!CallPush, FrameQ!Call, frameVars, partVars
  <2>. QED
    BY <1>a, <2>1, Facts, Roles DEF Control, AtWork, Goto, Early, Late
<1>11. CASE JoinWorkers
  <2>1. /\ FrameStays /\ pc["main"] = "joining_workers" /\ \A w \in Workers : pc[w] = "exited"
        /\ PartCall("main", "push", "null") /\ Goto("main", "joining_save")
    BY <1>11 DEF JoinWorkers, PartQ!CallPush, PartQ!Call, frameVars
  <2>. QED
    BY <1>a, <2>1, Facts, Roles DEF Control, AtWork, Goto, Early, Late
<1>12. CASE JoinSave
  <2>1. /\ FrameStays /\ PartStays /\ pc["main"] = "joining_save" /\ part_op["main"] = "returned"
        /\ Goto("main", "stopped")
    BY <1>12 DEF JoinSave, PartReturned, frameVars, partVars
  <2>. QED
    BY <1>a, <2>1, Facts, Roles DEF Control, AtWork, Goto, Early, Late
<1>13. ASSUME NEW t \in AllThreads, FrameSection(t)
       PROVE  Control'
  <2>1. /\ pc' = pc /\ PartStays
        /\ FrameStays \/ \E x : FrameCall(t, "returned", x)
    BY <1>13, FrameSections DEF FrameEffect, FrameReturns, partVars
  <2>. QED
    BY <1>a, <2>1, Facts, Roles DEF Control, AtWork
<1>14. ASSUME NEW t \in AllThreads, PartSection(t)
       PROVE  Control'
  <2>1. /\ pc' = pc /\ FrameStays
        /\ PartStays \/ \E x : PartCall(t, "returned", x)
    BY <1>14, PartSections DEF PartEffect, PartReturns, frameVars
  <2>. QED
    BY <1>a, <2>1, Facts, Roles DEF Control, AtWork
<1>15. CASE UNCHANGED vars \/ \E t \in AllThreads : SpuriousWakeup(t)
  <2>1. pc' = pc /\ FrameStays /\ PartStays
    BY <1>15 DEF vars, frameVars, partVars, SpuriousWakeup, FrameQ!SpuriousWakeup,
                 PartQ!SpuriousWakeup
  <2>. QED
    BY <1>a, <2>1 DEF Control, AtWork
<1>. QED
  BY <1>1, <1>2, <1>3, <1>4, <1>5, <1>6, <1>7, <1>8, <1>9, <1>10, <1>11, <1>12, <1>13, <1>14, <1>15
  DEF Next, FetchStep, DecoderStep, WatcherStep, StopStep

-----------------------------------------------------------------------------
(* part_q and the null that ends save.                                     *)

LEMMA PartNullsStep == TypeOK /\ IInv /\ Control' /\ [Next]_vars => PartNulls'
<1> SUFFICES ASSUME TypeOK, IInv, Control', [Next]_vars
             PROVE  PartNulls'
  OBVIOUS
<1>a. Control /\ PartNulls
  BY DEF IInv
<1> DEFINE PartCall(t, o, x) == /\ part_op' = [part_op EXCEPT ![t] = o]
                                /\ part_item' = [part_item EXCEPT ![t] = x]
           PartStays == UNCHANGED <<part_q, part_op, part_item>>
<1>1. ASSUME NEW t \in AllThreads \ {"save", "main"}, pc' = pc \/ (\E l : Goto(t, l)), UNCHANGED part_q,
             PartStays \/ (t \in Workers /\ \E o, x : PartCall(t, o, x))
      PROVE  PartNulls'
  <2>1. /\ pc'["save"] = pc["save"] /\ pc'["main"] = pc["main"]
        /\ part_op'["save"] = part_op["save"] /\ part_op'["main"] = part_op["main"]
        /\ part_item'["save"] = part_item["save"]
    BY <1>1, Facts DEF Goto, AllThreads
  <2>. QED
    BY <1>1, <1>a, <2>1 DEF PartNulls, SaveGone, NullSent, PartReturned
<1>2. CASE FetchFrame
  <2>1. PartStays /\ (pc' = pc \/ Goto("fetch", "exited"))
    BY <1>2 DEF FetchFrame, partVars
  <2>. QED
    BY <2>1, <1>1 DEF AllThreads
<1>3. ASSUME NEW w \in Workers,
             Decode(w) \/ NextFrame(w) \/ Watch(w) \/ WatchNext(w) \/ WatchExit(w)
      PROVE  PartNulls'
  <2>1. /\ UNCHANGED part_q /\ \E l : Goto(w, l)
        /\ PartStays \/ \E o, x : PartCall(w, o, x)
    BY <1>3 DEF Decode, NextFrame, Watch, WatchNext, WatchExit, PartQ!CallPush, PartQ!Call, partVars
  <2>. QED
    BY <2>1, <1>1, Roles DEF AllThreads
<1>4. CASE SaveOpen \/ SaveResult
  <2>1. /\ pc'["save"] \in {"saving", "draining"} /\ pc'["main"] = pc["main"] /\ ~SaveGone
        /\ PartCall("save", "pop", "null") /\ UNCHANGED part_q
    BY <1>4, Facts DEF SaveOpen, SaveResult, SaveGone, PartReturned, PartQ!CallPop, PartQ!Call,
                       Goto, AllThreads
  <2>2. /\ part_op'["save"] = "pop" /\ part_op'["main"] = part_op["main"]
    BY <2>1, Facts
  <2>3. ~SaveGone' /\ NullSent' = NullSent
    BY <2>1, <2>2 DEF SaveGone, NullSent, PartReturned
  <2>4. pc["main"] # "stopped"
    BY <1>a, <2>1 DEF PartNulls, SaveGone
  <2>. QED
    BY <1>a, <2>1, <2>3, <2>4 DEF PartNulls
<1>5. CASE SaveExit
  <2>1. /\ SaveGone /\ Goto("save", "exited") /\ PartStays
    BY <1>5 DEF SaveExit, SaveGone, partVars
  <2>2. pc'["main"] = pc["main"] /\ pc'["save"] = "exited"
    BY <2>1, Facts DEF Goto, AllThreads
  <2>3. SaveGone' /\ NullSent' = NullSent
    BY <2>1, <2>2 DEF SaveGone, NullSent, PartReturned
  <2>. QED
    BY <1>a, <2>1, <2>2, <2>3 DEF PartNulls
<1>6. CASE Start
  <2>1. part_q = <<>> /\ part_q' = part_q /\ pc'["main"] = "running" /\ pc'["save"] = "opening"
    BY <1>6, Stopped, PipelineAssumption DEF Start, partVars, AllThreads, Watchers
  <2>2. \A i \in 1 .. Len(part_q') : part_q'[i] # "null"
    BY <2>1, EmptySeq
  <2>. QED
    BY <2>1, <2>2 DEF PartNulls, SaveGone, NullSent
<1>7. CASE LeaveLoop \/ JoinFetch \/ PushNull
  <2>1. /\ PartStays
        /\ \/ pc' = pc
           \/ /\ pc["main"] \in Early \cup {"pushing_nulls"}
              /\ \E l \in {"joining_fetch", "pushing_nulls", "joining_workers"} : Goto("main", l)
    BY <1>7 DEF LeaveLoop, JoinFetch, PushNull, partVars, Early
  <2>2. pc'["save"] = pc["save"] /\ (pc' = pc \/ (pc["main"] \notin Late /\ pc'["main"] \notin Late))
    BY <2>1, Facts DEF Goto, AllThreads, Early, Late
  <2>. QED
    BY <1>a, <2>1, <2>2 DEF PartNulls, SaveGone, NullSent, PartReturned, Late
<1>8. CASE JoinWorkers
  <2>1. /\ pc["main"] = "joining_workers" /\ pc'["main"] = "joining_save" /\ pc'["save"] = pc["save"]
        /\ UNCHANGED part_q /\ PartCall("main", "push", "null")
    BY <1>8, Facts DEF JoinWorkers, Goto, AllThreads, PartQ!CallPush, PartQ!Call
  <2>2. /\ part_op'["main"] = "push" /\ part_op'["save"] = part_op["save"]
        /\ part_item'["save"] = part_item["save"]
    BY <2>1, Facts
  <2>. QED
    BY <1>a, <2>1, <2>2 DEF PartNulls, SaveGone, NullSent, PartReturned
<1>9. CASE JoinSave
  <2>1. NullSent /\ SaveGone /\ PartStays /\ pc'["main"] = "stopped" /\ pc'["save"] = "exited"
    BY <1>9, Facts DEF JoinSave, NullSent, SaveGone, Goto, AllThreads, partVars
  <2>. QED
    BY <1>a, <2>1 DEF PartNulls, NullSent
<1>10. ASSUME NEW t \in AllThreads, FrameSection(t)
       PROVE  PartNulls'
  <2>1. pc' = pc /\ PartStays
    BY <1>10, FrameSections DEF partVars
  <2>. QED
    BY <1>a, <2>1 DEF PartNulls, SaveGone, NullSent, PartReturned
<1>11. ASSUME NEW t \in AllThreads, PartSection(t)
       PROVE  PartNulls'
  <2>0. PartEffect(t) /\ pc' = pc /\ t \in Workers \cup {"main", "save"}
    BY <1>11, PartSections, Roles
  <2>1. CASE PartStays
    BY <1>a, <2>0, <2>1 DEF PartNulls, SaveGone, NullSent, PartReturned
  <2>2. CASE t \in Workers /\ ~PartStays
    <3>1. /\ part_op[t] = "push" /\ part_q' = Append(part_q, part_item[t])
          /\ PartReturns(t, "null")
      BY <2>0, <2>2, Facts DEF PartEffect
    <3>2. part_item[t] = "result" /\ pc["main"] \notin Late
      BY <1>a, <2>2, <3>1 DEF Control, AtWork
    <3>3. /\ part_op'["save"] = part_op["save"] /\ part_item'["save"] = part_item["save"]
          /\ part_op'["main"] = part_op["main"]
      BY <2>2, <3>1, Facts, Roles DEF PartReturns
    <3>4. ~SaveGone /\ \A i \in 1 .. Len(part_q) : part_q[i] # "null"
      BY <1>a, <3>2 DEF PartNulls, NullSent, Late
    <3>5. \A i \in 1 .. Len(part_q') : part_q'[i] # "null"
      BY <3>1, <3>2, <3>4, Facts, AppendProperties
    <3>6. ~SaveGone' /\ ~NullSent' /\ pc'["main"] # "stopped"
      BY <2>0, <3>2, <3>3, <3>4 DEF SaveGone, NullSent, PartReturned, Late
    <3>. QED
      BY <3>5, <3>6 DEF PartNulls
  <2>3. CASE t = "main" /\ ~PartStays
    <3>1. /\ part_op["main"] = "push" /\ part_q' = Append(part_q, part_item["main"])
          /\ PartReturns("main", "null")
      BY <2>0, <2>3, Facts DEF PartEffect
    <3>2. part_item["main"] = "null" /\ pc["main"] = "joining_save" /\ ~NullSent
      BY <1>a, <3>1 DEF Control, NullSent, PartReturned
    <3>3. /\ part_op'["save"] = part_op["save"] /\ part_item'["save"] = part_item["save"]
          /\ part_op'["main"] = "returned"
      BY <3>1, Facts DEF PartReturns
    <3>4. ~SaveGone /\ \A i \in 1 .. Len(part_q) : part_q[i] # "null"
      BY <1>a, <3>2 DEF PartNulls
    <3>5. /\ Len(part_q') = Len(part_q) + 1 /\ part_q'[Len(part_q) + 1] = "null"
          /\ \A i \in 1 .. Len(part_q) : part_q'[i] = part_q[i]
      BY <3>1, <3>2, Facts, AppendProperties
    <3>6. \A i \in 1 .. Len(part_q') : part_q'[i] = "null" <=> i = Len(part_q')
      BY <3>4, <3>5, Facts
    <3>7. part_q' # <<>>
      BY <3>5, Facts, EmptySeq
    <3>8. ~SaveGone' /\ NullSent' /\ pc'["main"] # "stopped"
      BY <2>0, <3>2, <3>3, <3>4 DEF SaveGone, NullSent, PartReturned
    <3>. QED
      BY <3>6, <3>7, <3>8 DEF PartNulls
  <2>4. CASE t = "save" /\ ~PartStays
    <3>1. /\ part_op["save"] = "pop" /\ part_q # <<>> /\ part_q' = Tail(part_q)
          /\ PartReturns("save", Head(part_q))
      BY <2>0, <2>4, Facts DEF PartEffect
    <3>2. /\ Len(part_q) \in Nat \ {0} /\ Head(part_q) = part_q[1] /\ Len(part_q') = Len(part_q) - 1
          /\ \A i \in 1 .. Len(part_q') : part_q'[i] = part_q[i + 1] /\ i + 1 \in 1 .. Len(part_q)
          /\ part_q' \in Seq({"result", "null"})
      <4>1. Len(part_q) \in Nat \ {0} /\ Head(part_q) = part_q[1]
        BY <3>1, Facts, EmptySeq
      <4>. QED
        BY <3>1, <4>1, Facts, HeadTailProperties
    <3>3. /\ part_op'["save"] = "returned" /\ part_item'["save"] = part_q[1]
          /\ part_op'["main"] = part_op["main"] /\ pc["save"] \in {"saving", "draining"}
      BY <1>a, <3>1, <3>2, Facts DEF PartReturns, Control
    <3>4. ~SaveGone /\ pc["main"] # "stopped" /\ NullSent' = NullSent /\ (SaveGone' <=> part_q[1] = "null")
      BY <1>a, <2>0, <3>1, <3>3 DEF SaveGone, PartReturned, NullSent, PartNulls
    <3>5. CASE ~NullSent
      <4>1. \A i \in 1 .. Len(part_q) : part_q[i] # "null"
        BY <1>a, <3>4, <3>5 DEF PartNulls
      <4>2. part_q[1] # "null" /\ \A i \in 1 .. Len(part_q') : part_q'[i] # "null"
        BY <3>2, <4>1
      <4>. QED
        BY <2>0, <3>4, <3>5, <4>2 DEF PartNulls
    <3>6. CASE NullSent
      <4>1. \A i \in 1 .. Len(part_q) : part_q[i] = "null" <=> i = Len(part_q)
        BY <1>a, <3>4, <3>6 DEF PartNulls
      <4>2. SaveGone' <=> Len(part_q) = 1
        BY <3>2, <3>4, <4>1
      <4>3. Len(part_q) = 1 => part_q' = <<>>
        BY <3>2, EmptySeq
      <4>4. Len(part_q) # 1 => part_q' # <<>>
        BY <3>2, EmptySeq
      <4>5. \A i \in 1 .. Len(part_q') : part_q'[i] = "null" <=> i = Len(part_q')
        BY <3>2, <4>1
      <4>. QED
        BY <2>0, <3>4, <3>6, <4>2, <4>3, <4>4, <4>5 DEF PartNulls, NullSent
    <3>. QED
      BY <3>5, <3>6
  <2>. QED
    BY <2>0, <2>1, <2>2, <2>3, <2>4
<1>12. CASE UNCHANGED vars \/ \E t \in AllThreads : SpuriousWakeup(t)
  <2>1. pc' = pc /\ PartStays
    BY <1>12 DEF vars, frameVars, partVars, SpuriousWakeup, FrameQ!SpuriousWakeup,
                 PartQ!SpuriousWakeup
  <2>. QED
    BY <1>a, <2>1 DEF PartNulls, SaveGone, NullSent, PartReturned
<1>. QED
  BY <1>2, <1>3, <1>4, <1>5, <1>6, <1>7, <1>8, <1>9, <1>10, <1>11, <1>12, Roles
  DEF Next, FetchStep, DecoderStep, WatcherStep, SaveStep, StopStep

-----------------------------------------------------------------------------
(* frame_q and the nulls that end the workers.                             *)

LEMMA WaitingFinite == IsFiniteSet(Waiting) /\ Cardinality(Waiting) \in Nat
BY WorkersFinite, FS_Subset, FS_CardinalityType DEF Waiting

(* Steps after which every worker stands to its null as before.            *)
LEMMA FramesKept ==
  ASSUME FrameNulls, UNCHANGED <<frame_q, nulls>>, frame_op'["main"] = frame_op["main"],
         pc'["main"] \in Early <=> pc["main"] \in Early,
         \A w \in Workers : (Gone(w)' <=> Gone(w)) /\ (Ended(w)' => Ended(w))
  PROVE  FrameNulls'
<1>1. PICK k \in 0 .. Len(frame_q) : Frames(k)
  BY DEF FrameNulls
<1>2. Waiting' = Waiting /\ Pushing' = Pushing
  BY DEF Waiting, Pushing
<1>3. Frames(k)'
  BY <1>1, <1>2 DEF Frames
<1>. QED
  BY <1>3 DEF FrameNulls

LEMMA FramesOfOthers ==
  ASSUME FrameNulls, UNCHANGED <<frame_q, nulls>>, frame_op'["main"] = frame_op["main"],
         pc'["main"] \in Early <=> pc["main"] \in Early,
         \A w \in Workers : pc'[w] = pc[w] /\ frame_op'[w] = frame_op[w] /\ frame_item'[w] = frame_item[w]
  PROVE  FrameNulls'
<1>1. \A w \in Workers : (Gone(w)' <=> Gone(w)) /\ (Ended(w)' => Ended(w))
  BY DEF Gone, Ended, FrameReturned
<1>. QED
  BY <1>1, FramesKept

LEMMA FramesOfWorker ==
  ASSUME TypeOK, FrameNulls, NEW w \in Workers, UNCHANGED <<frame_q, nulls>>, NEW l, Goto(w, l),
         \A t \in ({"main"} \cup Workers) \ {w} :
            frame_op'[t] = frame_op[t] /\ frame_item'[t] = frame_item[t],
         (Gone(w)' <=> Gone(w)) /\ (Ended(w)' => Ended(w))
  PROVE  FrameNulls'
<1>1. \A t \in ({"main"} \cup Workers) \ {w} : pc'[t] = pc[t]
  BY Facts DEF Goto, AllThreads
<1>2. \A v \in Workers : (Gone(v)' <=> Gone(v)) /\ (Ended(v)' => Ended(v))
  BY <1>1 DEF Gone, Ended, FrameReturned
<1>3. frame_op'["main"] = frame_op["main"] /\ pc'["main"] = pc["main"]
  BY <1>1, Roles
<1>. QED
  BY <1>2, <1>3, FramesKept

(* A turn of a worker under the mutex of frame_q: what Front and Pop give. *)
LEMMA WorkerTurn ==
  ASSUME TypeOK, Control, FrameNulls, NEW w \in Workers, pc' = pc, UNCHANGED nulls,
         frame_op[w] \in {"front", "pop"}, frame_q # <<>>, FrameReturns(w, Head(frame_q)),
         frame_q' = IF frame_op[w] = "pop" THEN Tail(frame_q) ELSE frame_q
  PROVE  FrameNulls'
<1>1. PICK k \in 0 .. Len(frame_q) : Frames(k)
  BY DEF FrameNulls
<1>2. /\ Len(frame_q) \in Nat \ {0} /\ Head(frame_q) = frame_q[1]
      /\ frame_q[1] \in {"frame", "null"} /\ (frame_q[1] = "null" <=> k = 0)
  <2>1. Len(frame_q) \in Nat \ {0} /\ Head(frame_q) = frame_q[1]
    BY Facts, EmptySeq
  <2>2. 1 \in 1 .. Len(frame_q) /\ frame_q[1] \in {"frame", "null"}
    BY <2>1, Facts, ElementOfSeq
  <2>. QED
    BY <1>1, <2>1, <2>2 DEF Frames
<1>3. /\ frame_op'[w] = "returned" /\ frame_item'[w] = frame_q[1]
      /\ \A t \in ({"main"} \cup Workers) \ {w} :
            frame_op'[t] = frame_op[t] /\ frame_item'[t] = frame_item[t]
  BY <1>2, Facts DEF FrameReturns
<1>4. /\ pc[w] \in {"popping", "peeking", "taking"}
      /\ frame_op[w] = "front" => pc[w] = "peeking"
      /\ frame_op[w] = "pop" => pc[w] \in {"popping", "taking"}
  BY DEF Control, AtWork
<1>5. \A v \in Workers \ {w} : (Gone(v)' <=> Gone(v)) /\ (Ended(v)' <=> Ended(v))
  BY <1>3 DEF Gone, Ended, FrameReturned
<1>6. ~Gone(w) /\ (Ended(w)' <=> pc[w] = "taking" \/ k = 0) /\ (Ended(w) <=> pc[w] = "taking")
  BY <1>2, <1>3, <1>4 DEF Gone, Ended, FrameReturned
<1>7. pc[w] = "taking" => k = 0
  BY <1>1, <1>6 DEF Frames
<1>8. Gone(w)' <=> frame_op[w] = "pop" /\ k = 0
  BY <1>2, <1>3, <1>4, <1>7 DEF Gone, FrameReturned
<1>9. Pushing' = Pushing /\ Pushing \in Nat
  BY <1>3, Roles DEF Pushing
<1>10. k = 0 => pc["main"] \notin Early
  BY <1>1, <1>2 DEF Frames
<1>11. (\E v \in Workers : Ended(v)') => k = 0
  BY <1>1, <1>5, <1>6, <1>7 DEF Frames
<1>12. CASE frame_op[w] = "front"
  <2>1. Waiting' = Waiting
    BY <1>5, <1>6, <1>8, <1>12 DEF Waiting
  <2>2. frame_q' = frame_q
    BY <1>12
  <2>3. pc["main"] \in Early => \A v \in Workers : ~Ended(v)'
    BY <1>10, <1>11
  <2>4. Frames(k)'
    BY <1>1, <1>9, <1>11, <2>1, <2>2, <2>3 DEF Frames
  <2>. QED
    BY <2>2, <2>4 DEF FrameNulls
<1>13. CASE frame_op[w] = "pop"
  <2>1. /\ Len(frame_q') = Len(frame_q) - 1
        /\ \A i \in 1 .. Len(frame_q') : frame_q'[i] = frame_q[i + 1] /\ i + 1 \in 1 .. Len(frame_q)
    BY <1>2, <1>13, Facts, HeadTailProperties
  <2>2. pc["main"] \in Early => \A v \in Workers : ~Ended(v)'
    BY <1>10, <1>11
  <2>3. CASE k = 0
    <3>1. Waiting' = Waiting \ {w} /\ w \in Waiting
      BY <1>5, <1>6, <1>8, <1>13, <2>3 DEF Waiting
    <3>2. Cardinality(Waiting') = Cardinality(Waiting) - 1
      BY <3>1, WaitingFinite, FS_RemoveElement
    <3>3. /\ \A i \in 1 .. Len(frame_q') : frame_q'[i] = "null" <=> i > 0
          /\ (Len(frame_q') - 0) + nulls + Pushing = Cardinality(Waiting')
      BY <1>1, <1>2, <1>9, <1>10, <2>1, <2>3, <3>2, WaitingFinite, WorkersFinite DEF Frames, TypeOK
    <3>4. Frames(0)'
      BY <1>9, <1>10, <2>2, <2>3, <3>3 DEF Frames
    <3>. QED
      BY <1>2, <2>1, <3>4 DEF FrameNulls
  <2>4. CASE k > 0
    <3>1. Waiting' = Waiting
      BY <1>5, <1>6, <1>8, <2>4 DEF Waiting
    <3>2. /\ \A i \in 1 .. Len(frame_q') : frame_q'[i] = "null" <=> i > k - 1
          /\ pc["main"] \in Early => k - 1 = Len(frame_q')
          /\ Len(frame_q') - (k - 1) = Len(frame_q) - k
      BY <1>1, <1>2, <2>1, <2>4 DEF Frames
    <3>3. Frames(k - 1)'
      BY <1>1, <1>9, <1>11, <2>2, <2>4, <3>1, <3>2 DEF Frames
    <3>4. k - 1 \in 0 .. Len(frame_q')
      BY <1>2, <2>1, <2>4
    <3>. QED
      BY <3>3, <3>4 DEF FrameNulls
  <2>. QED
    BY <2>3, <2>4
<1>. QED
  BY <1>12, <1>13

LEMMA FrameNullsStep == TypeOK /\ IInv /\ Control' /\ [Next]_vars => FrameNulls'
<1> SUFFICES ASSUME TypeOK, IInv, Control', [Next]_vars
             PROVE  FrameNulls'
  OBVIOUS
<1>a. Control /\ FrameNulls
  BY DEF IInv
<1>b. /\ \A w \in Workers : w \notin {"fetch", "main", "save"} /\ w \in AllThreads
      /\ {"fetch", "main", "save"} \subseteq AllThreads
  BY Roles DEF AllThreads
<1> DEFINE FrameCall(t, o, x) == /\ frame_op' = [frame_op EXCEPT ![t] = o]
                                 /\ frame_item' = [frame_item EXCEPT ![t] = x]
           FrameStays == UNCHANGED <<frame_q, frame_op, frame_item>>
<1>1. CASE FetchFrame
  <2>1. /\ UNCHANGED <<frame_q, nulls>> /\ (pc' = pc \/ Goto("fetch", "exited"))
        /\ FrameStays \/ FrameCall("fetch", "push", "frame")
    BY <1>1 DEF FetchFrame, FrameQ!CallPush, FrameQ!Call, frameVars
  <2>2. /\ frame_op'["main"] = frame_op["main"] /\ pc'["main"] = pc["main"]
        /\ \A w \in Workers : pc'[w] = pc[w] /\ frame_op'[w] = frame_op[w] /\ frame_item'[w] = frame_item[w]
    BY <1>b, <2>1, Facts DEF Goto
  <2>. QED
    BY <1>a, <2>1, <2>2, FramesOfOthers
<1>2. ASSUME NEW d \in Decoders, Decode(d)
      PROVE  FrameNulls'
  <2>1. /\ FrameStays /\ UNCHANGED nulls /\ pc[d] = "popping" /\ FrameReturned(d)
        /\ \/ Goto(d, "exited") /\ frame_item[d] = "null"
           \/ Goto(d, "pushing") /\ frame_item[d] = "frame"
    BY <1>2 DEF Decode, frameVars
  <2>2. (Gone(d)' <=> Gone(d)) /\ (Ended(d)' => Ended(d))
    BY <1>b, <2>1, Facts, Roles DEF Gone, Ended, FrameReturned, Goto
  <2>. QED
    BY <1>a, <2>1, <2>2, FramesOfWorker, Roles
<1>3. ASSUME NEW d \in Decoders, NextFrame(d)
      PROVE  FrameNulls'
  <2>1. /\ UNCHANGED <<frame_q, nulls>> /\ pc[d] = "pushing" /\ Goto(d, "popping")
        /\ FrameCall(d, "pop", "null")
    BY <1>3 DEF NextFrame, FrameQ!CallPop, FrameQ!Call
  <2>2. (Gone(d)' <=> Gone(d)) /\ (Ended(d)' => Ended(d))
    BY <1>b, <2>1, Facts, Roles DEF Gone, Ended, FrameReturned, Goto
  <2>3. \A t \in ({"main"} \cup Workers) \ {d} :
           frame_op'[t] = frame_op[t] /\ frame_item'[t] = frame_item[t]
    BY <2>1, Facts
  <2>. QED
    BY <1>a, <2>1, <2>2, <2>3, FramesOfWorker, Roles
<1>4. ASSUME NEW w \in Watchers, Watch(w)
      PROVE  FrameNulls'
  <2>1. /\ UNCHANGED <<frame_q, nulls>> /\ pc[w] = "peeking" /\ FrameReturned(w)
        /\ \/ Goto(w, "taking") /\ frame_item[w] = "null" /\ FrameCall(w, "pop", "null")
           \/ Goto(w, "pushing") /\ frame_item[w] = "frame" /\ FrameStays
    BY <1>4 DEF Watch, FrameQ!CallPop, FrameQ!Call, frameVars
  <2>2. (Gone(w)' <=> Gone(w)) /\ (Ended(w)' => Ended(w))
    BY <1>b, <2>1, Facts, Roles DEF Gone, Ended, FrameReturned, Goto
  <2>3. /\ \E l : Goto(w, l)
        /\ \A t \in ({"main"} \cup Workers) \ {w} :
              frame_op'[t] = frame_op[t] /\ frame_item'[t] = frame_item[t]
    BY <2>1, Facts
  <2>. QED
    BY <1>a, <2>1, <2>2, <2>3, FramesOfWorker, Roles
<1>5. ASSUME NEW w \in Watchers, WatchNext(w)
      PROVE  FrameNulls'
  <2>1. /\ UNCHANGED <<frame_q, nulls>> /\ pc[w] = "pushing" /\ Goto(w, "peeking")
        /\ FrameCall(w, "front", "null")
    BY <1>5 DEF WatchNext, FrameQ!CallFront, FrameQ!Call
  <2>2. (Gone(w)' <=> Gone(w)) /\ (Ended(w)' => Ended(w))
    BY <1>b, <2>1, Facts, Roles DEF Gone, Ended, FrameReturned, Goto
  <2>3. \A t \in ({"main"} \cup Workers) \ {w} :
           frame_op'[t] = frame_op[t] /\ frame_item'[t] = frame_item[t]
    BY <2>1, Facts
  <2>. QED
    BY <1>a, <2>1, <2>2, <2>3, FramesOfWorker, Roles
<1>6. ASSUME NEW w \in Watchers, WatchExit(w)
      PROVE  FrameNulls'
  <2>1. /\ FrameStays /\ UNCHANGED nulls /\ pc[w] = "taking" /\ FrameReturned(w) /\ Goto(w, "exited")
    BY <1>6 DEF WatchExit, frameVars
  <2>2. (Gone(w)' <=> Gone(w)) /\ (Ended(w)' => Ended(w))
    BY <1>b, <2>1, Facts, Roles DEF Gone, Ended, FrameReturned, Goto
  <2>. QED
    BY <1>a, <2>1, <2>2, FramesOfWorker, Roles
<1>7. CASE SaveStep
  <2>1. /\ FrameStays /\ UNCHANGED nulls /\ (pc' = pc \/ \E l : Goto("save", l))
    BY <1>7 DEF SaveStep, SaveOpen, SaveExit, SaveResult, frameVars
  <2>2. pc'["main"] = pc["main"] /\ \A w \in Workers : pc'[w] = pc[w]
    BY <1>b, <2>1, Facts DEF Goto
  <2>. QED
    BY <1>a, <2>1, <2>2, FramesOfOthers
<1>8. CASE Start
  <2>1. frame_q' = <<>> /\ Len(frame_q') = 0
    BY <1>8, Stopped, EmptySeq DEF Start
  <2>2. /\ pc'["main"] = "running"
        /\ \A w \in Workers : pc'[w] \in {"popping", "peeking"} /\ frame_op'[w] \in {"pop", "front"}
    BY <1>8, Facts, Roles, PipelineAssumption DEF Start, AllThreads, Workers, Watchers
  <2>3. \A w \in Workers : ~Ended(w)'
    BY <2>2 DEF Ended, FrameReturned
  <2>4. Frames(0)'
    BY <2>1, <2>2, <2>3 DEF Frames, Early
  <2>. QED
    BY <2>1, <2>4 DEF FrameNulls
<1>9. CASE LeaveLoop \/ JoinWorkers \/ JoinSave
  <2>1. /\ FrameStays /\ UNCHANGED nulls
        /\ \/ pc["main"] = "running" /\ Goto("main", "joining_fetch")
           \/ pc["main"] = "joining_workers" /\ Goto("main", "joining_save")
           \/ pc["main"] = "joining_save" /\ Goto("main", "stopped")
    BY <1>9 DEF LeaveLoop, JoinWorkers, JoinSave, frameVars
  <2>2. /\ pc'["main"] \in Early <=> pc["main"] \in Early
        /\ \A w \in Workers : pc'[w] = pc[w]
    BY <1>b, <2>1, Facts DEF Goto, Early
  <2>. QED
    BY <1>a, <2>1, <2>2, FramesOfOthers
<1>10. CASE JoinFetch
  <2>1. /\ FrameStays /\ pc["main"] = "joining_fetch" /\ Goto("main", "pushing_nulls")
        /\ nulls' = Cardinality(Workers)
    BY <1>10 DEF JoinFetch, frameVars
  <2>2. pc'["main"] = "pushing_nulls" /\ \A w \in Workers : pc'[w] = pc[w]
    BY <1>b, <2>1, Facts DEF Goto
  <2>3. PICK k \in 0 .. Len(frame_q) : Frames(k)
    BY <1>a DEF FrameNulls
  <2>4. k = Len(frame_q) /\ \A w \in Workers : ~Ended(w)
    BY <2>1, <2>3 DEF Frames, Early
  <2>5. \A w \in Workers : ~Ended(w)' /\ ~Gone(w)'
    BY <2>1, <2>2, <2>4 DEF Ended, Gone, FrameReturned
  <2>6. Waiting' = Workers
    BY <2>5 DEF Waiting
  <2>7. Pushing' = 0
    BY <1>a, <2>1, Facts DEF Control, Pushing
  <2>8. (Len(frame_q') - k) + nulls' + Pushing' = Cardinality(Waiting')
    BY <2>1, <2>4, <2>6, <2>7, Facts, WorkersFinite
  <2>9. Frames(k)'
    BY <2>1, <2>2, <2>3, <2>5, <2>8 DEF Frames, Early
  <2>. QED
    BY <2>1, <2>9 DEF FrameNulls
<1>11. CASE PushNull
  <2>1. UNCHANGED frame_q /\ pc["main"] = "pushing_nulls" /\ frame_op["main"] = "returned"
    BY <1>11 DEF PushNull, FrameReturned, FrameQ!CallPush, FrameQ!Call, frameVars
  <2>2. CASE FrameCall("main", "push", "null") /\ pc' = pc /\ nulls > 0 /\ nulls' = nulls - 1
    <3>1. PICK k \in 0 .. Len(frame_q) : Frames(k)
      BY <1>a DEF FrameNulls
    <3>2. \A w \in Workers : frame_op'[w] = frame_op[w] /\ frame_item'[w] = frame_item[w]
      BY <1>b, <2>2, Facts
    <3>3. \A w \in Workers : (Gone(w)' <=> Gone(w)) /\ (Ended(w)' <=> Ended(w))
      BY <2>2, <3>2 DEF Gone, Ended, FrameReturned
    <3>4. Waiting' = Waiting
      BY <3>3 DEF Waiting
    <3>5. Pushing = 0 /\ Pushing' = 1
      BY <2>1, <2>2, Facts DEF Pushing
    <3>6. (Len(frame_q') - k) + nulls' + Pushing' = Cardinality(Waiting')
      BY <2>1, <2>2, <3>1, <3>4, <3>5, Facts, WaitingFinite, WorkersFinite DEF Frames, Early, TypeOK
    <3>7. Frames(k)'
      BY <2>1, <2>2, <3>1, <3>3, <3>6 DEF Frames, Early
    <3>. QED
      BY <2>1, <3>7 DEF FrameNulls
  <2>3. CASE Goto("main", "joining_workers") /\ FrameStays /\ UNCHANGED nulls
    <3>1. pc'["main"] = "joining_workers" /\ \A w \in Workers : pc'[w] = pc[w]
      BY <1>b, <2>3, Facts DEF Goto
    <3>. QED
      BY <1>a, <2>1, <2>3, <3>1, FramesOfOthers DEF Early
  <2>. QED
    BY <1>11, <2>2, <2>3 DEF PushNull, FrameQ!CallPush, FrameQ!Call, frameVars
<1>12. ASSUME NEW t \in AllThreads, FrameSection(t)
       PROVE  FrameNulls'
  <2>1. FrameEffect(t) /\ UNCHANGED <<pc, nulls>> /\ t \in {"fetch", "main"} \cup Workers
    BY <1>12, FrameSections, Roles
  <2>2. CASE FrameStays
    BY <1>a, <2>1, <2>2, FramesOfOthers
  <2>3. CASE t \in Workers /\ ~FrameStays
    <3>1. frame_op[t] \in {"returned", "front", "pop"}
      BY <2>3, Facts DEF Workers
    <3>2. /\ frame_op[t] \in {"front", "pop"} /\ frame_q # <<>> /\ FrameReturns(t, Head(frame_q))
          /\ frame_q' = IF frame_op[t] = "pop" THEN Tail(frame_q) ELSE frame_q
      BY <2>1, <2>3, <3>1 DEF FrameEffect
    <3>. QED
      BY <1>a, <2>1, <2>3, <3>2, WorkerTurn
  <2>4. CASE t \in {"fetch", "main"} /\ ~FrameStays
    <3>1. /\ frame_op[t] = "push" /\ frame_q' = Append(frame_q, frame_item[t])
          /\ FrameReturns(t, "null")
      BY <2>1, <2>4, Facts DEF FrameEffect
    <3>2. PICK k \in 0 .. Len(frame_q) : Frames(k)
      BY <1>a DEF FrameNulls
    <3>3. /\ Len(frame_q') = Len(frame_q) + 1 /\ frame_q'[Len(frame_q) + 1] = frame_item[t]
          /\ \A i \in 1 .. Len(frame_q) : frame_q'[i] = frame_q[i]
          /\ \A i \in 1 .. Len(frame_q') : i \in 1 .. Len(frame_q) \/ i = Len(frame_q) + 1
      <4>1. frame_item[t] \in {"frame", "null"}
        BY <2>4, Facts
      <4>2. /\ Len(frame_q') = Len(frame_q) + 1 /\ frame_q'[Len(frame_q) + 1] = frame_item[t]
            /\ \A i \in 1 .. Len(frame_q) : frame_q'[i] = frame_q[i]
        BY <3>1, <4>1, Facts, AppendProperties
      <4>. QED
        BY <4>2, Facts
    <3>4. \A w \in Workers : frame_op'[w] = frame_op[w] /\ frame_item'[w] = frame_item[w]
      BY <1>b, <2>4, <3>1, Facts DEF FrameReturns
    <3>5. \A w \in Workers : (Gone(w)' <=> Gone(w)) /\ (Ended(w)' <=> Ended(w))
      BY <2>1, <3>4 DEF Gone, Ended, FrameReturned
    <3>6. Waiting' = Waiting
      BY <3>5 DEF Waiting
    <3>7. CASE t = "fetch"
      <4>1. frame_item["fetch"] = "frame" /\ pc["main"] \in Early
        BY <1>a, <3>1, <3>7 DEF Control
      <4>2. k = Len(frame_q) /\ \A w \in Workers : ~Ended(w)'
        BY <3>2, <3>5, <4>1 DEF Frames
      <4>3. \A i \in 1 .. Len(frame_q') : frame_q'[i] = "null" <=> i > k + 1
        BY <3>2, <3>3, <3>7, <4>1, <4>2, Facts DEF Frames
      <4>4. Frames(k + 1)'
        BY <2>1, <3>3, <4>1, <4>2, <4>3 DEF Frames
      <4>. QED
        BY <3>3, <4>2, <4>4, Facts DEF FrameNulls
    <3>8. CASE t = "main"
      <4>1. frame_item["main"] = "null" /\ pc["main"] = "pushing_nulls" /\ Pushing = 1
        BY <1>a, <3>1, <3>8 DEF Control, Pushing
      <4>2. Pushing' = 0
        BY <3>1, <3>8, Facts DEF Pushing, FrameReturns
      <4>3. \A i \in 1 .. Len(frame_q') : frame_q'[i] = "null" <=> i > k
        BY <3>2, <3>3, <3>8, <4>1, Facts DEF Frames
      <4>4. (Len(frame_q') - k) + nulls' + Pushing' = Cardinality(Waiting')
        BY <2>1, <3>2, <3>3, <3>6, <4>1, <4>2, Facts, WaitingFinite, WorkersFinite
        DEF Frames, Early, TypeOK
      <4>5. Frames(k)'
        BY <2>1, <3>2, <3>5, <4>1, <4>3, <4>4 DEF Frames, Early
      <4>. QED
        BY <3>3, <4>5, Facts DEF FrameNulls
    <3>. QED
      BY <2>4, <3>7, <3>8
  <2>. QED
    BY <2>1, <2>2, <2>3, <2>4
<1>13. ASSUME NEW t \in AllThreads, PartSection(t)
       PROVE  FrameNulls'
  <2>1. pc' = pc /\ FrameStays /\ UNCHANGED nulls
    BY <1>13, PartSections DEF frameVars
  <2>. QED
    BY <1>a, <2>1, FramesOfOthers
<1>14. CASE UNCHANGED vars \/ \E t \in AllThreads : SpuriousWakeup(t)
  <2>1. pc' = pc /\ FrameStays /\ UNCHANGED nulls
    BY <1>14 DEF vars, frameVars, partVars, SpuriousWakeup, FrameQ!SpuriousWakeup,
                 PartQ!SpuriousWakeup
  <2>. QED
    BY <1>a, <2>1, FramesOfOthers
<1>. QED
  BY <1>1, <1>2, <1>3, <1>4, <1>5, <1>6, <1>7, <1>8, <1>9, <1>10, <1>11, <1>12, <1>13, <1>14
  DEF Next, FetchStep, DecoderStep, WatcherStep, StopStep

-----------------------------------------------------------------------------
LEMMA IInit == Init => IInv
<1> SUFFICES ASSUME Init
             PROVE  IInv
  OBVIOUS
<1>1. /\ pc["main"] = "stopped" /\ \A t \in AllThreads \ {"main"} : pc[t] = "exited"
      /\ frame_q = <<>> /\ part_q = <<>> /\ Len(frame_q) = 0 /\ nulls = 0
      /\ \A t \in {"fetch", "main"} \cup Workers : frame_op[t] = "returned"
      /\ \A t \in Workers \cup {"main", "save"} : part_op[t] = "returned"
  BY Roles, EmptySeq DEF Init, FrameQ!Init, PartQ!Init, AllThreads
<1>2. \A w \in Workers : pc[w] = "exited" /\ AtWork(w)
  BY <1>1, Roles DEF AtWork
<1>3. Control
  BY <1>1, <1>2 DEF Control, Early, Late, AllThreads
<1>4. FrameNulls
  <2>1. Waiting = {} /\ Pushing = 0
    BY <1>1, <1>2 DEF Waiting, Gone, Pushing
  <2>2. Frames(0)
    BY <1>1, <2>1, FS_EmptySet DEF Frames, Early
  <2>. QED
    BY <1>1, <2>2 DEF FrameNulls
<1>5. PartNulls
  BY <1>1 DEF PartNulls, NullSent, AllThreads
<1>. QED
  BY <1>3, <1>4, <1>5 DEF IInv

LEMMA Invariance == Spec => [](TypeOK /\ IInv)
<1>1. TypeOK /\ IInv /\ [Next]_vars => (TypeOK /\ IInv)'
  BY TypeStep, ControlStep, PartNullsStep, FrameNullsStep DEF IInv
<1>. QED
  BY TypeInit, IInit, <1>1, PTL DEF Spec

(* The types of the threads' places and of both queues.                    *)
THEOREM TypeCorrect == Spec => []TypeOK
BY Invariance, PTL

(* CleanStop: however many decoders there are and wherever the threads     *)
(* were when the stop began, it leaves both queues empty.                  *)
THEOREM CleanStopCorrect == Spec => []CleanStop
<1>1. TypeOK /\ IInv => CleanStop
  BY Stopped DEF CleanStop
<1>. QED
  BY <1>1, Invariance, PTL

(* NullsAfterWork: no frame is queued behind a null of frame_q, and no     *)
(* result behind the null of part_q.                                       *)
THEOREM NullsAfterWorkCorrect == Spec => []NullsAfterWork
<1>1. TypeOK /\ IInv => NullsAfterWork
  <2> SUFFICES ASSUME TypeOK, IInv
               PROVE  NullsLast(frame_q) /\ NullsLast(part_q)
    BY DEF NullsAfterWork
  <2>1. DOMAIN frame_q = 1 .. Len(frame_q) /\ DOMAIN part_q = 1 .. Len(part_q)
    BY Facts, LenProperties
  <2>2. NullsLast(frame_q)
    <3>1. PICK k \in 0 .. Len(frame_q) : Frames(k)
      BY DEF IInv, FrameNulls
    <3>2. \A i, j \in 1 .. Len(frame_q) : i < j /\ frame_q[i] = "null" => frame_q[j] = "null"
      BY <3>1, Facts DEF Frames
    <3>. QED
      BY <2>1, <3>2 DEF NullsLast
  <2>3. NullsLast(part_q)
    <3>1. \/ \A i \in 1 .. Len(part_q) : part_q[i] # "null"
          \/ \A i \in 1 .. Len(part_q) : part_q[i] = "null" <=> i = Len(part_q)
      BY EmptySeq DEF IInv, PartNulls
    <3>2. \A i, j \in 1 .. Len(part_q) : i < j /\ part_q[i] = "null" => part_q[j] = "null"
      BY <3>1, Facts
    <3>. QED
      BY <2>1, <3>2 DEF NullsLast
  <2>. QED
    BY <2>2, <2>3
<1>. QED
  BY <1>1, Invariance, PTL
=============================================================================
