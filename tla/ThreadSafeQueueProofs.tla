----------------------- MODULE ThreadSafeQueueProofs -----------------------
(***************************************************************************)
(* Proofs about ThreadSafeQueue, for any number of threads in each role,   *)
(* any bound and any items.                                                *)
(***************************************************************************)
EXTENDS ThreadSafeQueue, FiniteSetTheorems, TLAPS

(* Facts about sets of threads and their sizes.                            *)
LEMMA ThreadsFinite ==
    \A S \in SUBSET Threads : IsFiniteSet(S) /\ Cardinality(S) \in Nat
BY RolesAssumption, FS_Subset, FS_CardinalityType

(* A set of threads that only grows does not get smaller.                  *)
LEMMA Grows ==
  ASSUME NEW T \in SUBSET Threads, NEW S \in SUBSET T
  PROVE  Cardinality(S) <= Cardinality(T)
BY ThreadsFinite, FS_Subset

(* What one thread more or less does to the count.                         *)
LEMMA OneMore ==
  ASSUME NEW S \in SUBSET Threads, NEW t \in Threads, t \notin S
  PROVE  Cardinality(S \cup {t}) = Cardinality(S) + 1
BY ThreadsFinite, FS_AddElement

LEMMA OneLess ==
  ASSUME NEW S \in SUBSET Threads, NEW t \in Threads
  PROVE  Cardinality(S) <= Cardinality(S \ {t}) + 1
<1>1. CASE t \in S
  <2>1. S = (S \ {t}) \cup {t} /\ S \ {t} \in SUBSET Threads /\ t \notin S \ {t}
    BY <1>1
  <2>. QED
    BY <2>1, ThreadsFinite, OneMore
<1>2. CASE t \notin S
  <2>1. S \ {t} = S
    BY <1>2
  <2>. QED
    BY <2>1, ThreadsFinite
<1>. QED
  BY <1>1, <1>2

(* A notification of sleepers wakes exactly one of them.                   *)
LEMMA NotifyWakesOne ==
  ASSUME NEW cv, cv # {}, NEW next \in NotifyOne(cv)
  PROVE  \E t \in cv : next = cv \ {t}
BY DEF NotifyOne

-----------------------------------------------------------------------------
(* Type correctness.                                                       *)

LEMMA TypeInit == Init => TypeOK
BY DEF Init, TypeOK, Value, Threads

LEMMA TypeStep == TypeOK /\ [Next]_vars => TypeOK'
<1> SUFFICES ASSUME TypeOK, [Next]_vars
             PROVE  TypeOK'
  OBVIOUS
<1> USE RolesAssumption DEF TypeOK, Value, Threads
<1>1. ASSUME NEW t \in Pushers, NEW x \in Value, CallPush(t, x) PROVE TypeOK'
  BY <1>1 DEF CallPush, Call
<1>2. ASSUME NEW t \in Peekers, CallFront(t) PROVE TypeOK'
  BY <1>2 DEF CallFront, Call
<1>3. ASSUME NEW t \in Poppers \cup Peekers, CallPop(t) PROVE TypeOK'
  BY <1>3 DEF CallPop, Call
<1>4. ASSUME NEW t \in Threads, Push(t) PROVE TypeOK'
  <2>1. t \in Pushers /\ t \notin cv_in
    BY <1>4 DEF Push
  <2>2. CASE SleepIn(t)
    BY <1>4, <2>1, <2>2 DEF Push, SleepIn
  <2>3. CASE ~SleepIn(t)
    <3>1. /\ m_queue' = Append(m_queue, item[t])
          /\ Return(t, Null)
          /\ cv_in' = cv_in
      BY <1>4, <2>3 DEF Push
    <3>2. cv_out' \subseteq cv_out
      BY <1>4, <2>3 DEF Push, NotifyOne
    <3>. QED
      BY <2>1, <3>1, <3>2 DEF Return
  <2>. QED
    BY <2>2, <2>3
<1>5. ASSUME NEW t \in Threads, Front(t) PROVE TypeOK'
  BY <1>5 DEF Front, SleepOut, Return, HasItem
<1>6. ASSUME NEW t \in Threads, Pop(t) PROVE TypeOK'
  BY <1>6 DEF Pop, SleepOut, Return, NotifyOne, HasItem
<1>7. ASSUME NEW t \in Threads, SpuriousWakeup(t) PROVE TypeOK'
  BY <1>7 DEF SpuriousWakeup
<1>8. CASE UNCHANGED vars
  BY <1>8 DEF vars
<1>. QED
  BY <1>1, <1>2, <1>3, <1>4, <1>5, <1>6, <1>7, <1>8 DEF Next, Section

(* TypeOK holds in every reachable state: in particular a thread sleeps    *)
(* only on the condition variable of the call it is in.                    *)
THEOREM TypeCorrect == Spec => []TypeOK
BY TypeInit, TypeStep, PTL DEF Spec

-----------------------------------------------------------------------------
(* The bound.                                                              *)

LEMMA BoundedStep == TypeOK /\ Bounded /\ [Next]_vars => Bounded'
<1> SUFFICES ASSUME TypeOK, Bounded, [Next]_vars
             PROVE  Bounded'
  OBVIOUS
<1> USE MaxSizeAssumption DEF TypeOK, Bounded
<1>1. ASSUME NEW t \in Threads, Push(t) PROVE Bounded'
  BY <1>1 DEF Push, SleepIn, HasRoom
<1>2. ASSUME NEW t \in Threads, Front(t) PROVE Bounded'
  BY <1>2 DEF Front, SleepOut
<1>3. ASSUME NEW t \in Threads, Pop(t) PROVE Bounded'
  BY <1>3 DEF Pop, SleepOut, HasItem
<1>4. CASE UNCHANGED m_queue
  BY <1>4
<1>. QED
  BY <1>1, <1>2, <1>3, <1>4
  DEF Next, Section, CallPush, CallFront, CallPop, Call, SpuriousWakeup, vars

(* The queue never holds more than m_max_size items.                       *)
THEOREM BoundedCorrect == Spec => []Bounded
<1>1. Init => Bounded
  BY MaxSizeAssumption DEF Init, Bounded
<1>2. TypeOK /\ Bounded /\ [Next]_vars => (TypeOK /\ Bounded)'
  BY TypeStep, BoundedStep
<1>. QED
  BY TypeInit, <1>1, <1>2, PTL DEF Spec

-----------------------------------------------------------------------------
(* No notification for a pusher is lost.                                   *)

LEMMA RoomStep == TypeOK /\ NoLostRoom /\ [Next]_vars => NoLostRoom'
<1> SUFFICES ASSUME TypeOK, NoLostRoom, [Next]_vars, cv_in' # {}
             PROVE  /\ MaxSize # 0
                    /\ MaxSize <= Len(m_queue') + Cardinality(AwakePushers')
  BY DEF NoLostRoom
<1> USE MaxSizeAssumption
<1>a. /\ AwakePushers \in SUBSET Threads
      /\ AwakePushers' \in SUBSET Threads
      /\ Cardinality(AwakePushers) \in Nat
      /\ Cardinality(AwakePushers') \in Nat
  BY ThreadsFinite DEF AwakePushers, Threads
<1>b. Len(m_queue) \in Nat /\ Len(m_queue') \in Nat
  BY TypeStep DEF TypeOK
<1>c. cv_in # {} => MaxSize # 0 /\ MaxSize <= Len(m_queue) + Cardinality(AwakePushers)
  BY DEF NoLostRoom
<1>d. ASSUME cv_in # {}, AwakePushers \subseteq AwakePushers', m_queue' = m_queue
      PROVE  MaxSize # 0 /\ MaxSize <= Len(m_queue') + Cardinality(AwakePushers')
  <2>1. Cardinality(AwakePushers) <= Cardinality(AwakePushers')
    BY <1>a, <1>d, Grows
  <2>. QED
    BY <1>a, <1>b, <1>c, <1>d, <2>1
<1>1. ASSUME NEW t \in Threads, Push(t)
      PROVE  MaxSize # 0 /\ MaxSize <= Len(m_queue') + Cardinality(AwakePushers')
  <2>1. CASE ~HasRoom
    <3>1. m_queue' = m_queue /\ MaxSize # 0 /\ MaxSize <= Len(m_queue)
      BY <1>1, <1>b, <2>1 DEF Push, SleepIn, HasRoom
    <3>. QED
      BY <1>a, <1>b, <3>1
  <2>2. CASE HasRoom
    <3>1. cv_in # {} /\ Len(m_queue') = Len(m_queue) + 1
      BY <1>1, <2>2 DEF Push, TypeOK
    <3>2. AwakePushers \ {t} \subseteq AwakePushers'
      BY <1>1, <2>2 DEF Push, Return, AwakePushers, TypeOK, Threads
    <3>3. Cardinality(AwakePushers \ {t}) <= Cardinality(AwakePushers')
      BY <1>a, <3>2, Grows
    <3>4. Cardinality(AwakePushers) <= Cardinality(AwakePushers \ {t}) + 1
      BY <1>a, OneLess
    <3>5. Cardinality(AwakePushers \ {t}) \in Nat
      BY <1>a, ThreadsFinite
    <3>. QED
      BY <1>a, <1>b, <1>c, <3>1, <3>3, <3>4, <3>5
  <2>. QED
    BY <2>1, <2>2
<1>2. ASSUME NEW t \in Threads, Pop(t)
      PROVE  MaxSize # 0 /\ MaxSize <= Len(m_queue') + Cardinality(AwakePushers')
  <2>1. CASE ~HasItem
    BY <1>d, <1>2, <2>1 DEF Pop, SleepOut, AwakePushers
  <2>2. CASE HasItem
    <3>1. cv_in # {}
      BY <1>2, <2>2 DEF Pop, NotifyOne
    <3>2. PICK s \in cv_in : cv_in' = cv_in \ {s}
      BY <1>2, <2>2, <3>1, NotifyWakesOne DEF Pop
    <3>3. Len(m_queue') + 1 = Len(m_queue)
      BY <1>2, <2>2 DEF Pop, HasItem, TypeOK
    <3>4. AwakePushers \cup {s} \subseteq AwakePushers' /\ s \notin AwakePushers /\ s \in Threads
      <4>1. t \notin Pushers /\ s \in Pushers /\ op[s] = "push"
        BY <1>2, <3>2 DEF Pop, TypeOK
      <4>2. \A u \in Pushers : op'[u] = op[u]
        BY <1>2, <2>2, <4>1 DEF Pop, Return, TypeOK, Threads
      <4>. QED
        BY <3>2, <4>1, <4>2 DEF AwakePushers, Threads
    <3>5. Cardinality(AwakePushers) + 1 <= Cardinality(AwakePushers')
      BY <1>a, <3>4, OneMore, Grows
    <3>. QED
      BY <1>a, <1>b, <1>c, <3>1, <3>3, <3>5
  <2>. QED
    BY <2>1, <2>2
<1>3. CASE ~(\E t \in Threads : Push(t) \/ Pop(t))
  <2>1. \A u \in Pushers : op[u] = "push" => op'[u] = "push"
    <3>1. ASSUME NEW t \in Threads, NEW o, NEW x, Call(t, o, x)
          PROVE  \A u \in Pushers : op[u] = "push" => op'[u] = "push"
      BY <3>1 DEF Call, TypeOK, Threads
    <3>2. ASSUME NEW t \in Threads, Front(t)
          PROVE  \A u \in Pushers : op[u] = "push" => op'[u] = "push"
      BY <3>2 DEF Front, SleepOut, Return, TypeOK, Threads
    <3>. QED
      BY <1>3, <3>1, <3>2
      DEF Next, Section, CallPush, CallFront, CallPop, SpuriousWakeup, vars, Threads
  <2>2. cv_in' \subseteq cv_in /\ m_queue' = m_queue
    BY <1>3 DEF Next, Section, CallPush, CallFront, CallPop, Call, SpuriousWakeup, vars,
                Front, SleepOut
  <2>3. AwakePushers \subseteq AwakePushers'
    BY <2>1, <2>2 DEF AwakePushers
  <2>. QED
    BY <1>d, <2>2, <2>3
<1>. QED
  BY <1>1, <1>2, <1>3

(* While a thread sleeps in Push, every free place is promised to a pusher *)
(* that is awake.                                                          *)
THEOREM NoLostRoomCorrect == Spec => []NoLostRoom
<1>1. Init => NoLostRoom
  BY DEF Init, NoLostRoom
<1>2. TypeOK /\ NoLostRoom /\ [Next]_vars => (TypeOK /\ NoLostRoom)'
  BY TypeStep, RoomStep
<1>. QED
  BY TypeInit, <1>1, <1>2, PTL DEF Spec

-----------------------------------------------------------------------------
(* No notification for a popper is lost, but for those spent on a Front.   *)

Covered == Cardinality(AwakePoppers) + Cardinality(Peekers \ cv_out)

LEMMA CoveredType ==
    /\ AwakePoppers \in SUBSET Threads
    /\ Peekers \ cv_out \in SUBSET Threads
    /\ Cardinality(AwakePoppers) \in Nat
    /\ Cardinality(Peekers \ cv_out) \in Nat
    /\ Covered \in Nat
<1>1. AwakePoppers \in SUBSET Threads /\ Peekers \ cv_out \in SUBSET Threads
  BY DEF AwakePoppers, Threads
<1>. QED
  BY <1>1, ThreadsFinite DEF Covered

LEMMA CoveredTypeNext ==
    /\ AwakePoppers' \in SUBSET Threads
    /\ (Peekers \ cv_out)' \in SUBSET Threads
    /\ Cardinality(AwakePoppers') \in Nat
    /\ Cardinality((Peekers \ cv_out)') \in Nat
    /\ Covered' = Cardinality(AwakePoppers') + Cardinality((Peekers \ cv_out)')
<1>1. AwakePoppers' \in SUBSET Threads /\ (Peekers \ cv_out)' \in SUBSET Threads
  BY DEF AwakePoppers, Threads
<1>. QED
  BY <1>1, ThreadsFinite DEF Covered

(* The two sets whose sizes Covered adds up only grow.                     *)
LEMMA CoveredGrows ==
  ASSUME AwakePoppers \subseteq AwakePoppers', cv_out' \subseteq cv_out
  PROVE  Covered <= Covered'
<1>1. Peekers \ cv_out \subseteq (Peekers \ cv_out)'
  OBVIOUS
<1>2. /\ Cardinality(AwakePoppers) <= Cardinality(AwakePoppers')
      /\ Cardinality(Peekers \ cv_out) <= Cardinality((Peekers \ cv_out)')
  BY <1>1, CoveredTypeNext, Grows
<1>. QED
  BY <1>2, CoveredType, CoveredTypeNext DEF Covered

LEMMA ItemStep == TypeOK /\ NoLostItem /\ [Next]_vars => NoLostItem'
<1> SUFFICES ASSUME TypeOK, NoLostItem, [Next]_vars, cv_out' # {}
             PROVE  Len(m_queue') <= Covered'
  BY DEF NoLostItem, Covered
<1>a. Covered \in Nat /\ Covered' \in Nat
  BY CoveredType, CoveredTypeNext
<1>b. Len(m_queue) \in Nat /\ Len(m_queue') \in Nat
  BY TypeStep DEF TypeOK
<1>c. cv_out # {} => Len(m_queue) <= Covered
  BY DEF NoLostItem, Covered
<1>1. ASSUME NEW t \in Threads, Push(t)
      PROVE  Len(m_queue') <= Covered'
  <2>0. t \in Pushers
    BY <1>1 DEF Push, TypeOK, Threads
  <2>1. CASE ~HasRoom
    <3>1. /\ UNCHANGED <<m_queue, op, cv_out>>
      BY <1>1, <2>1 DEF Push, SleepIn
    <3>2. Covered' = Covered
      BY <3>1 DEF Covered, AwakePoppers
    <3>. QED
      BY <1>c, <3>1, <3>2
  <2>2. CASE HasRoom
    <3>1. cv_out # {}
      BY <1>1, <2>2 DEF Push, NotifyOne
    <3>2. PICK s \in cv_out : cv_out' = cv_out \ {s}
      BY <1>1, <2>2, <3>1, NotifyWakesOne DEF Push
    <3>3. Len(m_queue') = Len(m_queue) + 1
      BY <1>1, <2>2 DEF Push, TypeOK
    <3>4. \A u \in Poppers : op'[u] = op[u]
      BY <1>1, <2>0, <2>2, RolesAssumption DEF Push, Return, TypeOK, Threads
    <3>5. CASE s \in Poppers
      <4>1. AwakePoppers \cup {s} \subseteq AwakePoppers' /\ s \notin AwakePoppers /\ s \in Threads
        BY <3>2, <3>4, <3>5 DEF AwakePoppers, TypeOK, Threads
      <4>2. Cardinality(AwakePoppers) + 1 <= Cardinality(AwakePoppers')
        BY <4>1, CoveredType, CoveredTypeNext, OneMore, Grows
      <4>3. Peekers \ cv_out \subseteq (Peekers \ cv_out)'
        BY <3>2
      <4>4. Cardinality(Peekers \ cv_out) <= Cardinality((Peekers \ cv_out)')
        BY <4>3, CoveredTypeNext, Grows
      <4>. QED
        BY <1>b, <1>c, <3>1, <3>3, <4>2, <4>4, CoveredType, CoveredTypeNext DEF Covered
    <3>6. CASE s \in Peekers
      <4>1. AwakePoppers \subseteq AwakePoppers'
        BY <3>2, <3>4 DEF AwakePoppers
      <4>2. Cardinality(AwakePoppers) <= Cardinality(AwakePoppers')
        BY <4>1, CoveredTypeNext, Grows
      <4>3. /\ (Peekers \ cv_out) \cup {s} \subseteq (Peekers \ cv_out)'
            /\ s \notin Peekers \ cv_out
            /\ s \in Threads
        BY <3>2, <3>6 DEF Threads
      <4>4. Cardinality((Peekers \ cv_out) \cup {s}) = Cardinality(Peekers \ cv_out) + 1
        BY <4>3, CoveredType, OneMore
      <4>5. Cardinality((Peekers \ cv_out) \cup {s}) <= Cardinality((Peekers \ cv_out)')
        BY <4>3, CoveredTypeNext, Grows
      <4>. QED
        BY <1>b, <1>c, <3>1, <3>3, <4>2, <4>4, <4>5, CoveredType, CoveredTypeNext DEF Covered
    <3>. QED
      BY <3>2, <3>5, <3>6 DEF TypeOK
  <2>. QED
    BY <2>1, <2>2
<1>2. ASSUME NEW t \in Threads, Pop(t), HasItem
      PROVE  Len(m_queue') <= Covered'
  <2>1. cv_out' = cv_out /\ Len(m_queue') + 1 = Len(m_queue)
    BY <1>2 DEF Pop, HasItem, TypeOK
  <2>2. AwakePoppers \ {t} \subseteq AwakePoppers'
    BY <1>2, <2>1 DEF Pop, Return, AwakePoppers, TypeOK, Threads
  <2>3. /\ Cardinality(AwakePoppers \ {t}) <= Cardinality(AwakePoppers')
        /\ Cardinality(AwakePoppers) <= Cardinality(AwakePoppers \ {t}) + 1
        /\ Cardinality(AwakePoppers \ {t}) \in Nat
    BY <2>2, CoveredType, CoveredTypeNext, Grows, OneLess, ThreadsFinite
  <2>4. (Peekers \ cv_out)' = Peekers \ cv_out
    BY <2>1
  <2>. QED
    BY <1>b, <1>c, <2>1, <2>3, <2>4, CoveredType, CoveredTypeNext DEF Covered
<1>3. CASE m_queue' = <<>>
  BY <1>3, <1>a
<1>4. ASSUME NEW t \in Threads, NEW o, NEW x, Call(t, o, x)
      PROVE  Len(m_queue') <= Covered'
  <2>1. AwakePoppers \subseteq AwakePoppers'
    BY <1>4 DEF Call, AwakePoppers, TypeOK, Threads
  <2>. QED
    BY <1>a, <1>b, <1>c, <1>4, <2>1, CoveredGrows DEF Call
<1>5. ASSUME NEW t \in Threads, Front(t), HasItem
      PROVE  Len(m_queue') <= Covered'
  <2>1. t \in Peekers
    BY <1>5 DEF Front, TypeOK, Threads
  <2>2. AwakePoppers \subseteq AwakePoppers' /\ UNCHANGED <<m_queue, cv_out>>
    BY <1>5, <2>1, RolesAssumption DEF Front, Return, AwakePoppers, TypeOK, Threads
  <2>. QED
    BY <1>a, <1>b, <1>c, <2>2, CoveredGrows
<1>6. ASSUME NEW t \in Threads, SpuriousWakeup(t)
      PROVE  Len(m_queue') <= Covered'
  <2>1. AwakePoppers \subseteq AwakePoppers' /\ cv_out' \subseteq cv_out /\ m_queue' = m_queue
    BY <1>6 DEF SpuriousWakeup, AwakePoppers
  <2>. QED
    BY <1>a, <1>b, <1>c, <2>1, CoveredGrows
<1>7. CASE UNCHANGED vars
  <2>1. UNCHANGED <<m_queue, cv_out, Covered>>
    BY <1>7 DEF vars, Covered, AwakePoppers
  <2>. QED
    BY <1>c, <2>1
<1>8. ASSUME NEW t \in Threads, Front(t) \/ Pop(t), ~HasItem
      PROVE  m_queue' = <<>>
  BY <1>8 DEF Front, Pop, SleepOut, HasItem
<1>. QED
  BY <1>1, <1>2, <1>3, <1>4, <1>5, <1>6, <1>7, <1>8
  DEF Next, Section, CallPush, CallFront, CallPop, Threads

(* While a thread sleeps in Front or Pop, at most as many items as there   *)
(* are peekers awake are hidden from the poppers.                          *)
THEOREM NoLostItemCorrect == Spec => []NoLostItem
<1>1. Init => NoLostItem
  BY DEF Init, NoLostItem
<1>2. TypeOK /\ NoLostItem /\ [Next]_vars => (TypeOK /\ NoLostItem)'
  BY TypeStep, ItemStep
<1>. QED
  BY TypeInit, <1>1, <1>2, PTL DEF Spec

(* The two sides of a queue never wait for each other, for a queue without *)
(* a bound and for one with more places than threads that call Front.      *)
THEOREM NoMutualWaitCorrect ==
  ASSUME EnoughPlaces
  PROVE  Spec => []NoMutualWait
<1>1. ASSUME NoLostRoom, NoLostItem, TypeOK, ~NoMutualWait
      PROVE  FALSE
  <2>1. Len(m_queue) \in Nat /\ Cardinality(Peekers) \in Nat
    BY <1>1, ThreadsFinite DEF TypeOK, Threads
  <2>a. cv_in # {} /\ AwakePushers = {} /\ cv_out # {} /\ AwakePoppers = {}
    BY <1>1 DEF NoMutualWait
  <2>b. Cardinality(AwakePushers) = 0 /\ Cardinality(AwakePoppers) = 0
    BY <2>a, FS_EmptySet
  <2>2. MaxSize # 0 /\ MaxSize <= Len(m_queue)
    BY <1>1, <2>1, <2>a, <2>b, MaxSizeAssumption DEF NoLostRoom
  <2>3. Len(m_queue) <= Cardinality(Peekers \ cv_out)
    BY <1>1, <2>1, <2>a, <2>b, CoveredType DEF NoLostItem
  <2>4. Cardinality(Peekers \ cv_out) <= Cardinality(Peekers)
    BY Grows DEF Threads
  <2>. QED
    BY <2>1, <2>2, <2>3, <2>4, CoveredType, MaxSizeAssumption DEF EnoughPlaces
<1>2. NoLostRoom /\ NoLostItem /\ TypeOK => NoMutualWait
  BY <1>1
<1>. QED
  BY <1>2, NoLostRoomCorrect, NoLostItemCorrect, TypeCorrect, PTL

-----------------------------------------------------------------------------
(* The refinement of BoundedQueue.                                         *)

LEMMA RefineInit == Init => Abstract!Init
BY DEF Init, Abstract!Init

LEMMA RefineStep == TypeOK /\ [Next]_vars => [Abstract!Next]_Abstract!vars
<1> SUFFICES ASSUME TypeOK, [Next]_vars
             PROVE  [Abstract!Next]_Abstract!vars
  OBVIOUS
<1>1. CASE UNCHANGED <<m_queue, op, item>>
  BY <1>1 DEF Abstract!vars
<1>2. ASSUME NEW t \in Threads,
             \/ \E x \in Value : Call(t, "push", x)
             \/ \E o \in {"front", "pop"} : Call(t, o, Null)
      PROVE  Abstract!Next
  BY <1>2 DEF Abstract!Next, Abstract!Call, Call, Value
<1>3. ASSUME NEW t \in Threads, Push(t), HasRoom PROVE Abstract!Push(t)
  BY <1>3 DEF Push, HasRoom, Return, Abstract!Push, Abstract!Return
<1>4. ASSUME NEW t \in Threads, Front(t), HasItem PROVE Abstract!Front(t)
  BY <1>4 DEF Front, HasItem, Return, Abstract!Front, Abstract!Return
<1>5. ASSUME NEW t \in Threads, Pop(t), HasItem PROVE Abstract!Pop(t)
  BY <1>5 DEF Pop, HasItem, Return, Abstract!Pop, Abstract!Return
<1>6. ASSUME NEW t \in Threads, \/ Push(t) /\ ~HasRoom
                                \/ (Front(t) \/ Pop(t)) /\ ~HasItem
                                \/ SpuriousWakeup(t)
      PROVE  UNCHANGED <<m_queue, op, item>>
  BY <1>6 DEF Push, Front, Pop, SleepIn, SleepOut, SpuriousWakeup
<1>7. CASE UNCHANGED vars
  BY <1>1, <1>7 DEF vars
<1>. QED
  BY <1>1, <1>2, <1>3, <1>4, <1>5, <1>6, <1>7
  DEF Next, Section, CallPush, CallFront, CallPop, Threads, Abstract!Next

(* Every call of Push, Front and Pop takes effect at one instant, first in *)
(* first out, whatever sleeps and wakes up in between.                     *)
THEOREM Refinement == Spec => AbstractSpec
BY RefineInit, RefineStep, TypeCorrect, PTL DEF Spec, AbstractSpec, Abstract!Spec
=============================================================================
