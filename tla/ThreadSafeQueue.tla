-------------------------- MODULE ThreadSafeQueue --------------------------
(***************************************************************************)
(* ThreadSafeQueue<T> of src/src/image_codec/thread_safe_queue.h: one      *)
(* mutex, a std::queue of std::optional<T>, a condition variable for the   *)
(* threads that wait for room (m_cv_in) and one for those that wait for an *)
(* item (m_cv_out).                                                        *)
(*                                                                         *)
(* Every member function holds the mutex from its first statement to its   *)
(* return, except while it sleeps in wait, and notifies before it releases *)
(* the mutex.  So a call is one or several critical sections, and each of  *)
(* them is one step here: evaluate the predicate of wait; if it is false   *)
(* fall asleep, otherwise work on the queue, notify and return.  A thread  *)
(* that is woken competes for the mutex again: it leaves the set of        *)
(* sleepers and takes a critical section later, when the predicate may     *)
(* have become false once more.                                            *)
(*                                                                         *)
(* Push, Emplace and PushNull are one operation with different arguments.  *)
(***************************************************************************)
EXTENDS Naturals, Sequences, FiniteSets

CONSTANTS
    Pushers,  \* threads that call Push, Emplace and PushNull
    Poppers,  \* threads that call Pop only
    Peekers,  \* threads that call Front, and Pop to take the null they saw
    Items,    \* the values of T
    Null,     \* std::nullopt
    MaxSize   \* m_max_size, 0 for no bound

Threads == Pushers \cup Poppers \cup Peekers

ASSUME RolesAssumption ==
    /\ IsFiniteSet(Threads)
    /\ Pushers \cap Poppers = {}
    /\ Pushers \cap Peekers = {}
    /\ Poppers \cap Peekers = {}

ASSUME MaxSizeAssumption == MaxSize \in Nat

ASSUME NullAssumption == Null \notin Items

VARIABLES
    m_queue,  \* the queue, oldest item first
    op,       \* op[t] : the member function t is in, "returned" for none
    item,     \* item[t] : argument of t's push, result of t's front or pop
    cv_in,    \* threads asleep on m_cv_in
    cv_out    \* threads asleep on m_cv_out

vars == <<m_queue, op, item, cv_in, cv_out>>

Value == Items \cup {Null}

TypeOK ==
    /\ m_queue \in Seq(Value)
    /\ op \in [Threads -> {"returned", "push", "front", "pop"}]
    /\ \A t \in Pushers : op[t] \in {"returned", "push"}
    /\ \A t \in Poppers : op[t] \in {"returned", "pop"}
    /\ \A t \in Peekers : op[t] \in {"returned", "front", "pop"}
    /\ item \in [Threads -> Value]
    /\ cv_in \subseteq {t \in Pushers : op[t] = "push"}
    /\ cv_out \subseteq {t \in Poppers \cup Peekers : op[t] \in {"front", "pop"}}

Init ==
    /\ m_queue = <<>>
    /\ op = [t \in Threads |-> "returned"]
    /\ item = [t \in Threads |-> Null]
    /\ cv_in = {}
    /\ cv_out = {}

-----------------------------------------------------------------------------
(* Invocation and return of a member function by thread t.                 *)

Call(t, o, x) ==
    /\ op[t] = "returned"
    /\ op' = [op EXCEPT ![t] = o]
    /\ item' = [item EXCEPT ![t] = x]
    /\ UNCHANGED <<m_queue, cv_in, cv_out>>

CallPush(t, x) == Call(t, "push", x)
CallFront(t) == Call(t, "front", Null)
CallPop(t) == Call(t, "pop", Null)

Return(t, x) ==
    /\ op' = [op EXCEPT ![t] = "returned"]
    /\ item' = [item EXCEPT ![t] = x]

(* The predicates of the waits.                                            *)
HasRoom == MaxSize = 0 \/ Len(m_queue) < MaxSize
HasItem == m_queue # <<>>

(* notify_one: one of the sleepers, whichever the library picks, wakes; no *)
(* effect when nobody sleeps.  The set after the call is chosen here.      *)
MutNotifyNobody(cv) == {cv}
NotifyOne(cv) == IF cv = {} THEN {{}} ELSE {cv \ {t} : t \in cv}

-----------------------------------------------------------------------------
(* The critical sections.                                                  *)

SleepIn(t) ==
    /\ cv_in' = cv_in \cup {t}
    /\ UNCHANGED <<m_queue, op, item, cv_out>>

MutSleepOnWrongCv(t) ==
    /\ cv_in' = cv_in \cup {t}
    /\ UNCHANGED <<m_queue, op, item, cv_out>>

SleepOut(t) ==
    /\ cv_out' = cv_out \cup {t}
    /\ UNCHANGED <<m_queue, op, item, cv_in>>

MutPushNotifiesIfEmpty(t) ==
    /\ op[t] = "push"
    /\ t \notin cv_in
    /\ \/ /\ ~HasRoom
          /\ SleepIn(t)
       \/ /\ HasRoom
          /\ m_queue' = Append(m_queue, item[t])
          /\ IF HasItem THEN UNCHANGED cv_out ELSE cv_out' \in NotifyOne(cv_out)
          /\ Return(t, Null)
          /\ UNCHANGED cv_in

Push(t) ==
    /\ op[t] = "push"
    /\ t \notin cv_in
    /\ \/ /\ ~HasRoom
          /\ SleepIn(t)
       \/ /\ HasRoom
          /\ m_queue' = Append(m_queue, item[t])
          /\ cv_out' \in NotifyOne(cv_out)
          /\ Return(t, Null)
          /\ UNCHANGED cv_in

MutFrontRemoves(t) ==
    /\ op[t] = "front"
    /\ t \notin cv_out
    /\ HasItem
    /\ m_queue' = Tail(m_queue)
    /\ Return(t, Head(m_queue))
    /\ UNCHANGED <<cv_in, cv_out>>

(* Front leaves the item in the queue, and notifies nobody although the    *)
(* notification that woke it is spent.                                     *)
Front(t) ==
    /\ op[t] = "front"
    /\ t \notin cv_out
    /\ \/ /\ ~HasItem
          /\ SleepOut(t)
       \/ /\ HasItem
          /\ Return(t, Head(m_queue))
          /\ UNCHANGED <<m_queue, cv_in, cv_out>>

Pop(t) ==
    /\ op[t] = "pop"
    /\ t \notin cv_out
    /\ \/ /\ ~HasItem
          /\ SleepOut(t)
       \/ /\ HasItem
          /\ m_queue' = Tail(m_queue)
          /\ cv_in' \in NotifyOne(cv_in)
          /\ Return(t, Head(m_queue))
          /\ UNCHANGED cv_out

(* The C++ standard lets a wait return without a notification.             *)
SpuriousWakeup(t) ==
    /\ t \in cv_in \cup cv_out
    /\ cv_in' = cv_in \ {t}
    /\ cv_out' = cv_out \ {t}
    /\ UNCHANGED <<m_queue, op, item>>

-----------------------------------------------------------------------------
(* The most general use of a queue: every thread calls what its role       *)
(* allows, at any time and forever.                                        *)

Section(t) == Push(t) \/ Front(t) \/ Pop(t)

Next ==
    \/ \E t \in Pushers, x \in Value : CallPush(t, x)
    \/ \E t \in Peekers : CallFront(t)
    \/ \E t \in Poppers \cup Peekers : CallPop(t)
    \/ \E t \in Threads : Section(t)
    \/ \E t \in Threads : SpuriousWakeup(t)

Spec == Init /\ [][Next]_vars

(* A thread that is awake inside a member function gets the mutex in the   *)
(* end.  No thread has to call, and no spurious wakeup has to happen.      *)
Fairness == \A t \in Threads : WF_vars(Section(t))

FairSpec == Spec /\ Fairness

-----------------------------------------------------------------------------
(* Properties.                                                             *)

AwakePushers == {t \in Pushers : op[t] = "push"} \ cv_in
AwakePoppers == {t \in Poppers : op[t] = "pop"} \ cv_out

(* A bounded queue (m_cv_in.wait in Push) never holds more than its bound, *)
(* whoever was woken and whatever ran between the wakeup and the lock.     *)
Bounded == MaxSize # 0 => Len(m_queue) <= MaxSize

(* While a thread sleeps in Push, every free place is promised to a pusher *)
(* that is awake: the notify_one of Pop is never lost.                     *)
NoLostRoom ==
    cv_in # {} =>
        /\ MaxSize # 0
        /\ MaxSize <= Len(m_queue) + Cardinality(AwakePushers)

(* While a thread sleeps in Front or Pop, the items that no awake popper   *)
(* is about to take are at most as many as the peekers that are not        *)
(* asleep: each notify_one spent on a Front hides at most one item.        *)
NoLostItem ==
    cv_out # {} =>
        Len(m_queue) <= Cardinality(AwakePoppers)
                          + Cardinality(Peekers \ cv_out)

(* The two sides never wait for each other: pushers all asleep for want of *)
(* room while poppers are all asleep for want of an item.  It needs        *)
(* EnoughPlaces: the queues of the receivers hold 128 items, and two       *)
(* threads call Front.                                                     *)
EnoughPlaces == MaxSize = 0 \/ MaxSize > Cardinality(Peekers)

NoMutualWait ==
    ~ /\ cv_in # {}
      /\ AwakePushers = {}
      /\ cv_out \cap Poppers # {}
      /\ AwakePoppers = {}

(* The queue refines the abstract one.                                     *)
Abstract == INSTANCE BoundedQueue WITH queue <- m_queue

(* Safety: calls take effect atomically and in FIFO order.                 *)
AbstractSpec == Abstract!Spec

(* Progress too, for a queue on which nobody calls Front.                  *)
AbstractFairSpec == Abstract!FairSpec
=============================================================================
