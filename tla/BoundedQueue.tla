---------------------------- MODULE BoundedQueue ----------------------------
(***************************************************************************)
(* What ThreadSafeQueue promises to the threads that share it: every call  *)
(* of Push, Front and Pop takes effect at one instant between its          *)
(* invocation and its return, on a first-in first-out queue of at most     *)
(* MaxSize items (no bound if MaxSize is 0).  A call that cannot take      *)
(* effect yet stays pending.  Nothing is said of mutexes and condition     *)
(* variables: that is ThreadSafeQueue.tla.                                 *)
(***************************************************************************)
EXTENDS Naturals, Sequences

CONSTANTS Threads,  \* the threads that share the queue
          Items,    \* what they put into it
          Null,     \* std::nullopt, put into it by PushNull
          MaxSize   \* the bound, 0 for none

VARIABLES queue,    \* the items, oldest first
          op,       \* op[t] : the call thread t is in, "returned" for none
          item      \* item[t] : argument of t's Push, result of t's Front or Pop

vars == <<queue, op, item>>

Init ==
    /\ queue = <<>>
    /\ op = [t \in Threads |-> "returned"]
    /\ item = [t \in Threads |-> Null]

Call(t, o, x) ==
    /\ op[t] = "returned"
    /\ op' = [op EXCEPT ![t] = o]
    /\ item' = [item EXCEPT ![t] = x]
    /\ UNCHANGED queue

Return(t, x) ==
    /\ op' = [op EXCEPT ![t] = "returned"]
    /\ item' = [item EXCEPT ![t] = x]

Push(t) ==
    /\ op[t] = "push"
    /\ MaxSize = 0 \/ Len(queue) < MaxSize
    /\ queue' = Append(queue, item[t])
    /\ Return(t, Null)

Front(t) ==
    /\ op[t] = "front"
    /\ queue # <<>>
    /\ Return(t, Head(queue))
    /\ UNCHANGED queue

Pop(t) ==
    /\ op[t] = "pop"
    /\ queue # <<>>
    /\ queue' = Tail(queue)
    /\ Return(t, Head(queue))

Next ==
    \E t \in Threads :
        \/ \E x \in Items \cup {Null} : Call(t, "push", x)
        \/ \E o \in {"front", "pop"} : Call(t, o, Null)
        \/ Push(t) \/ Front(t) \/ Pop(t)

Spec == Init /\ [][Next]_vars

(***************************************************************************)
(* Progress: as long as the queue has room some pending Push takes effect, *)
(* as long as it holds an item some pending Pop does.  Which of the        *)
(* waiting threads is served is left open, as notify_one leaves it.        *)
(***************************************************************************)
FairSpec ==
    /\ Spec
    /\ WF_vars(\E t \in Threads : Push(t))
    /\ WF_vars(\E t \in Threads : Pop(t))
=============================================================================
