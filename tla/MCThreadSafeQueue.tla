------------------------- MODULE MCThreadSafeQueue -------------------------
(***************************************************************************)
(* ThreadSafeQueue for TLC: the threads of one role are interchangeable.   *)
(* No counter needs a bound, the queue is bounded by MaxSize.              *)
(***************************************************************************)
EXTENDS ThreadSafeQueue, TLC

Symmetry ==
    Permutations(Pushers) \cup Permutations(Poppers) \cup Permutations(Peekers)
=============================================================================
