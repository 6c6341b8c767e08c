---------------------------- MODULE FileReceiver ----------------------------
(***************************************************************************)
(* What a receiver promises to its user, with no word on how it stores     *)
(* things: the parts of the file come in any order and any number of       *)
(* times; the parts received are saved from time to time; an interruption  *)
(* takes the receiver back to the parts saved last, and the file is put in *)
(* place in one step, complete and exact, once every part was received.    *)
(* The faults that break this are named: after a "content" fault the file  *)
(* may be damaged, a "progress" fault loses what was saved, after a        *)
(* "count" fault nothing tells any more when every part was received.      *)
(***************************************************************************)
CONSTANT Parts

VARIABLES
    received,  \* the parts received
    saved,     \* the parts an interruption does not take away
    faults,    \* the kinds of fault that happened
    output     \* the file at its final path

vars == <<received, saved, faults, output>>

Init ==
    /\ received = {}
    /\ saved = {}
    /\ faults = {}
    /\ output = "absent"

Receive(p) ==
    /\ received' = received \cup {p}
    /\ UNCHANGED <<saved, faults, output>>

Save ==
    /\ saved' = received
    /\ UNCHANGED <<received, faults, output>>

Interrupt ==
    /\ received' = saved
    /\ faults' \in {faults, faults \cup {"content"}}
    /\ UNCHANGED <<saved, output>>

Forget ==
    /\ received' = {}
    /\ saved' = {}
    /\ faults' = faults \cup {"progress"}
    /\ UNCHANGED output

(* Saving went wrong, and part or all of what was saved with it.           *)
Lose ==
    /\ saved' \in SUBSET saved
    /\ faults' \in {faults \cup {"progress"}, faults \cup {"count"}}
    /\ UNCHANGED <<received, output>>

Damage ==
    /\ faults' = faults \cup {"content"}
    /\ UNCHANGED <<received, saved, output>>

AllReceived == received = Parts \/ "count" \in faults

Deliver ==
    /\ AllReceived
    /\ \/ output' = "target"
       \/ output' = "damaged" /\ faults \cap {"content", "count"} # {}
    /\ UNCHANGED <<received, saved, faults>>

(* Once the file is in place the saved parts are dropped: the next start   *)
(* with the same path is a new transfer.                                   *)
Clear ==
    /\ output # "absent"
    /\ AllReceived
    /\ saved' = {}
    /\ UNCHANGED <<received, faults, output>>

Next ==
    \/ \E p \in Parts : Receive(p)
    \/ Save
    \/ Interrupt
    \/ Forget
    \/ Lose
    \/ Damage
    \/ Deliver
    \/ Clear

Spec == Init /\ [][Next]_vars
=============================================================================
