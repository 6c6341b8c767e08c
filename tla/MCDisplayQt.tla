---------------------------- MODULE MCDisplayQt -----------------------------
(***************************************************************************)
(* DisplayQt for TLC: two files that have the same number of parts in one  *)
(* configuration, and of which one cannot be sent in the other.            *)
(***************************************************************************)
EXTENDS DisplayQt, TLC

CONSTANTS f, g, c, d

MCPartNumOf == f :> (c :> 2 @@ d :> 1) @@ g :> (c :> 2 @@ d :> 0)
MCReceiverTask == <<f, c>>
=============================================================================
