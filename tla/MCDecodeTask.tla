---------------------------- MODULE MCDecodeTask ----------------------------
(***************************************************************************)
(* DecodeTask for TLC: a file of three data parts and the size part; the   *)
(* sender's configuration, its frames with a part number whose bitmap has  *)
(* room for every part and with one whose bitmap has not, and one that     *)
(* does not decode its frames.                                             *)
(***************************************************************************)
EXTENDS DecodeTask, TLC

CONSTANTS right, less, least, wrong

MCPartNumOf == right :> 4 @@ less :> 3 @@ least :> 1 @@ wrong :> 2
AnyStep == Steps \ {"down"}
=============================================================================
