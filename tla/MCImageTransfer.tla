--------------------------- MODULE MCImageTransfer --------------------------
(***************************************************************************)
(* ImageTransfer for TLC: frames of each codec with and without symbols    *)
(* and bits to spare, in one tile or several; files of no byte, of whole   *)
(* parts, of one byte more, and of more parts than a byte has bits.        *)
(***************************************************************************)
EXTENDS ImageTransfer

Bytes(n) == [i \in 1 .. n |-> (i * 91 + 130) % 256]

MCSetups ==
    {[file |-> Bytes(10), b |-> 3, dim |-> <<2, 2, 3, 4>>, space |-> 1],
     [file |-> Bytes(0), b |-> 3, dim |-> <<2, 1, 2, 11>>, space |-> 2],
     [file |-> Bytes(12), b |-> 3, dim |-> <<1, 1, 46, 1>>, space |-> 0],
     [file |-> Bytes(9), b |-> 2, dim |-> <<1, 2, 3, 11>>, space |-> 1],
     [file |-> Bytes(65), b |-> 2, dim |-> <<1, 1, 8, 8>>, space |-> 0],
     [file |-> Bytes(3), b |-> 1, dim |-> <<3, 2, 5, 5>>, space |-> 1]}
=============================================================================
