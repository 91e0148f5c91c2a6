------------------------- MODULE MCPrudpReassembly -------------------------
(* Model values and bounds for PrudpReassembly: a three-chunk message, and a *)
(* two-chunk message with larger chunks.                                     *)
EXTENDS PrudpReassembly, TLC

CONSTANTS long, mid

TwoMessages == {long, mid}
TwoChunks == (long :> 3) @@ (mid :> 2)
TwoBytes  == (long :> 1) @@ (mid :> 2)
=============================================================================
