------------------------------- MODULE MCOpq -------------------------------
(* Instance of the operation queue: a ring of four slots, the smallest in   *)
(* which reader and writer can each wrap with two operations between them.  *)
(* Word is a multiple of Size, as 2^32 is of 64; a uint16_t is narrowed to  *)
(* two bits, so that a line of length 4 truncates to size 0.                *)
EXTENDS Opq, TLC

Symmetry == Permutations(Bufs)
=============================================================================
