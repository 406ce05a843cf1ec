------------------------------ MODULE MCShell ------------------------------
(* Every sequence of four keys: the bound ones, some that readline edits   *)
(* with, two that are special to one mode only, and an ordinary one.       *)
EXTENDS Shell

KeySet == {"C-a", "c", "C-c", "C-d", "C-b", "x", "RET", "DEL", "NUL", "0xFF"}
=============================================================================
