------------------------------- MODULE MCExit -------------------------------
(* An instance of the start and the end of the program for TLC.              *)
EXTENDS Exit
=============================================================================
