------------------------------ MODULE MCInpipe ------------------------------
(* An instance of the piped input for TLC: chunks of one to three bytes.     *)
EXTENDS Inpipe

PipeInputs == {ReadOps(size, newline) : size \in Chunks, newline \in BOOLEAN}
=============================================================================
