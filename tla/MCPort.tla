------------------------------- MODULE MCPort -------------------------------
(* Instances of the port for TLC.                                           *)
EXTENDS Port

Line(n) == [op |-> "WRITE", size |-> n]
Eol == [op |-> "PUT_EOL", size |-> 0]
Putc == [op |-> "PUTC", size |-> 0]

(* One raw character, a line of two bytes with its end, an empty line. *)
ShellInputs == {<<Putc>>, <<Line(2), Eol>>, <<Eol>>}

(* And the operations of port.c that no shell mode enqueues. *)
AllInputs == ShellInputs \cup {<<[op |-> "CTRL", size |-> 0]>>, <<[op |-> "SLEEP", size |-> 0]>>,
                               <<[op |-> "EXIT", size |-> 0]>>}

(* For liveness: a line, its end, and a sleep. *)
LiveInputs == {<<Line(1), Eol>>, <<[op |-> "SLEEP", size |-> 0]>>}
=============================================================================
