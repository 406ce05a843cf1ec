------------------------------- MODULE OpFifo -------------------------------
(***************************************************************************)
(* What a caller of the operation queue may rely on: a first-in first-out  *)
(* queue of at most Cap operations that owns the line buffers handed to it *)
(* with a write, gives each one back exactly once, and ends the program    *)
(* (an assertion) rather than drop or overwrite an operation.              *)
(* Opq.tla is the ring buffer of opq.c that implements it.                 *)
(***************************************************************************)
EXTENDS Integers, Sequences

CONSTANTS Cap,      \* operations the queue can hold
          Items,    \* operations a caller may enqueue
          Bufs,     \* addresses of heap allocated lines
          Owns(_)   \* the buffers an operation owns: one for a write, none otherwise

VARIABLES queue,    \* the operations, oldest first
          live,     \* buffers handed over and not given back
          aborted   \* an assertion has ended the program

vars == <<queue, live, aborted>>

Init == queue = <<>> /\ live = {} /\ aborted = FALSE

Accept(itm) ==
  /\ ~aborted
  /\ Len(queue) < Cap
  /\ Owns(itm) \cap live = {}
  /\ queue' = Append(queue, itm)
  /\ live' = live \cup Owns(itm)
  /\ UNCHANGED aborted

(* The program ends; what is queued stays queued. *)
Abort == ~aborted /\ aborted' = TRUE /\ UNCHANGED <<queue, live>>

Release ==
  /\ ~aborted
  /\ queue # <<>>
  /\ queue' = Tail(queue)
  /\ live' = live \ Owns(Head(queue))
  /\ UNCHANGED aborted

ReleaseAll ==
  /\ ~aborted
  /\ queue' = <<>>
  /\ live' = {}
  /\ UNCHANGED aborted

Next == \/ \E itm \in Items : Accept(itm)
        \/ Abort
        \/ Release
        \/ ReleaseAll

Spec == Init /\ [][Next]_vars
=============================================================================
