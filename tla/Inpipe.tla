------------------------------- MODULE Inpipe -------------------------------
(***************************************************************************)
(* inpipe.c: stdin is a pipe, and every chunk read from it goes to the     *)
(* port.  There is one static buffer: a chunk is queued by reference, so   *)
(* reading stops with every chunk and is resumed by the callback opq.c     *)
(* makes when the WRITE of that chunk leaves the queue, executed by port.c *)
(* or thrown away by port_close().                                         *)
(***************************************************************************)
EXTENDS Port

CONSTANT Chunks         \* sizes of the chunks that read(2) delivers

VARIABLES reading,      \* stdin_pipe is started
          buf           \* inpipe_data.buf: number of the WRITE whose bytes it holds

pipeVars == <<vars, reading, buf>>

(* The operations of a chunk: its line end is dropped and configured anew. *)
ReadOps(size, newline) ==
  IF newline THEN <<[op |-> "WRITE", size |-> size - 1], [op |-> "PUT_EOL", size |-> 0]>>
  ELSE <<[op |-> "WRITE", size |-> size]>>

ASSUME InpipeAssumption ==
  /\ Chunks \subseteq Nat \ {0}
  /\ \A size \in Chunks, newline \in BOOLEAN : ReadOps(size, newline) \in Inputs

inpipe_init == Init /\ reading = TRUE /\ buf = 0

-----------------------------------------------------------------------------
(* Regression: reading goes on after a chunk has been queued. *)
uvcb_read_NoStop(size, newline) ==
  /\ reading
  /\ Enqueue(ReadOps(size, newline))
  /\ buf' = nops + 1
  /\ UNCHANGED reading

(* _uvcb_read() with a chunk; an empty line leaves nothing to write, which *)
(* opq_enqueue_write() does not accept.                                    *)
uvcb_read(size, newline) ==
  /\ reading
  /\ IF size = 1 /\ newline
     THEN /\ Callback /\ Exit("assert_size")
          /\ UNCHANGED <<loopVars, waitVars, fileVars, nops, reading, buf>>
     ELSE /\ Enqueue(ReadOps(size, newline))
          /\ buf' = nops + 1
          /\ reading' = FALSE

(* _uvcb_read() at the end of the input. *)
uvcb_read_eof ==
  /\ reading /\ Callback
  /\ Exit("stdin_closed")
  /\ UNCHANGED <<loopVars, waitVars, fileVars, nops, reading, buf>>

(* Regression: reading is resumed by whatever leaves the queue. *)
on_port_write_done_AnyOp == reading' = (reading \/ \E k \in 1..Len(q) : q[k].id \notin Ids(q'))

(* Regression: what port_close() throws away is not reported. *)
on_port_write_done_NotDropped ==
  reading' = (reading \/ (q # <<>> /\ q' = Tail(q) /\ q[1].op = "WRITE"))

(* _on_port_write_done(), called for every WRITE that leaves the queue. *)
on_port_write_done ==
  reading' = (reading \/ \E k \in 1..Len(q) : q[k].op = "WRITE" /\ q[k].id \notin Ids(q'))

(* A step of the port or of the device. *)
PortStep == (Loop \/ Device) /\ on_port_write_done /\ UNCHANGED buf

PipeNext ==
  \/ PortStep
  \/ \E size \in Chunks, newline \in BOOLEAN : uvcb_read(size, newline)
  \/ uvcb_read_eof
  \/ Stopped /\ UNCHANGED <<reading, buf>>

PipeSpec == inpipe_init /\ [][PipeNext]_pipeVars

-----------------------------------------------------------------------------
PipeTypeOK == TypeOK /\ reading \in BOOLEAN /\ buf \in Nat

(* While the program runs, the pipe is read if and only if no WRITE is     *)
(* queued: it is never left stopped for good, and the buffer is never      *)
(* given to read(2) while the queue refers to it.                          *)
ReadsUnlessQueued ==
  exit = "no" => (reading <=> \A k \in 1..Len(q) : q[k].op # "WRITE")

(* The bytes a queued WRITE refers to are those of its own chunk. *)
BufferIntact == \A k \in 1..Len(q) : q[k].op = "WRITE" => q[k].id = buf

(* Three operations are ever queued, a line end and the next line with its *)
(* own: however slow the port is, the pipe cannot overflow the queue.      *)
PipeNeverOverflows == Len(q) <= 3 /\ (QCap >= 3 => exit # "assert_full")

-----------------------------------------------------------------------------
(* Fairness of the loop, the device and the timers, as for Port.           *)
PipeFairSpec ==
  /\ PipeSpec
  /\ WF_pipeVars(Loop /\ PortStep)
  /\ SF_pipeVars((\E r \in BOOLEAN : poll_event(r, TRUE, FALSE)) /\ PortStep)
  /\ SF_pipeVars(on_writable /\ PortStep /\ wire' # wire)
  /\ SF_pipeVars(poll_ebadf /\ PortStep) /\ SF_pipeVars(on_dir_entry_change /\ PortStep)
  /\ SF_pipeVars(permission_timeout /\ PortStep)

(* A pipe that has been stopped is read again, unless the port stays away. *)
PipeResumes == port /\ ~reading ~> reading \/ ~port \/ exit # "no"

(* _uvcb_read(): "stop reading stdin until all data sent to serial port".  *)
(* So the end of the input should not be acted on before everything is     *)
(* sent; it is, when the end of line behind the last WRITE is queued.      *)
ClosedAfterAllSent == exit = "stdin_closed" => q = <<>>
=============================================================================
