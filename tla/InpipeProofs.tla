---------------------------- MODULE InpipeProofs ----------------------------
(***************************************************************************)
(* Proofs about the piped input of inpipe.c on top of those about the      *)
(* port, for every size of chunks, every queue and every behaviour of the  *)
(* device.                                                                 *)
(***************************************************************************)
EXTENDS Inpipe, PortProofs

(* What can be queued: at most one WRITE, with at most its own line end    *)
(* behind it and the line end of the chunk before in front of it.          *)
PipeShape ==
  /\ \A k \in 1..Len(q) : q[k].op = "WRITE" => k <= 2 /\ Len(q) <= k + 1
  /\ (\A k \in 1..Len(q) : q[k].op # "WRITE") => Len(q) <= 1

PipeInv == /\ reading \in BOOLEAN /\ buf \in Nat
           /\ PipeShape /\ ReadsUnlessQueued /\ BufferIntact
           /\ QCap >= 3 => exit # "assert_full"

AllInv == IInv /\ WInv /\ PipeInv

-----------------------------------------------------------------------------
(* The port only ever takes operations away, and it is not the port that   *)
(* finds the queue full.                                                   *)
LEMMA QueueSteps ==
  ASSUME IInv, Loop \/ Device
  PROVE  /\ q' = q \/ q' = <<>> \/ (q # <<>> /\ q' = Tail(q))
         /\ exit = "no" \/ exit' = exit
         /\ exit' = exit \/ exit' # "assert_full"
<1>1. ASSUME current # NoOp, op_done PROVE q # <<>> /\ q' = Tail(q)
  BY <1>1 DEF op_done, IInv, CurrentIsHead
<1>2. ASSUME Panic("ioerr") PROVE (q' = q \/ q' = <<>>) /\ (exit' = exit \/ exit' = "ioerr")
  BY <1>2 DEF Panic, Exit, opVars, port_close
<1>3. CASE port_init \/ port_open \/ wait_start \/ on_dir_entry_change \/ permission_timeout
  BY <1>3 DEF port_init, port_open, wait_start, on_dir_entry_change, permission_timeout, Exit,
              opVars, Callback, Running
<1>4. CASE TimersDone \/ PollDone \/ Device
  BY <1>4 DEF TimersDone, PollDone, Device, Plug, Grant, Unplug, Touch, Change, portVars,
              opVars
<1>5. CASE on_sleep_done
  <2>1. exit = "no" /\ current.op = "SLEEP"
    BY <1>5 DEF on_sleep_done, Running, IInv, SleepIsCurrent
  <2>2. op_done /\ exit' = exit /\ current # NoOp
    BY <1>5, <2>1 DEF on_sleep_done, NoOp
  <2>3. QED
    BY <1>1, <2>2
<1>6. CASE Prepare
  <2>1. exit = "no"
    BY <1>6 DEF Prepare, Running
  <2>2. CASE ~prepare
    BY <1>6, <2>1, <2>2 DEF Prepare, opVars
  <2>3. CASE prepare
    <3>1. on_prepare
      BY <1>6, <2>3 DEF Prepare
    <3>2. QED
      BY <2>1, <3>1 DEF on_prepare, opVars
  <2>4. QED
    BY <2>2, <2>3
<1>7. CASE poll_ebadf
  <2>1. exit = "no" /\ (exit' = exit \/ exit' = "osfile")
    BY <1>7 DEF poll_ebadf, Callback, Running
  <2>2. q' = q \/ q' = <<>>
    BY <1>7 DEF poll_ebadf, port_close, opVars
  <2>3. QED
    BY <2>1, <2>2
<1>8. CASE \E r, w, f \in BOOLEAN : poll_event(r, w, f)
  <2>1. exit = "no" /\ (Panic("ioerr") \/ UNCHANGED portVars)
    BY <1>8 DEF poll_event, Callback, Running
  <2>2. QED
    BY <1>2, <2>1 DEF portVars, opVars
<1>9. CASE on_writable
  <2>1. exit = "no"
    BY <1>9 DEF on_writable, Running
  <2>2. CASE current = NoOp \/ current.op \in {"SLEEP", "EXIT"}
    BY <1>9, <2>1, <2>2 DEF on_writable, portVars, opVars
  <2>3. CASE current # NoOp /\ current.op \notin {"SLEEP", "EXIT"} /\ Bytes(current) = 0
    BY <1>1, <1>9, <2>1, <2>3 DEF on_writable
  <2>4. CASE current # NoOp /\ current.op \notin {"SLEEP", "EXIT"} /\ Bytes(current) # 0
    <3>1. Exit("assert_offset") \/ \E rc \in WriteResults : update_write(rc)
      BY <1>9, <2>4 DEF on_writable
    <3>2. CASE Exit("assert_offset")
      BY <2>1, <3>2 DEF Exit, opVars
    <3>3. ASSUME NEW rc \in WriteResults, update_write(rc)
          PROVE  Panic("ioerr") \/ (exit' = exit /\ (op_done \/ q' = q))
      BY <3>3 DEF update_write
    <3>4. QED
      BY <1>1, <1>2, <2>1, <2>4, <3>1, <3>2, <3>3
  <2>5. QED
    BY <2>2, <2>3, <2>4
<1>10. QED
  BY <1>3, <1>4, <1>5, <1>6, <1>7, <1>8, <1>9 DEF Loop, PortEvent

-----------------------------------------------------------------------------
(* Reading starts with an empty queue.                                     *)
LEMMA InitAllInv == inpipe_init => AllInv
<1> SUFFICES ASSUME inpipe_init PROVE AllInv
  OBVIOUS
<1>1. IInv /\ WInv
  BY InitIInv, InitWInv DEF inpipe_init
<1>2. q = <<>> /\ exit = "no" /\ reading = TRUE /\ buf = 0
  BY DEF inpipe_init, Init
<1>3. PipeInv
  BY <1>2 DEF PipeInv, PipeShape, ReadsUnlessQueued, BufferIntact
<1>4. QED
  BY <1>1, <1>3 DEF AllInv

(* A release: the pipe is restarted exactly when its WRITE has left.       *)
LEMMA ReleaseStep == AllInv /\ PortStep => PipeInv'
<1> SUFFICES ASSUME AllInv, PortStep PROVE PipeInv'
  OBVIOUS
<1>1. /\ IInv /\ IdsInOrder /\ PipeShape /\ ReadsUnlessQueued /\ BufferIntact
      /\ reading \in BOOLEAN /\ buf \in Nat /\ buf' = buf
      /\ QCap >= 3 => exit # "assert_full"
      /\ q \in Seq(OpType) /\ Len(q) \in Nat
  BY LenProperties DEF AllInv, WInv, PipeInv, PortStep, IInv, TypeOK, DataType
<1>2. /\ q' = q \/ q' = <<>> \/ (q # <<>> /\ q' = Tail(q))
      /\ exit' = "no" => exit = "no"
      /\ QCap >= 3 => exit' # "assert_full"
  BY <1>1, QueueSteps DEF PortStep
<1>3. /\ reading' <=> reading \/ \E k \in 1..Len(q) : q[k].op = "WRITE" /\ q[k].id \notin Ids(q')
      /\ reading' \in BOOLEAN
  BY <1>1 DEF PortStep, on_port_write_done
<1>4. CASE q' = q
  <2>1. reading' = reading
    BY <1>1, <1>3, <1>4 DEF Ids
  <2>2. QED
    BY <1>1, <1>2, <1>3, <1>4, <2>1 DEF PipeInv, PipeShape, ReadsUnlessQueued, BufferIntact
<1>5. CASE q' = <<>>
  <2>1. exit = "no" => reading'
    BY <1>1, <1>3, <1>5 DEF ReadsUnlessQueued, Ids
  <2>2. QED
    BY <1>1, <1>2, <1>3, <1>5, <2>1 DEF PipeInv, PipeShape, ReadsUnlessQueued, BufferIntact
<1>6. CASE q # <<>> /\ q' = Tail(q)
  <2>1. /\ Len(q') = Len(q) - 1 /\ Len(q) >= 1
        /\ \A k \in 1..Len(q') : q'[k] = q[k + 1] /\ k + 1 \in 1..Len(q)
    BY <1>1, <1>6, HeadTailProperties, EmptySeq
  <2>2. \A k \in 1..Len(q) : k # 1 => k - 1 \in 1..Len(q') /\ q'[k - 1] = q[k]
    BY <1>1, <2>1
  <2>3. \A k \in 1..Len(q) : k # 1 => q[k].id \in Ids(q')
    BY <2>2 DEF Ids
  <2>4. q[1].id \notin Ids(q')
    <3>1. \A k \in 1..Len(q') : q[1].id < q[k + 1].id /\ q[1].id \in Nat /\ q[k + 1].id \in Nat
      <4>1. \A k \in 1..Len(q') : 1 \in 1..Len(q) /\ k + 1 \in 1..Len(q) /\ 1 < k + 1
        BY <1>1, <2>1
      <4>2. nops \in Nat
        BY <1>1 DEF IInv, TypeOK, DataType
      <4>3. QED
        BY <1>1, <4>1, <4>2 DEF IdsInOrder
    <3>2. \A k \in 1..Len(q') : q[1].id # q'[k].id
      BY <2>1, <3>1
    <3>3. QED
      BY <3>2 DEF Ids
  <2>5. 1 \in 1..Len(q)
    BY <1>1, <2>1
  <2>6. reading' <=> reading \/ q[1].op = "WRITE"
    BY <1>3, <2>3, <2>4, <2>5
  <2>7. q[1].op = "WRITE" => \A k \in 1..Len(q) : k # 1 => q[k].op # "WRITE"
    <3>1. ASSUME q[1].op = "WRITE", NEW k \in 1..Len(q), k # 1, q[k].op = "WRITE" PROVE FALSE
      <4>1. q[1].id = q[k].id
        BY <1>1, <2>5, <3>1 DEF BufferIntact
      <4>2. q[k].id \in Ids(q')
        BY <2>3, <3>1
      <4>3. QED
        BY <2>4, <4>1, <4>2
    <3>2. QED
      BY <3>1
  <2>8. BufferIntact'
    BY <1>1, <2>1 DEF BufferIntact
  <2>9. (\A k \in 1..Len(q') : q'[k].op # "WRITE")
          <=> \A k \in 1..Len(q) : k # 1 => q[k].op # "WRITE"
    <3>1. ASSUME \A k \in 1..Len(q') : q'[k].op # "WRITE", NEW k \in 1..Len(q), k # 1
          PROVE  q[k].op # "WRITE"
      BY <2>2, <3>1
    <3>2. ASSUME \A k \in 1..Len(q) : k # 1 => q[k].op # "WRITE", NEW k \in 1..Len(q')
          PROVE  q'[k].op # "WRITE"
      <4>1. k + 1 \in 1..Len(q) /\ k + 1 # 1 /\ q'[k] = q[k + 1]
        BY <2>1
      <4>2. QED
        BY <3>2, <4>1
    <3>3. QED
      BY <3>1, <3>2
  <2>10. ReadsUnlessQueued'
    <3>1. exit' = "no" => (reading <=> \A k \in 1..Len(q) : q[k].op # "WRITE")
      BY <1>1, <1>2 DEF ReadsUnlessQueued
    <3>2. QED
      BY <2>5, <2>6, <2>7, <2>9, <3>1 DEF ReadsUnlessQueued
  <2>11. PipeShape'
    <3>1. ASSUME NEW k \in 1..Len(q'), q'[k].op = "WRITE" PROVE k <= 2 /\ Len(q') <= k + 1
      <4>1. k + 1 \in 1..Len(q) /\ q[k + 1].op = "WRITE"
        BY <2>1, <3>1
      <4>2. k + 1 <= 2 /\ Len(q) <= (k + 1) + 1
        BY <1>1, <4>1 DEF PipeShape
      <4>3. QED
        BY <1>1, <2>1, <4>2
    <3>2. ASSUME \A k \in 1..Len(q') : q'[k].op # "WRITE" PROVE Len(q') <= 1
      <4>1. \A k \in 1..Len(q) : k # 1 => q[k].op # "WRITE"
        BY <2>9, <3>2
      <4>2. Len(q) <= 2
        BY <1>1, <2>5, <4>1 DEF PipeShape
      <4>3. QED
        BY <1>1, <2>1, <4>2
    <3>3. QED
      BY <3>1, <3>2 DEF PipeShape
  <2>12. QED
    BY <1>1, <1>2, <1>3, <2>8, <2>10, <2>11 DEF PipeInv
<1>7. QED
  BY <1>2, <1>4, <1>5, <1>6

(* A chunk: nothing is queued but, perhaps, the line end of the one before. *)
LEMMA ReadStep ==
  ASSUME AllInv, NEW size \in Chunks, NEW newline \in BOOLEAN, uvcb_read(size, newline),
         ~(size = 1 /\ newline)
  PROVE  PipeInv'
<1> DEFINE ops == ReadOps(size, newline)
           new == [k \in 1..Len(ops) |->
                     [id |-> nops + k, op |-> ops[k].op, size |-> ops[k].size]]
<1>1. /\ reading /\ Enqueue(ops) /\ buf' = nops + 1 /\ ~reading' /\ reading' \in BOOLEAN
      /\ exit = "no"
  BY DEF uvcb_read, Enqueue, Callback, Running
<1>2. /\ PipeShape /\ ReadsUnlessQueued /\ nops \in Nat
      /\ q \in Seq(OpType) /\ Len(q) \in Nat /\ QCap \in Nat
  BY PortAssumption, LenProperties DEF AllInv, PipeInv, IInv, TypeOK, DataType
<1>3. /\ \A k \in 1..Len(q) : q[k].op # "WRITE"
      /\ Len(q) <= 1
  BY <1>1, <1>2 DEF ReadsUnlessQueued, PipeShape
<1>4. /\ Len(ops) \in 1..2 /\ ops[1].op = "WRITE"
      /\ \A k \in 1..Len(ops) : ops[k].op = "WRITE" <=> k = 1
      /\ \A k \in 1..Len(ops) : ops[k] \in [op : DataOps \cup OtherOps, size : Nat]
  <2>1. size \in Nat \ {0}
    BY InpipeAssumption
  <2>2. CASE newline
    <3>1. ops = <<[op |-> "WRITE", size |-> size - 1], [op |-> "PUT_EOL", size |-> 0]>>
      BY <2>2 DEF ReadOps
    <3>2. QED
      BY <2>1, <3>1 DEF DataOps
  <2>3. CASE ~newline
    <3>1. ops = <<[op |-> "WRITE", size |-> size]>>
      BY <2>3 DEF ReadOps
    <3>2. QED
      BY <2>1, <3>1 DEF DataOps
  <2>4. QED
    BY <2>2, <2>3
<1> HIDE DEF ops
<1>5. CASE Len(q) + Len(ops) > QCap
  <2>1. ~(QCap >= 3)
    BY <1>2, <1>3, <1>4, <1>5
  <2>2. exit' = "assert_full" /\ q' = q
    BY <1>1, <1>5 DEF Enqueue, Exit, opVars
  <2>3. QED
    BY <1>1, <1>2, <1>3, <2>1, <2>2 DEF PipeInv, PipeShape, ReadsUnlessQueued, BufferIntact
<1>6. CASE ~(Len(q) + Len(ops) > QCap)
  <2>1. q' = q \o new /\ exit' = exit
    BY <1>1, <1>6 DEF Enqueue
  <2>2. /\ new \in Seq(OpType) /\ Len(new) = Len(ops)
        /\ \A k \in 1..Len(ops) : new[k].id = nops + k /\ new[k].op = ops[k].op
    <3>1. \A k \in 1..Len(ops) :
            [id |-> nops + k, op |-> ops[k].op, size |-> ops[k].size] \in OpType
      BY <1>2, <1>4 DEF OpType
    <3>2. QED
      BY <1>4, <3>1, IsASeq
  <2> HIDE DEF new
  <2>3. /\ Len(q') = Len(q) + Len(ops)
        /\ \A k \in 1..(Len(q) + Len(ops)) :
             q'[k] = IF k <= Len(q) THEN q[k] ELSE new[k - Len(q)]
    <3>1. new \in Seq(OpType) /\ Len(new) = Len(ops)
      BY <2>2
    <3>2. q \in Seq(OpType)
      BY <1>2
    <3>3. /\ Len(q \o new) = Len(q) + Len(new)
          /\ \A k \in 1..(Len(q) + Len(new)) :
               (q \o new)[k] = IF k <= Len(q) THEN q[k] ELSE new[k - Len(q)]
      BY <3>1, <3>2, ConcatProperties
    <3>4. QED
      BY <2>1, <3>1, <3>3
  <2>4. ASSUME NEW k \in 1..Len(q')
        PROVE  /\ q'[k].op = "WRITE" <=> k = Len(q) + 1
               /\ k = Len(q) + 1 => q'[k].id = nops + 1
    <3>1. CASE k <= Len(q)
      <4>1. k \in 1..Len(q) /\ q'[k] = q[k]
        BY <1>2, <1>4, <2>3, <3>1
      <4>2. QED
        BY <1>2, <1>3, <3>1, <4>1
    <3>2. CASE ~(k <= Len(q))
      <4>1. PICK d \in 1..Len(ops) : d = k - Len(q) /\ q'[k] = new[d]
        BY <1>2, <1>4, <2>3, <3>2
      <4>2. q'[k].id = nops + d /\ (q'[k].op = "WRITE" <=> d = 1)
        BY <1>4, <2>2, <4>1
      <4>3. d = 1 <=> k = Len(q) + 1
        BY <1>2, <4>1
      <4>4. QED
        BY <1>2, <4>2, <4>3
    <3>3. QED
      BY <3>1, <3>2
  <2>5. Len(q) + 1 \in 1..Len(q') /\ q'[Len(q) + 1].op = "WRITE"
    BY <1>2, <1>4, <2>3, <2>4
  <2>6. PipeShape'
    BY <1>2, <1>3, <1>4, <2>3, <2>4, <2>5 DEF PipeShape
  <2>7. BufferIntact' /\ ReadsUnlessQueued'
    BY <1>1, <2>4, <2>5 DEF BufferIntact, ReadsUnlessQueued
  <2>8. buf' \in Nat /\ exit' # "assert_full"
    BY <1>1, <1>2, <2>1
  <2>9. QED
    BY <1>1, <2>6, <2>7, <2>8 DEF PipeInv
<1>7. QED
  BY <1>5, <1>6

(* The program ends in a callback of the pipe.                             *)
LEMMA PipeExitStep ==
  ASSUME AllInv, Callback, NEW why \in {"stdin_closed", "assert_size"}, Exit(why),
         UNCHANGED <<loopVars, waitVars, fileVars, nops, reading, buf>>
  PROVE  AllInv'
<1>1. exit = "no" /\ exit' = why
  BY DEF Callback, Running, Exit
<1>2. UNCHANGED <<pc, state, port, opVars, wire, handles, hung, config>>
  BY DEF Exit
<1>3. ControlType' /\ AssertionsHold'
  BY <1>1, <1>2 DEF AllInv, IInv, TypeOK, ControlType, AssertionsHold, config, handles, loopVars,
                    waitVars, fileVars
<1>4. IInv'
  BY <1>1, <1>2, <1>3, ExitStep DEF AllInv, opVars, fileVars
<1>5. WInv'
  BY <1>2, WireKept DEF AllInv, opVars
<1>6. PipeInv'
  BY <1>1, <1>2 DEF AllInv, PipeInv, PipeShape, ReadsUnlessQueued, BufferIntact, opVars
<1>7. QED
  BY <1>4, <1>5, <1>6 DEF AllInv

(* Every step of pipe, port and device preserves the invariants.           *)
LEMMA NextAllInv == AllInv /\ [PipeNext]_pipeVars => AllInv'
<1> SUFFICES ASSUME AllInv, [PipeNext]_pipeVars PROVE AllInv'
  OBVIOUS
<1>1. ASSUME [Next]_vars, PipeInv' PROVE AllInv'
  BY <1>1, NextIInv, NextWInv DEF AllInv
<1>2. CASE PortStep
  <2>1. Next
    BY <1>2 DEF PortStep, Next
  <2>2. QED
    BY <1>1, <1>2, <2>1, ReleaseStep
<1>3. ASSUME NEW size \in Chunks, NEW newline \in BOOLEAN, uvcb_read(size, newline) PROVE AllInv'
  <2>1. CASE size = 1 /\ newline
    BY <1>3, <2>1, PipeExitStep DEF uvcb_read
  <2>2. CASE ~(size = 1 /\ newline)
    <3>1. Next
      BY <1>3, <2>2, InpipeAssumption DEF uvcb_read, Next
    <3>2. QED
      BY <1>1, <1>3, <2>2, <3>1, ReadStep
  <2>3. QED
    BY <2>1, <2>2
<1>4. CASE uvcb_read_eof
  BY <1>4, PipeExitStep DEF uvcb_read_eof
<1>5. CASE UNCHANGED pipeVars
  <2>1. UNCHANGED vars /\ PipeInv'
    BY <1>5 DEF pipeVars, vars, portVars, opVars, AllInv, PipeInv, PipeShape, ReadsUnlessQueued,
                BufferIntact
  <2>2. QED
    BY <1>1, <2>1
<1>6. CASE Stopped /\ UNCHANGED <<reading, buf>>
  BY <1>5, <1>6 DEF Stopped, pipeVars
<1>7. QED
  BY <1>2, <1>3, <1>4, <1>5, <1>6 DEF PipeNext

(* The invariants hold throughout.                                         *)
LEMMA AllInvAlways == PipeSpec => []AllInv
BY InitAllInv, NextAllInv, PTL DEF PipeSpec

(* _uvcb_read() and _on_port_write_done() take turns: the pipe is stopped  *)
(* exactly as long as its buffer is queued, whoever releases it.           *)
THEOREM PipeReadsUnlessQueued == PipeSpec => []ReadsUnlessQueued
<1>1. AllInv => ReadsUnlessQueued
  BY DEF AllInv, PipeInv
<1>2. QED
  BY <1>1, AllInvAlways, PTL

(* The types of the port and of the pipe on top of it (inpipe.c).          *)
THEOREM PipeTypesOK == PipeSpec => []PipeTypeOK
<1>1. AllInv => PipeTypeOK
  BY DEF AllInv, IInv, PipeInv, PipeTypeOK
<1>2. QED
  BY <1>1, AllInvAlways, PTL

(* The static buffer is never overwritten while the queue refers to it.    *)
THEOREM PipeBufferIntact == PipeSpec => []BufferIntact
<1>1. AllInv => BufferIntact
  BY DEF AllInv, PipeInv
<1>2. QED
  BY <1>1, AllInvAlways, PTL

(* No input, however long, overflows a queue of three or more operations.  *)
THEOREM PipeAlwaysFits == PipeSpec => []PipeNeverOverflows
<1>1. AllInv => PipeNeverOverflows
  <2> SUFFICES ASSUME AllInv PROVE Len(q) <= 3
    BY DEF AllInv, PipeInv, PipeNeverOverflows
  <2>2. Len(q) \in Nat
    BY LenProperties DEF AllInv, IInv, TypeOK, DataType
  <2>3. CASE \E k \in 1..Len(q) : q[k].op = "WRITE"
    <3>1. PICK k \in 1..Len(q) : q[k].op = "WRITE"
      BY <2>3
    <3>2. k <= 2 /\ Len(q) <= k + 1
      BY <3>1 DEF AllInv, PipeInv, PipeShape
    <3>3. QED
      BY <2>2, <3>2
  <2>4. CASE \A k \in 1..Len(q) : q[k].op # "WRITE"
    <3>1. Len(q) <= 1
      BY <2>4 DEF AllInv, PipeInv, PipeShape
    <3>2. QED
      BY <2>2, <3>1
  <2>5. QED
    BY <2>3, <2>4
<1>2. QED
  BY <1>1, AllInvAlways, PTL

(* What goes over the wire from a pipe is complete and in order.           *)
THEOREM PipeWireInOrder == PipeSpec => []WireInOrder
<1>1. AllInv => WireInOrder
  BY DEF AllInv, WInv
<1>2. QED
  BY <1>1, AllInvAlways, PTL
=============================================================================
