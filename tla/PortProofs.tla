----------------------------- MODULE PortProofs -----------------------------
(***************************************************************************)
(* Proofs about the port of port.c and port_wait.c, for every queue size,  *)
(* every input, every number of changes of the device and every outcome of *)
(* the system calls: the invariants MCPort checks on small instances.      *)
(***************************************************************************)
EXTENDS Port, SequenceTheorems, TLAPS

(* While the program runs, the open port and the directory watch exclude   *)
(* each other, whatever part of a handler has run; OpenXorWatching says it *)
(* only of the points between handlers.                                    *)
Modes ==
  exit = "no" =>
    /\ port => pc = "loop" /\ state = "READY" /\ prepare /\ poll # "off" /\ ~fsev
    /\ ~port => ~prepare
    /\ fsev => pc = "loop" /\ state = "WAITING"
    /\ pc = "loop" => port \/ fsev
    /\ perm => fsev
    /\ hung => port
    /\ port /\ dev = "absent" => hung

(* The strengthening: each part needs the others.                          *)
IInv == /\ TypeOK /\ Modes /\ SettingsRestored
        /\ CurrentIsHead /\ SleepIsCurrent /\ OffsetInside /\ AssertionsHold

-----------------------------------------------------------------------------
(* Helpers.                                                                *)

(* Sleeping and exiting put no byte on the wire.                           *)
LEMMA BytesInNat ==
  /\ \A o \in OpType \cup {NoOp} : Bytes(o) \in Nat
  /\ Bytes(NoOp) = 0
  /\ \A o \in OpType : o.op \in {"SLEEP", "EXIT"} => Bytes(o) = 0
BY PortAssumption DEF Bytes, OpType, DataOps, OtherOps, NoOp

(* Having no current operation is told apart from having one.              *)
LEMMA NoOpNotQueued == NoOp \notin OpType
BY DEF NoOp, OpType, DataOps, OtherOps

(* Operations are numbered.                                                *)
LEMMA IdsInNat == ASSUME NEW s \in Seq(OpType) PROVE Ids(s) \in SUBSET Nat
<1>1. \A k \in 1..Len(s) : s[k] \in OpType
  BY ElementOfSeq
<1>2. \A k \in 1..Len(s) : s[k].id \in Nat
  BY <1>1 DEF OpType
<1>3. QED
  BY <1>2 DEF Ids

(* The provers need this said of a record with a Boolean field.            *)
LEMMA BooleanField ==
  ASSUME NEW i, NEW p, NEW b \in BOOLEAN, NEW r, r = [id |-> i, pos |-> p, last |-> b]
  PROVE  r.last = b
OBVIOUS

(* update_write() sends consecutive bytes of one operation.                *)
LEMMA WhatIsSent ==
  ASSUME NEW o \in OpType, NEW off \in Nat, NEW rc \in Nat
  PROVE  /\ SentBytes(o, off, rc) \in Seq(Sent)
         /\ Len(SentBytes(o, off, rc)) = rc
         /\ \A k \in 1..rc : /\ SentBytes(o, off, rc)[k].id = o.id
                             /\ SentBytes(o, off, rc)[k].pos = off + k - 1
                             /\ SentBytes(o, off, rc)[k].last <=> off + k = Bytes(o)
<1> DEFINE s == SentBytes(o, off, rc)
<1>1. \A k \in 1..rc : [id |-> o.id, pos |-> off + k - 1, last |-> off + k = Bytes(o)] \in Sent
  BY DEF OpType, Sent
<1>2. s \in Seq(Sent) /\ Len(s) = rc
  BY <1>1, IsASeq DEF SentBytes
<1>3. ASSUME NEW k \in 1..rc
      PROVE  s[k].id = o.id /\ s[k].pos = off + k - 1 /\ (s[k].last <=> off + k = Bytes(o))
  <2>1. s[k] = [id |-> o.id, pos |-> off + k - 1, last |-> off + k = Bytes(o)]
    BY DEF SentBytes
  <2> HIDE DEF s
  <2>2. s[k].id = o.id /\ s[k].pos = off + k - 1
    BY <2>1
  <2>3. s[k].last = (off + k = Bytes(o))
    BY <2>1, BooleanField
  <2>4. QED
    BY <2>2, <2>3
<1>4. QED
  BY <1>2, <1>3

(* A step that leaves the queue, its head and the sleep timer alone.       *)
LEMMA QueueKept ==
  ASSUME IInv, UNCHANGED <<port, q, current, offset, t_sleep>>, exit = "no"
  PROVE  CurrentIsHead' /\ SleepIsCurrent' /\ OffsetInside'
BY DEF IInv, CurrentIsHead, SleepIsCurrent, OffsetInside, Bytes

(* A step that leaves the queue and the wire alone keeps their types.      *)
LEMMA DataKept ==
  ASSUME IInv, UNCHANGED <<q, current, offset, wire, dropped, done, nops>>, plugs' \in Nat
  PROVE  DataType'
BY DEF IInv, TypeOK, DataType

(* What port_close() does to the settings.                                 *)
LEMMA RestoreType ==
  ASSUME ControlType, restore_config
  PROVE  /\ settings' \in {"org", "usr"} /\ saved' \in {"none", "org", "usr"}
         /\ unrestored' \in BOOLEAN
<1>1. CASE saved # "none" /\ dev # "absent"
  <2>1. settings' \in {"org", "usr"} /\ saved' = "none"
    BY <1>1 DEF restore_config, ControlType
  <2>2. unrestored' = unrestored \/ unrestored' = (unrestored \/ ~hung)
    BY <1>1 DEF restore_config
  <2>3. QED
    BY <2>1, <2>2 DEF ControlType
<1>2. CASE ~(saved # "none" /\ dev # "absent")
  BY <1>2 DEF restore_config, config, ControlType
<1>3. QED
  BY <1>1, <1>2

(* port_close() with the start of the wait, whoever calls it.              *)
LEMMA CloseStep ==
  ASSUME IInv, exit = "no", port, port_close, pc' = "wait", ControlType',
         UNCHANGED <<exit, state, wire, fsev, perm, fspend, dev, plugs, nops>>
  PROVE  IInv'
<1>1. Ids(q) \in SUBSET Nat
  BY IdsInNat DEF IInv, TypeOK, DataType
<1>2. /\ q' = <<>> /\ offset' = 0 /\ current' = NoOp /\ ~t_sleep'
      /\ dropped' = dropped \cup Ids(q) /\ done' = done
      /\ ~port' /\ ~prepare' /\ ~hung'
      /\ restore_config
  BY DEF port_close
<1>3. DataType'
  BY <1>1, <1>2, EmptySeq DEF IInv, TypeOK, DataType
<1>4. Modes'
  BY <1>2 DEF IInv, Modes
<1>5. SettingsRestored'
  <2>1. ASSUME dev # "absent", ~unrestored' PROVE settings' = "org"
    <3>1. CASE hung
      BY <1>2, <2>1, <3>1 DEF IInv, SettingsRestored, restore_config, config
    <3>2. CASE ~hung
      <4>1. unrestored' # (unrestored \/ ~hung)
        BY <2>1, <3>2
      <4>2. saved # "none" => settings' = saved /\ unrestored' = unrestored
        BY <1>2, <2>1, <4>1 DEF restore_config
      <4>3. saved = "none" => unrestored' = unrestored
        BY <1>2 DEF restore_config, config
      <4>4. saved = "org"
        BY <2>1, <3>2, <4>2, <4>3 DEF IInv, SettingsRestored
      <4>5. QED
        BY <4>2, <4>4
    <3>3. QED
      BY <3>1, <3>2
  <2>2. QED
    BY <1>2, <2>1 DEF SettingsRestored
<1>6. CurrentIsHead' /\ SleepIsCurrent' /\ OffsetInside' /\ AssertionsHold'
  BY <1>2 DEF IInv, CurrentIsHead, SleepIsCurrent, OffsetInside, AssertionsHold, NoOp
<1>7. QED
  BY <1>3, <1>4, <1>5, <1>6 DEF IInv, TypeOK

(* Ending the program leaves the rest of the state as it is.               *)
LEMMA ExitStep ==
  ASSUME IInv, exit = "no", exit' # "no", ControlType', AssertionsHold',
         UNCHANGED <<port, q, current, offset, wire, dropped, done, plugs, nops>>
  PROVE  IInv'
<1>1. DataType'
  BY DataKept DEF IInv, TypeOK, DataType
<1>2. QED
  BY <1>1 DEF IInv, TypeOK, Modes, SettingsRestored, config, CurrentIsHead, SleepIsCurrent,
              OffsetInside, Bytes

(* A panic of an open port ends the program or closes the port.            *)
LEMMA PanicStep ==
  ASSUME IInv, exit = "no", port, Panic("ioerr"), phase' = phase,
         polled' \in BOOLEAN, evw' \in BOOLEAN,
         UNCHANGED <<fsev, perm, fspend, dev, plugs, nops>>
  PROVE  IInv'
<1>1. CASE Stay
  <2>1. port_close /\ pc' = "wait" /\ UNCHANGED <<exit, state, wire>>
    BY <1>1 DEF Panic
  <2>2. ControlType'
    BY <2>1, RestoreType DEF IInv, TypeOK, ControlType, port_close
  <2>3. QED
    BY <2>1, <2>2, CloseStep
<1>2. CASE ~Stay
  <2>1. exit' = "ioerr" /\ UNCHANGED <<pc, state, port, opVars, wire, handles, hung, config>>
    BY <1>2 DEF Panic, Exit
  <2>2. ControlType' /\ AssertionsHold'
    BY <2>1 DEF IInv, TypeOK, ControlType, config, AssertionsHold, handles
  <2>3. QED
    BY <2>1, <2>2, ExitStep DEF opVars
<1>3. QED
  BY <1>1, <1>2

(* The end of the operation that is executing.                             *)
LEMMA OpDoneStep ==
  ASSUME IInv, exit = "no", current # NoOp, op_done, ~t_sleep', ControlType', DataType',
         UNCHANGED <<exit, pc, state, port, prepare, poll, hung, config, fsev, perm, dev>>
  PROVE  IInv'
<1>1. offset' = 0 /\ current' = NoOp
  BY DEF op_done
<1>2. CurrentIsHead' /\ SleepIsCurrent' /\ OffsetInside' /\ AssertionsHold'
  BY <1>1 DEF IInv, CurrentIsHead, SleepIsCurrent, OffsetInside, AssertionsHold, NoOp
<1>3. Modes' /\ SettingsRestored'
  BY DEF IInv, Modes, SettingsRestored, config
<1>4. QED
  BY <1>2, <1>3 DEF IInv, TypeOK

(* op_done() keeps the types of what it changes.                           *)
LEMMA OpDoneType ==
  ASSUME IInv, current # NoOp, op_done, wire' \in Seq(Sent), UNCHANGED <<plugs, nops>>
  PROVE  DataType'
<1>1. q # <<>> /\ current \in OpType
  BY DEF IInv, TypeOK, DataType, CurrentIsHead
<1>2. Tail(q) \in Seq(OpType)
  BY <1>1, HeadTailProperties DEF IInv, TypeOK, DataType
<1>3. done' \in SUBSET Nat
  BY <1>1 DEF op_done, IInv, TypeOK, DataType, OpType
<1>4. QED
  BY <1>2, <1>3 DEF op_done, IInv, TypeOK, DataType
-----------------------------------------------------------------------------
(* One lemma for each action.                                              *)

(* The invariant holds before port_init().                                 *)
LEMMA InitIInv == Init => IInv
<1> SUFFICES ASSUME Init PROVE IInv
  OBVIOUS
<1>1. ControlType
  BY DEF Init, ControlType, config
<1>2. DataType
  BY EmptySeq DEF Init, DataType
<1>3. Modes /\ SettingsRestored
  BY DEF Init, Modes, SettingsRestored, config
<1>4. CurrentIsHead /\ SleepIsCurrent /\ OffsetInside /\ AssertionsHold
  BY DEF Init, CurrentIsHead, SleepIsCurrent, OffsetInside, AssertionsHold, NoOp
<1>5. QED
  BY <1>1, <1>2, <1>3, <1>4 DEF IInv, TypeOK

(* A step that changes the mode of the program and nothing the open port   *)
(* works on.                                                               *)
LEMMA ModeStep ==
  ASSUME IInv, exit = "no", ControlType', Modes', SettingsRestored', plugs' \in Nat,
         UNCHANGED <<exit, q, current, offset, t_sleep, wire, dropped, done, nops>>,
         current # NoOp => port'
  PROVE  IInv'
<1>1. DataType'
  BY DataKept
<1>2. CurrentIsHead' /\ SleepIsCurrent' /\ OffsetInside' /\ AssertionsHold'
  BY DEF IInv, CurrentIsHead, SleepIsCurrent, OffsetInside, Bytes, AssertionsHold
<1>3. QED
  BY <1>1, <1>2 DEF IInv, TypeOK

(* port_init(): nothing is open or watched yet.                            *)
LEMMA InitStep == IInv /\ port_init => IInv'
<1> SUFFICES ASSUME IInv, port_init PROVE IInv'
  OBVIOUS
<1>1. /\ exit = "no" /\ pc = "init"
      /\ UNCHANGED <<state, port, opVars, wire, handles, hung, config>>
      /\ UNCHANGED <<loopVars, waitVars, fileVars, nops>>
  BY DEF port_init, Exit
<1>2. CASE dev = "absent" /\ ~Wait
  <2>1. exit' = "usage" /\ pc' = pc
    BY <1>2 DEF port_init, Exit
  <2>2. ControlType' /\ AssertionsHold'
    BY <1>1, <2>1 DEF IInv, TypeOK, ControlType, config, AssertionsHold, handles, loopVars,
                      waitVars, fileVars
  <2>3. QED
    BY <1>1, <2>1, <2>2, ExitStep DEF opVars, fileVars
<1>3. CASE ~(dev = "absent" /\ ~Wait)
  <2>1. exit' = exit /\ pc' \in {"open", "wait"}
    BY <1>3 DEF port_init
  <2>2. ControlType'
    BY <1>1, <2>1 DEF IInv, TypeOK, ControlType, config, handles, loopVars, waitVars, fileVars
  <2>3. Modes' /\ SettingsRestored'
    BY <1>1, <2>1 DEF IInv, Modes, SettingsRestored, config, handles, waitVars, fileVars
  <2>4. current # NoOp => port'
    BY <1>1 DEF IInv, CurrentIsHead
  <2>5. plugs' \in Nat
    BY <1>1 DEF IInv, TypeOK, DataType, fileVars
  <2>6. QED
    BY <1>1, <2>1, <2>2, <2>3, <2>4, <2>5, ModeStep DEF opVars, handles
<1>4. QED
  BY <1>2, <1>3

(* port_open() enters the open mode: no watch is active when it is called. *)
LEMMA OpenStep == IInv /\ port_open => IInv'
<1> SUFFICES ASSUME IInv, port_open PROVE IInv'
  OBVIOUS
<1>1. /\ exit = "no" /\ pc = "open"
      /\ UNCHANGED <<opVars, wire, t_sleep, loopVars, waitVars, fileVars, nops>>
  BY DEF port_open, Exit, handles
<1>2. CASE exit' # exit
  <2>1. /\ exit' \in {"assert_open", "uv"}
        /\ UNCHANGED <<pc, state, port, prepare, poll, hung, config>>
    BY <1>2 DEF port_open, Exit, handles
  <2>2. ControlType' /\ AssertionsHold'
    BY <1>1, <2>1 DEF IInv, TypeOK, ControlType, config, AssertionsHold, loopVars, waitVars,
                      fileVars
  <2>3. QED
    BY <1>1, <2>1, <2>2, ExitStep DEF opVars, fileVars
<1>3. CASE exit' = exit
  <2>1. /\ pc' = "loop" /\ state' = "READY" /\ dev = "ok"
        /\ saved' = settings /\ settings' = "usr" /\ unrestored' = unrestored
        /\ port' /\ ~hung' /\ prepare' /\ poll' = "rw"
        /\ port' \in BOOLEAN /\ hung' \in BOOLEAN /\ prepare' \in BOOLEAN
    BY <1>1, <1>3 DEF port_open, configure, Exit
  <2>2. ControlType'
    BY <1>1, <1>3, <2>1 DEF IInv, TypeOK, ControlType, config, loopVars, waitVars, fileVars
  <2>3. Modes' /\ SettingsRestored'
    <3>1. ~port /\ ~fsev /\ dev' = dev
      BY <1>1 DEF IInv, Modes, fileVars
    <3>2. Modes'
      BY <1>1, <2>1, <3>1 DEF IInv, Modes, waitVars
    <3>3. ~unrestored => saved' = "org"
      BY <1>1, <2>1, <3>1 DEF IInv, SettingsRestored
    <3>4. QED
      BY <2>1, <3>2, <3>3 DEF SettingsRestored
  <2>4. plugs' \in Nat
    BY <1>1 DEF IInv, TypeOK, DataType, fileVars
  <2>5. QED
    BY <1>1, <1>3, <2>1, <2>2, <2>3, <2>4, ModeStep DEF opVars
<1>4. QED
  BY <1>2, <1>3

(* _wait_start() enters the waiting mode, with no handle of the port active. *)
LEMMA WaitStep == IInv /\ wait_start => IInv'
<1> SUFFICES ASSUME IInv, wait_start PROVE IInv'
  OBVIOUS
<1>1. exit = "no" /\ pc = "wait" /\ ~fsev
  BY DEF wait_start, IInv, Modes
<1>2. /\ pc' = "loop" /\ state' = "WAITING" /\ fsev' /\ ~fspend'
      /\ fsev' \in BOOLEAN /\ fspend' \in BOOLEAN
      /\ UNCHANGED <<exit, port, opVars, wire, handles, hung, config>>
      /\ UNCHANGED <<perm, loopVars, fileVars, nops>>
  BY <1>1 DEF wait_start
<1>3. ControlType'
  BY <1>2 DEF IInv, TypeOK, ControlType, config, handles, loopVars, fileVars
<1>4. Modes' /\ SettingsRestored'
  BY <1>1, <1>2 DEF IInv, Modes, SettingsRestored, config, handles, fileVars
<1>5. (current # NoOp => port') /\ plugs' \in Nat
  BY <1>2 DEF IInv, CurrentIsHead, TypeOK, DataType, fileVars
<1>6. QED
  BY <1>1, <1>2, <1>3, <1>4, <1>5, ModeStep DEF opVars, handles

(* _on_dir_entry_change() stops the watch and its timer before it opens.   *)
LEMMA DirStep == IInv /\ on_dir_entry_change => IInv'
<1> SUFFICES ASSUME IInv, on_dir_entry_change PROVE IInv'
  OBVIOUS
<1>1. /\ exit = "no" /\ pc = "loop" /\ fsev
      /\ UNCHANGED <<exit, state, port, opVars, wire, handles, hung, config>>
      /\ UNCHANGED <<loopVars, fileVars, nops>>
      /\ fsev' <=> dev # "ok"
      /\ perm' <=> dev = "denied" \/ (dev = "absent" /\ perm)
      /\ pc' = IF dev = "ok" THEN "open" ELSE pc
      /\ fspend' \in BOOLEAN /\ fsev' \in BOOLEAN /\ perm' \in BOOLEAN
  BY DEF on_dir_entry_change, Callback, Running
<1>2. ControlType'
  BY <1>1 DEF IInv, TypeOK, ControlType, config, handles, loopVars, fileVars
<1>3. Modes' /\ SettingsRestored'
  BY <1>1 DEF IInv, Modes, SettingsRestored, config, handles, fileVars
<1>4. (current # NoOp => port') /\ plugs' \in Nat
  BY <1>1 DEF IInv, CurrentIsHead, TypeOK, DataType, fileVars
<1>5. QED
  BY <1>1, <1>2, <1>3, <1>4, ModeStep DEF opVars, handles

(* The steps of the loop between two callbacks.                            *)
LEMMA PhaseStep == IInv /\ (TimersDone \/ PollDone) => IInv'
<1> SUFFICES ASSUME IInv, TimersDone \/ PollDone PROVE IInv'
  OBVIOUS
<1>1. /\ exit = "no" /\ phase' \in {"prepare", "timers"}
      /\ UNCHANGED <<portVars, polled, evw, waitVars, fileVars, nops>>
  BY DEF TimersDone, PollDone, Callback, Running
<1>2. ControlType'
  BY <1>1 DEF IInv, TypeOK, ControlType, config, portVars, handles, waitVars, fileVars
<1>3. Modes' /\ SettingsRestored'
  BY <1>1 DEF IInv, Modes, SettingsRestored, config, portVars, handles, waitVars, fileVars
<1>4. (current # NoOp => port') /\ plugs' \in Nat
  BY <1>1 DEF IInv, CurrentIsHead, TypeOK, DataType, portVars, fileVars
<1>5. QED
  BY <1>1, <1>2, <1>3, <1>4, ModeStep DEF portVars, opVars, handles

(* The device may come and go at any time.                                 *)
LEMMA DeviceStep == IInv /\ Device => IInv'
<1> SUFFICES ASSUME IInv, Device PROVE IInv'
  OBVIOUS
<1>1. /\ exit = "no" /\ plugs' = plugs + 1 /\ fspend' \in BOOLEAN
      /\ dev' \in {"absent", "denied", "ok"}
      /\ UNCHANGED <<exit, pc, state, port, opVars, wire, handles, loopVars, fsev, perm, nops>>
  BY DEF IInv, TypeOK, ControlType, Device, Plug, Grant, Unplug, Touch, Change
<1>2. \/ /\ dev = "absent" /\ settings' = "org" /\ unrestored' = FALSE
         /\ UNCHANGED <<hung, saved>>
      \/ dev # "absent" /\ dev' # "absent" /\ UNCHANGED <<hung, config>>
      \/ dev' = "absent" /\ hung' = port /\ UNCHANGED config
  BY DEF Device, Plug, Grant, Unplug, Touch, Change
<1>3. ControlType'
  <2>1. settings' \in {"org", "usr"} /\ saved' \in {"none", "org", "usr"} /\ hung' \in BOOLEAN
    BY <1>2 DEF IInv, TypeOK, ControlType, config
  <2>2. unrestored' = FALSE \/ unrestored' = unrestored
    BY <1>2 DEF config
  <2>3. unrestored' \in BOOLEAN
    BY <2>2 DEF IInv, TypeOK, ControlType
  <2>4. QED
    BY <1>1, <2>1, <2>3 DEF IInv, TypeOK, ControlType, handles, loopVars
<1>4. Modes' /\ SettingsRestored'
  BY <1>1, <1>2 DEF IInv, Modes, SettingsRestored, config, handles
<1>5. (current # NoOp => port') /\ plugs' \in Nat
  BY <1>1 DEF IInv, CurrentIsHead, TypeOK, DataType
<1>6. QED
  BY <1>1, <1>3, <1>4, <1>5, ModeStep DEF opVars, handles

(* The permission timer ends the program.                                  *)
LEMMA PermissionStep == IInv /\ permission_timeout => IInv'
<1> SUFFICES ASSUME IInv, permission_timeout PROVE IInv'
  OBVIOUS
<1>1. /\ exit = "no" /\ exit' = "noperm"
      /\ UNCHANGED <<pc, state, port, opVars, wire, handles, hung, config>>
      /\ UNCHANGED <<loopVars, waitVars, fileVars, nops>>
  BY DEF permission_timeout, Running, Exit
<1>2. ControlType' /\ AssertionsHold'
  BY <1>1 DEF IInv, TypeOK, ControlType, config, AssertionsHold, handles, loopVars, waitVars,
              fileVars
<1>3. QED
  BY <1>1, <1>2, ExitStep DEF opVars, fileVars

(* The sleep timer finds its own operation at the head of the queue.       *)
LEMMA SleepStep == IInv /\ on_sleep_done => IInv'
<1> SUFFICES ASSUME IInv, on_sleep_done PROVE IInv'
  OBVIOUS
<1>1. exit = "no" /\ current.op = "SLEEP"
  BY DEF on_sleep_done, Running, IInv, SleepIsCurrent
<1>2. /\ op_done /\ ~t_sleep' /\ t_sleep' \in BOOLEAN
      /\ UNCHANGED <<exit, pc, state, port, wire, prepare, poll, hung, config>>
      /\ UNCHANGED <<loopVars, waitVars, fileVars, nops>>
  BY <1>1 DEF on_sleep_done
<1>3. current # NoOp
  BY <1>1 DEF NoOp
<1>4. ControlType'
  BY <1>2 DEF IInv, TypeOK, ControlType, config, loopVars, waitVars, fileVars
<1>5. DataType'
  <2>1. wire' \in Seq(Sent) /\ UNCHANGED <<plugs, nops>>
    BY <1>2 DEF IInv, TypeOK, DataType, fileVars
  <2>2. QED
    BY <1>2, <1>3, <2>1, OpDoneType
<1>6. QED
  BY <1>1, <1>2, <1>3, <1>4, <1>5, OpDoneStep DEF waitVars, fileVars

(* _on_prepare() loads the head of the queue, or nothing.                  *)
LEMMA PrepareStep == IInv /\ Prepare => IInv'
<1> SUFFICES ASSUME IInv, Prepare PROVE IInv'
  OBVIOUS
<1>1. /\ exit = "no" /\ pc = "loop" /\ phase' = "poll" /\ polled' \in BOOLEAN
      /\ UNCHANGED <<pc, state, port, wire, prepare, hung, config, evw, waitVars, fileVars,
                     nops>>
  BY DEF Prepare, Running
<1>2. CASE ~prepare
  <2>1. /\ exit' = "uv" \/ exit' = exit
        /\ UNCHANGED <<opVars, t_sleep, poll>>
    BY <1>2 DEF Prepare
  <2>2. ControlType' /\ AssertionsHold'
    BY <1>1, <2>1 DEF IInv, TypeOK, ControlType, config, AssertionsHold, waitVars, fileVars
  <2>3. CASE exit' = exit
    <3>1. Modes' /\ SettingsRestored' /\ (current # NoOp => port') /\ plugs' \in Nat
      BY <1>1, <2>1, <2>3 DEF IInv, TypeOK, DataType, Modes, SettingsRestored, config,
                              CurrentIsHead, waitVars, fileVars
    <3>2. QED
      BY <1>1, <2>1, <2>2, <2>3, <3>1, ModeStep DEF opVars
  <2>4. CASE exit' # exit
    BY <1>1, <2>1, <2>2, <2>4, ExitStep DEF opVars, fileVars
  <2>5. QED
    BY <2>3, <2>4
<1>3. CASE prepare
  <2>1. port /\ state = "READY" /\ on_prepare
    BY <1>1, <1>3 DEF Prepare, IInv, Modes
  <2>2. CASE current # NoOp
    <3>1. UNCHANGED <<exit, opVars, t_sleep, poll>>
      BY <2>1, <2>2 DEF on_prepare
    <3>2. ControlType' /\ Modes' /\ SettingsRestored' /\ plugs' \in Nat
      BY <1>1, <3>1 DEF IInv, TypeOK, ControlType, config, DataType, Modes, SettingsRestored,
                        waitVars, fileVars
    <3>3. QED
      BY <1>1, <2>1, <3>1, <3>2, ModeStep DEF opVars
  <2>3. CASE current = NoOp /\ q = <<>>
    <3>1. poll' = "r" /\ UNCHANGED <<exit, opVars, t_sleep>>
      BY <2>1, <2>3 DEF on_prepare
    <3>2. ControlType' /\ Modes' /\ SettingsRestored' /\ plugs' \in Nat
      BY <1>1, <3>1 DEF IInv, TypeOK, ControlType, config, DataType, Modes, SettingsRestored,
                        waitVars, fileVars
    <3>3. QED
      BY <1>1, <2>1, <3>1, <3>2, ModeStep DEF opVars
  <2>4. CASE current = NoOp /\ q # <<>>
    <3>1. /\ current' = q[1] /\ UNCHANGED <<q, offset, dropped, done>>
          /\ exit' = IF q[1].op = "EXIT" THEN "op_exit" ELSE exit
          /\ t_sleep' = (t_sleep \/ q[1].op = "SLEEP")
          /\ poll' = IF q[1].op \in {"EXIT", "SLEEP"} THEN poll ELSE "rw"
      BY <2>1, <2>4 DEF on_prepare
    <3>2. q[1] \in OpType /\ q[1] # NoOp
      BY <2>4, ElementOfSeq, EmptySeq, NoOpNotQueued DEF IInv, TypeOK, DataType
    <3>3. offset = 0 /\ ~t_sleep
      <4>1. ~(offset < 0)
        BY DEF IInv, TypeOK, DataType
      <4>2. QED
        BY <1>1, <2>4, <4>1, BytesInNat DEF IInv, OffsetInside, SleepIsCurrent, NoOp
    <3>4. t_sleep' <=> q[1].op = "SLEEP"
      BY <3>1, <3>3
    <3>5. ControlType' /\ AssertionsHold'
      <4>1. t_sleep' \in BOOLEAN
        BY <3>1
      <4>2. QED
        BY <1>1, <3>1, <4>1 DEF IInv, TypeOK, ControlType, config, AssertionsHold, waitVars,
                                fileVars
    <3>6. DataType'
      BY <1>1, <3>1, <3>2 DEF IInv, TypeOK, DataType, fileVars
    <3>7. Modes' /\ SettingsRestored'
      BY <1>1, <2>1, <3>1 DEF IInv, Modes, SettingsRestored, config, waitVars, fileVars
    <3>8. CurrentIsHead' /\ SleepIsCurrent' /\ OffsetInside'
      BY <1>1, <2>1, <2>4, <3>1, <3>3, <3>4 DEF CurrentIsHead, SleepIsCurrent, OffsetInside
    <3>9. QED
      BY <3>5, <3>6, <3>7, <3>8 DEF IInv, TypeOK
  <2>5. QED
    BY <2>2, <2>3, <2>4
<1>4. QED
  BY <1>2, <1>3

(* A hung up descriptor closes the port.                                   *)
LEMMA EbadfStep == IInv /\ poll_ebadf => IInv'
<1> SUFFICES ASSUME IInv, poll_ebadf PROVE IInv'
  OBVIOUS
<1>1. /\ exit = "no" /\ port /\ polled' \in BOOLEAN
      /\ UNCHANGED <<phase, evw, waitVars, fileVars, nops>>
  BY DEF poll_ebadf, Callback, Running
<1>2. CASE Stay
  <2>1. port_close /\ pc' = "wait" /\ UNCHANGED <<exit, state, wire>>
    BY <1>2 DEF poll_ebadf
  <2>2. ControlType'
    BY <1>1, <2>1, RestoreType DEF IInv, TypeOK, ControlType, port_close, waitVars, fileVars
  <2>3. QED
    BY <1>1, <2>1, <2>2, CloseStep DEF waitVars, fileVars
<1>3. CASE ~Stay
  <2>1. /\ poll' = "off" /\ exit' = "osfile"
        /\ UNCHANGED <<pc, state, port, opVars, wire, prepare, t_sleep, hung, config>>
    BY <1>3 DEF poll_ebadf
  <2>2. ControlType' /\ AssertionsHold'
    BY <1>1, <2>1 DEF IInv, TypeOK, ControlType, config, AssertionsHold, waitVars, fileVars
  <2>3. QED
    BY <1>1, <2>1, <2>2, ExitStep DEF opVars, fileVars
<1>4. QED
  BY <1>2, <1>3

(* A poll event is delivered; a failed read closes the port.               *)
LEMMA EventStep ==
  ASSUME IInv, NEW r \in BOOLEAN, NEW w \in BOOLEAN, NEW f \in BOOLEAN, poll_event(r, w, f)
  PROVE  IInv'
<1>1. /\ exit = "no" /\ port /\ polled' \in BOOLEAN /\ evw' \in BOOLEAN
      /\ UNCHANGED <<phase, waitVars, fileVars, nops>>
      /\ IF f THEN Panic("ioerr") ELSE UNCHANGED portVars
  BY DEF poll_event, Callback, Running
<1>2. CASE f
  BY <1>1, <1>2, PanicStep DEF waitVars, fileVars
<1>3. CASE ~f
  <2>1. UNCHANGED portVars
    BY <1>1, <1>3
  <2>2. ControlType' /\ Modes' /\ SettingsRestored' /\ plugs' \in Nat
    BY <1>1, <2>1 DEF IInv, TypeOK, ControlType, config, DataType, Modes, SettingsRestored,
                      portVars, handles, waitVars, fileVars
  <2>3. QED
    BY <1>1, <2>1, <2>2, ModeStep DEF portVars, opVars, handles
<1>4. QED
  BY <1>2, <1>3

(* A write that did not fail: the operation advances or is done.           *)
LEMMA WriteStep ==
  ASSUME IInv, exit = "no", current # NoOp, offset < Bytes(current), evw' \in BOOLEAN,
         NEW rc \in Int, 0 <= rc, rc <= Bytes(current) - offset, update_write(rc),
         UNCHANGED <<phase, polled, waitVars, fileVars, nops>>
  PROVE  IInv'
<1> DEFINE new == SentBytes(current, offset, rc)
<1>1. current \in OpType /\ Bytes(current) \in Nat /\ offset \in Nat
  BY BytesInNat DEF IInv, TypeOK, DataType
<1>2. /\ wire' = wire \o new
      /\ UNCHANGED <<exit, pc, state, port, handles, hung, config>>
      /\ IF rc = Bytes(current) - offset
         THEN op_done
         ELSE offset' = offset + rc /\ UNCHANGED <<q, current, dropped, done>>
  BY DEF update_write
<1>3. wire' \in Seq(Sent)
  <2>1. rc \in Nat
    OBVIOUS
  <2>2. new \in Seq(Sent)
    BY <1>1, <2>1, WhatIsSent
  <2>3. QED
    BY <1>2, <2>2, ConcatProperties DEF IInv, TypeOK, DataType
<1>4. ~t_sleep /\ t_sleep' = t_sleep
  BY <1>1, <1>2, BytesInNat DEF IInv, SleepIsCurrent, handles
<1>5. ControlType'
  BY <1>2 DEF IInv, TypeOK, ControlType, config, handles, waitVars, fileVars
<1>6. CASE rc = Bytes(current) - offset
  <2>1. op_done
    BY <1>2, <1>6
  <2>2. DataType'
    BY <1>3, <2>1, OpDoneType DEF fileVars
  <2>3. QED
    BY <1>2, <1>4, <1>5, <2>1, <2>2, OpDoneStep DEF handles, waitVars, fileVars
<1>7. CASE rc # Bytes(current) - offset
  <2>1. offset' = offset + rc /\ UNCHANGED <<q, current, dropped, done>>
    BY <1>2, <1>7
  <2>2. offset' \in Nat /\ offset' < Bytes(current)
    BY <1>1, <1>7, <2>1
  <2>3. DataType'
    BY <1>3, <2>1, <2>2 DEF IInv, TypeOK, DataType, fileVars
  <2>4. Modes' /\ SettingsRestored'
    BY <1>2 DEF IInv, Modes, SettingsRestored, config, handles, waitVars, fileVars
  <2>5. CurrentIsHead' /\ SleepIsCurrent' /\ AssertionsHold'
    BY <1>2, <1>4, <2>1 DEF IInv, CurrentIsHead, SleepIsCurrent, AssertionsHold
  <2>6. OffsetInside'
    BY <2>1, <2>2 DEF OffsetInside, Bytes
  <2>7. QED
    BY <1>5, <2>3, <2>4, <2>5, <2>6 DEF IInv, TypeOK
<1>8. QED
  BY <1>6, <1>7

(* _on_writable() runs one step of the current operation.                  *)
LEMMA WritableStep == IInv /\ on_writable => IInv'
<1> SUFFICES ASSUME IInv, on_writable PROVE IInv'
  OBVIOUS
<1>1. /\ exit = "no" /\ evw' \in BOOLEAN
      /\ UNCHANGED <<phase, polled, waitVars, fileVars, nops>>
  BY DEF on_writable, Running
<1>2. current # NoOp => port /\ current \in OpType /\ Bytes(current) \in Nat /\ offset \in Nat
  BY BytesInNat DEF IInv, TypeOK, DataType, CurrentIsHead
<1>3. CASE current = NoOp
  <2>1. /\ poll' = "r"
        /\ UNCHANGED <<exit, pc, state, port, opVars, wire, prepare, t_sleep, hung, config>>
    BY <1>3 DEF on_writable
  <2>2. ControlType' /\ Modes' /\ SettingsRestored' /\ plugs' \in Nat
    BY <1>1, <2>1 DEF IInv, TypeOK, ControlType, config, DataType, Modes, SettingsRestored,
                      waitVars, fileVars
  <2>3. QED
    BY <1>1, <1>3, <2>1, <2>2, ModeStep DEF opVars
<1>4. CASE current # NoOp /\ current.op \in {"SLEEP", "EXIT"}
  <2>1. UNCHANGED portVars
    BY <1>4 DEF on_writable
  <2>2. ControlType' /\ Modes' /\ SettingsRestored' /\ plugs' \in Nat
    BY <1>1, <2>1 DEF IInv, TypeOK, ControlType, config, DataType, Modes, SettingsRestored,
                      portVars, handles, waitVars, fileVars
  <2>3. QED
    BY <1>1, <1>2, <2>1, <2>2, ModeStep DEF portVars, opVars, handles
<1>5. CASE current # NoOp /\ current.op \notin {"SLEEP", "EXIT"} /\ Bytes(current) = 0
  <2>1. op_done /\ UNCHANGED <<exit, pc, state, port, wire, handles, hung, config>>
    BY <1>5 DEF on_writable
  <2>2. ControlType'
    BY <1>1, <2>1 DEF IInv, TypeOK, ControlType, config, handles, waitVars, fileVars
  <2>3. DataType'
    <3>1. wire' \in Seq(Sent) /\ UNCHANGED <<plugs, nops>>
      BY <1>1, <2>1 DEF IInv, TypeOK, DataType, fileVars
    <3>2. QED
      BY <1>5, <2>1, <3>1, OpDoneType
  <2>4. ~t_sleep'
    BY <1>1, <1>5, <2>1 DEF IInv, SleepIsCurrent, handles
  <2>5. QED
    BY <1>1, <1>5, <2>1, <2>2, <2>3, <2>4, OpDoneStep DEF handles, waitVars, fileVars
<1>6. CASE current # NoOp /\ current.op \notin {"SLEEP", "EXIT"} /\ Bytes(current) # 0
  <2>1. offset < Bytes(current)
    BY <1>2, <1>6 DEF IInv, OffsetInside
  <2>2. PICK rc \in WriteResults : update_write(rc)
    BY <1>2, <1>6, <2>1 DEF on_writable
  <2>3. rc \in Int /\ (rc < 0 \/ (0 <= rc /\ rc <= Bytes(current) - offset))
    BY <1>2, <1>6, <2>1 DEF WriteResults
  <2>4. CASE rc < 0
    <3>1. Panic("ioerr")
      BY <2>2, <2>4 DEF update_write
    <3>2. polled' \in BOOLEAN
      BY <1>1 DEF IInv, TypeOK, ControlType, config
    <3>3. QED
      BY <1>1, <1>2, <1>6, <3>1, <3>2, PanicStep DEF waitVars, fileVars
  <2>5. CASE ~(rc < 0)
    BY <1>1, <1>6, <2>1, <2>2, <2>3, <2>5, WriteStep
  <2>6. QED
    BY <2>4, <2>5
<1>7. QED
  BY <1>3, <1>4, <1>5, <1>6

(* An input callback adds at the end of the queue only.                    *)
LEMMA EnqueueStep ==
  ASSUME IInv, NEW ops \in Inputs, Enqueue(ops)
  PROVE  IInv'
<1> DEFINE item(k) == [id |-> nops + k, op |-> ops[k].op, size |-> ops[k].size]
           new == [k \in 1..Len(ops) |-> item(k)]
<1>1. exit = "no" /\ UNCHANGED <<loopVars, waitVars, fileVars>>
  BY DEF Enqueue, Callback, Running
<1>2. CASE Len(q) + Len(ops) > QCap
  <2>1. /\ exit' = "assert_full" /\ UNCHANGED nops
        /\ UNCHANGED <<pc, state, port, opVars, wire, handles, hung, config>>
    BY <1>2 DEF Enqueue, Exit
  <2>2. ControlType' /\ AssertionsHold'
    BY <1>1, <2>1 DEF IInv, TypeOK, ControlType, config, AssertionsHold, handles, loopVars,
                      waitVars, fileVars
  <2>3. QED
    BY <1>1, <2>1, <2>2, ExitStep DEF opVars, fileVars
<1>3. CASE ~(Len(q) + Len(ops) > QCap)
  <2>1. /\ q' = q \o new /\ nops' = nops + Len(ops)
        /\ UNCHANGED <<exit, pc, state, port, current, offset, dropped, done, wire, handles,
                       hung, config>>
    BY <1>3 DEF Enqueue
  <2>2. ops \in Seq([op : DataOps \cup OtherOps, size : Nat]) /\ Len(ops) \in Nat
    BY PortAssumption, LenProperties
  <2>3. new \in Seq(OpType)
    <3>1. \A k \in 1..Len(ops) : ops[k] \in [op : DataOps \cup OtherOps, size : Nat]
      BY <2>2, ElementOfSeq
    <3>2. \A k \in 1..Len(ops) : item(k) \in OpType
      BY <2>2, <3>1 DEF IInv, TypeOK, DataType, OpType
    <3> HIDE DEF item
    <3>3. QED
      BY <2>2, <3>2, IsASeq
  <2>4. q \in Seq(OpType)
    BY DEF IInv, TypeOK, DataType
  <2> HIDE DEF new
  <2>5. q' \in Seq(OpType) /\ (q # <<>> => q' # <<>> /\ q'[1] = q[1])
    BY <2>1, <2>3, <2>4, ConcatProperties, EmptySeq
  <2>6. ControlType' /\ Modes' /\ SettingsRestored'
    BY <1>1, <2>1 DEF IInv, TypeOK, ControlType, config, Modes, SettingsRestored, handles,
                      loopVars, waitVars, fileVars
  <2>7. DataType'
    BY <1>1, <2>1, <2>2, <2>5 DEF IInv, TypeOK, DataType, fileVars
  <2>8. CurrentIsHead' /\ SleepIsCurrent' /\ OffsetInside' /\ AssertionsHold'
    BY <2>1, <2>5 DEF IInv, CurrentIsHead, SleepIsCurrent, OffsetInside, Bytes,
                      AssertionsHold, handles
  <2>9. QED
    BY <2>6, <2>7, <2>8 DEF IInv, TypeOK
<1>4. QED
  BY <1>2, <1>3

(* The invariant speaks of nothing but the variables.                      *)
LEMMA StutterStep == IInv /\ UNCHANGED vars => IInv'
<1> SUFFICES ASSUME IInv, UNCHANGED vars PROVE IInv'
  OBVIOUS
<1>1. ControlType' /\ Modes' /\ SettingsRestored'
  BY DEF IInv, TypeOK, ControlType, config, Modes, SettingsRestored, vars, portVars, handles,
         loopVars, waitVars, fileVars
<1>2. DataType'
  BY DEF IInv, TypeOK, DataType, vars, portVars, opVars, fileVars
<1>3. CurrentIsHead' /\ SleepIsCurrent' /\ OffsetInside' /\ AssertionsHold'
  BY DEF IInv, CurrentIsHead, SleepIsCurrent, OffsetInside, Bytes, AssertionsHold, vars,
         portVars, opVars, handles
<1>4. QED
  BY <1>1, <1>2, <1>3 DEF IInv, TypeOK

(* Every step preserves the invariant.                                     *)
LEMMA NextIInv == IInv /\ [Next]_vars => IInv'
<1> SUFFICES ASSUME IInv, [Next]_vars PROVE IInv'
  OBVIOUS
<1>1. CASE Loop
  BY <1>1, InitStep, OpenStep, WaitStep, DirStep, PermissionStep, SleepStep, PhaseStep,
     PrepareStep, EbadfStep, EventStep, WritableStep DEF Loop, PortEvent
<1>2. CASE Device
  BY <1>2, DeviceStep
<1>3. CASE \E ops \in Inputs : Enqueue(ops)
  BY <1>3, EnqueueStep
<1>4. CASE Stopped \/ UNCHANGED vars
  BY <1>4, StutterStep DEF Stopped
<1>5. QED
  BY <1>1, <1>2, <1>3, <1>4 DEF Next

-----------------------------------------------------------------------------
(* Results.                                                                *)

(* The invariant holds throughout.                                         *)
LEMMA IInvAlways == Spec => []IInv
BY InitIInv, NextIInv, PTL DEF Spec

(* Every variable keeps its type.                                          *)
THEOREM PortTypeOK == Spec => []TypeOK
<1>1. IInv => TypeOK
  BY DEF IInv
<1>2. QED
  BY <1>1, IInvAlways, PTL

(* _uvcb_poll_event and _on_dir_entry_change never both wait for events.   *)
THEOREM OpenOrWatching == Spec => []OpenXorWatching
<1>1. IInv => OpenXorWatching
  BY DEF IInv, Modes, OpenXorWatching, Running
<1>2. QED
  BY <1>1, IInvAlways, PTL

(* op_done() always releases the operation it was given.                   *)
THEOREM ExecutesTheHead == Spec => []CurrentIsHead
<1>1. IInv => CurrentIsHead
  BY DEF IInv
<1>2. QED
  BY <1>1, IInvAlways, PTL

(* The sleep timer never fires on an operation other than its own.         *)
THEOREM SleepTimerIsCurrent == Spec => []SleepIsCurrent
<1>1. IInv => SleepIsCurrent
  BY DEF IInv
<1>2. QED
  BY <1>1, IInvAlways, PTL

(* No operation starts in the middle or is continued past its end.         *)
THEOREM OffsetNeverStale == Spec => []OffsetInside
<1>1. IInv => OffsetInside
  BY DEF IInv
<1>2. QED
  BY <1>1, IInvAlways, PTL

(* The permission timer never runs beyond the wait for the device.         *)
THEOREM PermissionTimerStops == Spec => []PermissionOnlyWatching
<1>1. IInv => PermissionOnlyWatching
  BY DEF IInv, Modes, PermissionOnlyWatching, Running
<1>2. QED
  BY <1>1, IInvAlways, PTL

(* The assertions of port.c and port_wait.c never fail.                    *)
THEOREM NoAssertionFails == Spec => []AssertionsHold
<1>1. IInv => AssertionsHold
  BY DEF IInv
<1>2. QED
  BY <1>1, IInvAlways, PTL

(* Unless sp_set_config() failed in port_close(), the own settings of the  *)
(* device that is there are saved while the port is open, and back in the  *)
(* device at any other time.                                               *)
THEOREM SettingsAlwaysRestored == Spec => []SettingsRestored
<1>1. IInv => SettingsRestored
  BY DEF IInv
<1>2. QED
  BY <1>1, IInvAlways, PTL

-----------------------------------------------------------------------------
(* What is on the wire.  WireInOrder is not inductive: one has to know     *)
(* where the last byte sent stands to the operations still queued.         *)

(* Operations are numbered in the order of the queue. *)
IdsInOrder ==
  /\ \A k \in 1..Len(q) : q[k].id \in 1..nops
  /\ \A i, j \in 1..Len(q) : i < j => q[i].id < q[j].id

(* The next byte of the current operation continues the last byte sent;    *)
(* without a started operation, that byte ended one, or a close cut it.    *)
WireJoins ==
  /\ offset # 0 =>
       /\ wire # <<>>
       /\ wire[Len(wire)].id = current.id
       /\ wire[Len(wire)].pos = offset - 1
       /\ ~wire[Len(wire)].last
  /\ offset = 0 /\ wire # <<>> =>
       /\ wire[Len(wire)].last \/ wire[Len(wire)].id \in dropped
       /\ wire[Len(wire)].id <= nops
       /\ \A k \in 1..Len(q) : wire[Len(wire)].id < q[k].id

WInv == IdsInOrder /\ WireJoins /\ WireInOrder

(* The wire is in order before anything is sent.                           *)
LEMMA InitWInv == Init => WInv
BY DEF Init, WInv, IdsInOrder, WireJoins, WireInOrder

(* A step that neither writes nor changes the queue. *)
LEMMA WireKept ==
  ASSUME WInv, UNCHANGED <<q, offset, wire, dropped, done, nops>>,
         offset # 0 => current' = current
  PROVE  WInv'
<1>1. IdsInOrder' /\ WireJoins'
  BY DEF WInv, IdsInOrder, WireJoins
<1>2. WireInOrder'
  BY DEF WInv, WireInOrder, Follows
<1>3. QED
  BY <1>1, <1>2 DEF WInv

(* port_close() may cut the operation on the wire short, and only that one. *)
LEMMA WireClose ==
  ASSUME IInv, WInv, port_close, wire' = wire, nops' = nops
  PROVE  WInv'
<1>1. q' = <<>> /\ offset' = 0 /\ dropped' = dropped \cup Ids(q) /\ done' = done
  BY DEF port_close
<1>2. offset # 0 => current.id \in Ids(q) /\ current.id <= nops
  <2>1. ASSUME offset # 0 PROVE current = q[1] /\ 1 \in 1..Len(q)
    <3>1. current # NoOp
      BY <2>1, BytesInNat DEF IInv, OffsetInside, TypeOK, DataType
    <3>2. QED
      BY <3>1, EmptySeq DEF IInv, CurrentIsHead, TypeOK, DataType
  <2>2. QED
    BY <2>1 DEF WInv, IdsInOrder, Ids, IInv, TypeOK, DataType
<1>3. IdsInOrder'
  BY <1>1 DEF IdsInOrder
<1>4. WireJoins'
  BY <1>1, <1>2 DEF WInv, WireJoins
<1>5. WireInOrder'
  BY <1>1 DEF WInv, WireInOrder, Follows
<1>6. QED
  BY <1>3, <1>4, <1>5 DEF WInv

(* The rest of the queue, once its head is released. *)
LEMMA TailInOrder ==
  ASSUME IInv, IdsInOrder, current # NoOp, q' = Tail(q), nops' = nops
  PROVE  /\ IdsInOrder'
         /\ current = q[1] /\ current.id \in 1..nops
         /\ Len(q') = Len(q) - 1
         /\ \A k \in 1..Len(q') : q'[k] = q[k + 1] /\ k + 1 \in 1..Len(q)
         /\ \A k \in 1..Len(q') : current.id < q'[k].id
<1>1. q \in Seq(OpType) /\ q # <<>> /\ current = q[1] /\ nops \in Nat
  BY DEF IInv, CurrentIsHead, TypeOK, DataType
<1>2. /\ Len(q) \in Nat \ {0} /\ Len(q') = Len(q) - 1
      /\ \A k \in 1..Len(q') : q'[k] = q[k + 1] /\ k + 1 \in 1..Len(q)
  BY <1>1, HeadTailProperties, EmptySeq
<1>3. \A k \in 1..Len(q') : q'[k].id \in 1..nops /\ current.id < q'[k].id
  BY <1>1, <1>2 DEF IdsInOrder
<1>4. \A i, j \in 1..Len(q') : i < j => q'[i].id < q'[j].id
  BY <1>2 DEF IdsInOrder
<1>5. QED
  BY <1>1, <1>2, <1>3, <1>4 DEF IdsInOrder

(* An operation without bytes leaves the queue. *)
LEMMA WireOpDone ==
  ASSUME IInv, WInv, current # NoOp, Bytes(current) = 0, op_done, wire' = wire, nops' = nops
  PROVE  WInv'
<1>1. offset = 0
  BY DEF IInv, OffsetInside, TypeOK, DataType
<1>2. q' = Tail(q) /\ offset' = 0 /\ done' = done /\ dropped' = dropped
  BY DEF op_done
<1>3. IdsInOrder' /\ \A k \in 1..Len(q') : q'[k] = q[k + 1] /\ k + 1 \in 1..Len(q)
  BY <1>2, TailInOrder DEF WInv
<1>4. WireJoins'
  BY <1>1, <1>2, <1>3 DEF WInv, WireJoins
<1>5. WireInOrder'
  BY <1>2 DEF WInv, WireInOrder, Follows
<1>6. QED
  BY <1>3, <1>4, <1>5 DEF WInv

(* update_write() continues where the wire stopped.                        *)
LEMMA WireWrite ==
  ASSUME IInv, WInv, current # NoOp, offset < Bytes(current),
         NEW rc \in Int, 0 <= rc, rc <= Bytes(current) - offset, update_write(rc), nops' = nops
  PROVE  WInv'
<1> DEFINE new == SentBytes(current, offset, rc)
           n == Len(wire)
<1>1. current \in OpType /\ Bytes(current) \in Nat /\ offset \in Nat /\ current.id \in Nat
  BY BytesInNat DEF IInv, TypeOK, DataType, OpType
<1>2. /\ wire' = wire \o new
      /\ IF rc = Bytes(current) - offset
         THEN op_done
         ELSE offset' = offset + rc /\ UNCHANGED <<q, current, dropped, done>>
  BY DEF update_write
<1>3. wire \in Seq(Sent) /\ n \in Nat
  BY LenProperties DEF IInv, TypeOK, DataType
<1>4. /\ new \in Seq(Sent) /\ Len(new) = rc
       /\ \A k \in 1..rc : /\ new[k].id = current.id
                           /\ new[k].pos = offset + k - 1
                           /\ new[k].last <=> offset + k = Bytes(current)
  <2>1. rc \in Nat
    OBVIOUS
  <2>2. QED
    BY <1>1, <2>1, WhatIsSent
<1> HIDE DEF new
<1>5. /\ wire \in Seq(Sent) /\ n \in Nat /\ wire' \in Seq(Sent) /\ Len(wire') = n + rc
      /\ \A k \in 1..n : wire'[k] = wire[k]
      /\ \A k \in 1..rc : wire'[n + k] = new[k]
  <2>1. /\ wire' \in Seq(Sent) /\ Len(wire') = n + rc
        /\ \A k \in 1..(n + rc) : wire'[k] = IF k <= n THEN wire[k] ELSE new[k - n]
    <3>1. wire' = wire \o new
      BY <1>2
    <3>2. new \in Seq(Sent) /\ Len(new) = rc
      BY <1>4
    <3>3. QED
      BY <1>3, <3>1, <3>2, ConcatProperties
  <2>2. \A k \in 1..n : k \in 1..(n + rc) /\ k <= n
    BY <1>3
  <2>3. \A k \in 1..rc : n + k \in 1..(n + rc) /\ ~(n + k <= n) /\ (n + k) - n = k
    BY <1>3
  <2>4. QED
    BY <1>3, <2>1, <2>2, <2>3
<1>6. \A k \in 1..rc : /\ wire'[n + k].id = current.id
                       /\ wire'[n + k].pos = offset + k - 1
                       /\ wire'[n + k].last <=> offset + k = Bytes(current)
  <2> SUFFICES ASSUME NEW k \in 1..rc
               PROVE  /\ wire'[n + k].id = current.id
                      /\ wire'[n + k].pos = offset + k - 1
                      /\ wire'[n + k].last <=> offset + k = Bytes(current)
    OBVIOUS
  <2>1. wire'[n + k] = new[k]
    BY <1>5
  <2>2. /\ new[k].id = current.id /\ new[k].pos = offset + k - 1
        /\ new[k].last <=> offset + k = Bytes(current)
    BY <1>4, Zenon
  <2> HIDE DEF n
  <2>3. QED
    BY <2>1, <2>2, Zenon
<1> HIDE DEF n
<1>7. dropped' = dropped /\ current = q[1] /\ 1 \in 1..Len(q) /\ current.id \in 1..nops
  <2>1. dropped' = dropped
    BY <1>2 DEF op_done
  <2>2. current = q[1] /\ 1 \in 1..Len(q)
    BY EmptySeq DEF IInv, CurrentIsHead, TypeOK, DataType
  <2>3. QED
    BY <2>1, <2>2 DEF WInv, IdsInOrder
<1>8. CASE rc = 0
  <2>1. wire' = wire
    <3>1. \A k \in 1..Len(wire) : wire'[k] = wire[k]
      BY <1>5 DEF n
    <3>2. Len(wire') = Len(wire)
      BY <1>5, <1>8 DEF n
    <3>3. QED
      BY <1>5, <3>1, <3>2, SeqEqual
  <2>2. offset' = offset /\ UNCHANGED <<q, current, dropped, done>>
    BY <1>1, <1>2, <1>8
  <2>3. QED
    BY <2>1, <2>2, WireKept
<1>9. CASE rc # 0
  <2>1. rc \in 1..rc /\ 1 \in 1..rc
    BY <1>9
  <2>2. /\ wire'[n + rc].id = current.id /\ wire'[n + rc].pos = offset + rc - 1
        /\ wire'[n + rc].last <=> offset + rc = Bytes(current)
    BY <1>6, <2>1
  <2>3. ASSUME NEW k \in 1..(n + rc - 1) PROVE Follows(wire'[k], wire'[k + 1])
    <3>1. CASE k < n
      <4>1. k \in 1..(n - 1) /\ wire'[k] = wire[k] /\ wire'[k + 1] = wire[k + 1]
        BY <1>5, <3>1
      <4>2. QED
        BY <4>1 DEF WInv, WireInOrder, Follows, n
    <3>2. CASE k = n
      <4>1. /\ wire'[k] = wire[n] /\ wire # <<>> /\ n # 0
            /\ wire'[k + 1].id = current.id /\ wire'[k + 1].pos = offset
        BY <1>5, <1>6, <1>1, <2>1, <3>2 DEF n
      <4>2. CASE offset # 0
        <5>1. wire[n].id = current.id /\ wire[n].pos = offset - 1 /\ ~wire[n].last
          BY <4>2 DEF WInv, WireJoins, n
        <5>2. wire'[k + 1].pos = wire'[k].pos + 1
          BY <1>1, <4>1, <5>1
        <5>3. QED
          BY <4>1, <5>1, <5>2 DEF Follows
      <4>3. CASE offset = 0
        <5>1. /\ wire[n].last \/ wire[n].id \in dropped
              /\ wire[n].id < current.id
          BY <1>7, <4>1, <4>3 DEF WInv, WireJoins, n
        <5>2. QED
          BY <4>1, <4>3, <5>1 DEF Follows
      <4>4. QED
        BY <4>2, <4>3
    <3>3. CASE k > n
      <4>1. /\ k - n \in 1..rc /\ k - n + 1 \in 1..rc
            /\ n + (k - n) = k /\ n + (k - n + 1) = k + 1
        BY <1>5, <3>3
      <4>2. /\ wire'[k].id = current.id /\ wire'[k + 1].id = current.id
            /\ wire'[k].pos = offset + (k - n) - 1
            /\ wire'[k + 1].pos = offset + (k - n + 1) - 1
            /\ wire'[k].last <=> offset + (k - n) = Bytes(current)
        BY <1>6, <4>1
      <4>3. wire'[k + 1].pos = wire'[k].pos + 1
        BY <1>1, <4>1, <4>2
      <4>4. offset + (k - n) # Bytes(current)
        BY <1>1, <1>3, <4>1
      <4>5. ~wire'[k].last
        BY <4>2, <4>4
      <4>6. QED
        BY <4>2, <4>3, <4>5 DEF Follows
    <3>4. QED
      BY <1>5, <3>1, <3>2, <3>3
  <2>4. wire'[1].pos = 0
    <3>1. CASE n = 0
      <4>1. wire = <<>> /\ offset = 0
        BY <1>5, <3>1 DEF WInv, WireJoins, n
      <4>2. wire'[n + 1].pos = offset + 1 - 1
        BY <1>6, <2>1
      <4>3. QED
        BY <3>1, <4>1, <4>2
    <3>2. CASE n # 0
      <4>1. wire # <<>> /\ wire'[1] = wire[1]
        BY <1>5, <3>2 DEF n
      <4>2. QED
        BY <4>1 DEF WInv, WireInOrder
    <3>3. QED
      BY <3>1, <3>2
  <2>5. \A m \in done : \E k \in 1..Len(wire') : wire'[k].id = m /\ wire'[k].last
    <3>1. 1..n \subseteq 1..Len(wire')
      BY <1>5
    <3>2. QED
      BY <1>5, <3>1 DEF WInv, WireInOrder, n
  <2>6. n + rc \in 1..Len(wire') /\ Len(wire') = n + rc /\ wire' # <<>>
    BY <1>5, <1>9
  <2>7. WireInOrder'
    <3>1. ASSUME NEW m \in done' PROVE \E k \in 1..Len(wire') : wire'[k].id = m /\ wire'[k].last
      <4>1. CASE m \in done
        BY <2>5, <4>1
      <4>2. CASE m \notin done
        <5>1. rc = Bytes(current) - offset /\ m = current.id
          BY <1>2, <4>2 DEF op_done
        <5>2. wire'[n + rc].last
          BY <1>1, <2>2, <5>1
        <5>3. QED
          BY <2>2, <2>6, <5>1, <5>2
      <4>3. QED
        BY <4>1, <4>2
    <3>2. \A k \in 1..(Len(wire') - 1) : (\/ wire'[k + 1].id = wire'[k].id
                                             /\ wire'[k + 1].pos = wire'[k].pos + 1
                                             /\ ~wire'[k].last
                                          \/ wire'[k + 1].id > wire'[k].id
                                             /\ wire'[k + 1].pos = 0
                                             /\ (wire'[k].last \/ wire'[k].id \in dropped'))
      <4>1. SUFFICES ASSUME NEW k \in 1..(Len(wire') - 1)
                     PROVE  Follows(wire'[k], wire'[k + 1])
        BY <1>7 DEF Follows
      <4>2. k \in 1..(n + rc - 1)
        BY <1>3, <2>6
      <4>3. QED
        BY <2>3, <4>2
    <3>3. QED
      BY <2>4, <3>1, <3>2 DEF WireInOrder, Follows
  <2>8. CASE rc = Bytes(current) - offset
    <3>1. op_done
      BY <1>2, <2>8
    <3>2. q' = Tail(q) /\ offset' = 0
      BY <3>1 DEF op_done
    <3>3. IdsInOrder' /\ \A k \in 1..Len(q') : current.id < q'[k].id
      BY <3>2, TailInOrder DEF WInv
    <3>4. wire'[n + rc].last /\ wire'[n + rc].id <= nops
      BY <1>1, <1>7, <2>2, <2>8 DEF IInv, TypeOK, DataType
    <3>5. WireJoins'
      BY <2>2, <2>6, <3>2, <3>3, <3>4 DEF WireJoins
    <3>6. QED
      BY <2>7, <3>3, <3>5 DEF WInv
  <2>9. CASE rc # Bytes(current) - offset
    <3>1. offset' = offset + rc /\ UNCHANGED <<q, current>>
      BY <1>2, <2>9
    <3>2. offset' # 0 /\ offset + rc # Bytes(current) /\ offset + rc - 1 = offset' - 1
      BY <1>1, <1>9, <2>9, <3>1
    <3>3. WireJoins'
      BY <2>2, <2>6, <3>1, <3>2 DEF WireJoins
    <3>4. IdsInOrder'
      BY <3>1 DEF WInv, IdsInOrder
    <3>5. QED
      BY <2>7, <3>3, <3>4 DEF WInv
  <2>10. QED
    BY <2>8, <2>9
<1>10. QED
  BY <1>8, <1>9

(* What is enqueued comes after everything on the wire.                    *)
LEMMA WireEnqueue ==
  ASSUME IInv, WInv, NEW ops \in Inputs, Enqueue(ops)
  PROVE  WInv'
<1> DEFINE item(k) == [id |-> nops + k, op |-> ops[k].op, size |-> ops[k].size]
           new == [k \in 1..Len(ops) |-> item(k)]
           n == Len(q)
<1>1. ops \in Seq([op : DataOps \cup OtherOps, size : Nat]) /\ Len(ops) \in Nat
  BY PortAssumption, LenProperties
<1>2. CASE Len(q) + Len(ops) > QCap
  BY <1>2, WireKept DEF Enqueue, Exit, opVars
<1>3. CASE ~(Len(q) + Len(ops) > QCap)
  <2>1. /\ q' = q \o new /\ nops' = nops + Len(ops)
        /\ UNCHANGED <<current, offset, dropped, done, wire>>
    BY <1>3 DEF Enqueue
  <2>2. q \in Seq(OpType) /\ n \in Nat /\ nops \in Nat
    BY LenProperties DEF IInv, TypeOK, DataType
  <2>3. new \in Seq(OpType) /\ Len(new) = Len(ops) /\ \A k \in 1..Len(ops) : new[k].id = nops + k
    <3>1. \A k \in 1..Len(ops) : ops[k] \in [op : DataOps \cup OtherOps, size : Nat]
      BY <1>1, ElementOfSeq
    <3>2. \A k \in 1..Len(ops) : item(k) \in OpType /\ item(k).id = nops + k
      BY <1>1, <2>2, <3>1 DEF OpType
    <3> HIDE DEF item
    <3>3. QED
      BY <1>1, <3>2, IsASeq
  <2> HIDE DEF new
  <2>4. /\ Len(q') = n + Len(ops)
        /\ \A k \in 1..(n + Len(ops)) : q'[k] = IF k <= n THEN q[k] ELSE new[k - n]
    <3>1. q' = q \o new
      BY <2>1
    <3>2. new \in Seq(OpType) /\ Len(new) = Len(ops)
      BY <2>3
    <3>3. /\ Len(q \o new) = Len(q) + Len(new)
          /\ \A k \in 1..(Len(q) + Len(new)) :
               (q \o new)[k] = IF k <= Len(q) THEN q[k] ELSE new[k - Len(q)]
      BY <2>2, <3>2, ConcatProperties
    <3>4. QED
      BY <3>1, <3>2, <3>3
  <2>5. \A k \in 1..(n + Len(ops)) : q'[k].id = IF k <= n THEN q[k].id ELSE nops + (k - n)
    <3>1. \A k \in 1..(n + Len(ops)) : ~(k <= n) => k - n \in 1..Len(ops)
      BY <1>1, <2>2
    <3>2. QED
      BY <2>3, <2>4, <3>1
  <2>6. \A k \in 1..n : q[k].id \in 1..nops
    BY DEF WInv, IdsInOrder
  <2> HIDE DEF n
  <2>7. IdsInOrder'
    <3>1. ASSUME NEW k \in 1..Len(q') PROVE q'[k].id \in 1..nops'
      <4>1. CASE k <= n
        <5>1. k \in 1..n /\ q'[k].id = q[k].id
          BY <2>2, <2>4, <2>5, <4>1
        <5>2. QED
          BY <1>1, <2>1, <2>2, <2>6, <5>1
      <4>2. CASE ~(k <= n)
        <5>1. PICK d \in 1..Len(ops) : q'[k].id = nops + d
          BY <1>1, <2>2, <2>4, <2>5, <4>2
        <5>2. QED
          BY <1>1, <2>1, <2>2, <5>1
      <4>3. QED
        BY <4>1, <4>2
    <3>2. ASSUME NEW i \in 1..Len(q'), NEW j \in 1..Len(q'), i < j
          PROVE  q'[i].id < q'[j].id
      <4>1. CASE j <= n
        <5>1. i \in 1..n /\ j \in 1..n
          BY <2>2, <2>4, <3>2, <4>1
        <5>2. QED
          BY <2>4, <2>5, <3>2, <5>1 DEF WInv, IdsInOrder, n
      <4>2. CASE ~(j <= n) /\ i <= n
        <5>1. i \in 1..n /\ q'[i].id = q[i].id /\ q'[j].id = nops + (j - n)
          BY <2>2, <2>4, <2>5, <4>2
        <5>2. QED
          BY <2>2, <2>4, <2>6, <4>2, <5>1
      <4>3. CASE ~(i <= n)
        BY <2>2, <2>4, <2>5, <3>2, <4>3
      <4>4. QED
        BY <4>1, <4>2, <4>3
    <3>3. QED
      BY <3>1, <3>2 DEF IdsInOrder
  <2>8. WireJoins'
    <3>1. ASSUME offset = 0, wire # <<>>
          PROVE  /\ wire[Len(wire)].last \/ wire[Len(wire)].id \in dropped
                 /\ wire[Len(wire)].id <= nops
                 /\ \A k \in 1..n : wire[Len(wire)].id < q[k].id
      BY <3>1 DEF WInv, WireJoins, n
    <3>2. wire # <<>> => wire[Len(wire)].id \in Nat
      <4>1. ASSUME wire # <<>> PROVE wire[Len(wire)] \in Sent
        BY <4>1, EmptySeq, ElementOfSeq DEF IInv, TypeOK, DataType
      <4>2. QED
        BY <4>1 DEF Sent
    <3>3. ASSUME offset = 0, wire # <<>>
          PROVE  /\ wire[Len(wire)].id <= nops'
                 /\ \A k \in 1..Len(q') : wire[Len(wire)].id < q'[k].id
      <4>1. wire[Len(wire)].id <= nops'
        BY <1>1, <2>1, <2>2, <3>1, <3>2, <3>3
      <4>2. ASSUME NEW k \in 1..Len(q') PROVE wire[Len(wire)].id < q'[k].id
        <5>1. CASE k <= n
          <6>1. k \in 1..n /\ q'[k].id = q[k].id
            BY <2>2, <2>4, <2>5, <5>1
          <6>2. QED
            BY <3>1, <3>3, <6>1
        <5>2. CASE ~(k <= n)
          <6>1. q'[k].id = nops + (k - n) /\ k - n \in 1..Len(ops)
            BY <1>1, <2>2, <2>4, <2>5, <5>2
          <6>2. QED
            BY <2>2, <3>1, <3>2, <3>3, <6>1
        <5>3. QED
          BY <5>1, <5>2
      <4>3. QED
        BY <4>1, <4>2
    <3>4. QED
      BY <2>1, <3>1, <3>3 DEF WInv, WireJoins
  <2>9. WireInOrder'
    BY <2>1 DEF WInv, WireInOrder, Follows
  <2>10. QED
    BY <2>7, <2>8, <2>9 DEF WInv
<1>4. QED
  BY <1>2, <1>3

(* Every step keeps the wire in order.                                     *)
LEMMA NextWInv == IInv /\ WInv /\ [Next]_vars => WInv'
<1> SUFFICES ASSUME IInv, WInv, [Next]_vars PROVE WInv'
  OBVIOUS
<1>1. ASSUME UNCHANGED <<opVars, wire, nops>> PROVE WInv'
  BY <1>1, WireKept DEF opVars
<1>2. CASE port_init \/ port_open \/ wait_start \/ on_dir_entry_change \/ permission_timeout
  BY <1>1, <1>2 DEF port_init, port_open, wait_start, on_dir_entry_change, permission_timeout, Exit
<1>3. CASE TimersDone \/ PollDone \/ Device \/ Stopped \/ UNCHANGED vars
  BY <1>1, <1>3 DEF TimersDone, PollDone, Device, Plug, Grant, Unplug, Touch, Change, Stopped,
                   vars, portVars
<1>4. CASE on_sleep_done
  <2>1. current.op = "SLEEP"
    BY <1>4 DEF on_sleep_done, Running, IInv, SleepIsCurrent
  <2>2. current # NoOp /\ Bytes(current) = 0
    BY <2>1 DEF NoOp, Bytes
  <2>3. op_done /\ wire' = wire /\ nops' = nops
    BY <1>4, <2>1 DEF on_sleep_done
  <2>4. QED
    BY <2>2, <2>3, WireOpDone
<1>5. CASE Prepare
  <2>1. wire' = wire /\ nops' = nops
    BY <1>5 DEF Prepare
  <2>2. CASE ~prepare
    BY <1>1, <1>5, <2>1, <2>2 DEF Prepare
  <2>3. CASE prepare
    <3>1. on_prepare /\ state = "READY"
      BY <1>5, <2>3 DEF Prepare, Running, IInv, Modes
    <3>2. UNCHANGED <<q, offset, dropped, done>> /\ (current # NoOp => current' = current)
      BY <3>1 DEF on_prepare, opVars
    <3>3. offset # 0 => current # NoOp
      BY BytesInNat DEF IInv, OffsetInside, TypeOK, DataType
    <3>4. QED
      BY <2>1, <3>2, <3>3, WireKept
  <2>4. QED
    BY <2>2, <2>3
<1>6. ASSUME Panic("ioerr"), nops' = nops PROVE WInv'
  <2>1. CASE Stay
    BY <1>6, <2>1, WireClose DEF Panic
  <2>2. CASE ~Stay
    BY <1>1, <1>6, <2>2 DEF Panic, Exit
  <2>3. QED
    BY <2>1, <2>2
<1>7. CASE poll_ebadf
  <2>1. CASE Stay
    BY <1>7, <2>1, WireClose DEF poll_ebadf
  <2>2. CASE ~Stay
    BY <1>1, <1>7, <2>2 DEF poll_ebadf
  <2>3. QED
    BY <2>1, <2>2
<1>8. CASE \E r, w, f \in BOOLEAN : poll_event(r, w, f)
  <2>1. nops' = nops /\ (Panic("ioerr") \/ UNCHANGED portVars)
    BY <1>8 DEF poll_event
  <2>2. QED
    BY <1>1, <1>6, <2>1 DEF portVars
<1>9. CASE on_writable
  <2>1. nops' = nops
    BY <1>9 DEF on_writable
  <2>2. CASE current = NoOp \/ current.op \in {"SLEEP", "EXIT"}
    BY <1>1, <1>9, <2>1, <2>2 DEF on_writable, portVars
  <2>3. CASE current # NoOp /\ current.op \notin {"SLEEP", "EXIT"} /\ Bytes(current) = 0
    BY <1>9, <2>1, <2>3, WireOpDone DEF on_writable
  <2>4. CASE current # NoOp /\ current.op \notin {"SLEEP", "EXIT"} /\ Bytes(current) # 0
    <3>1. Bytes(current) \in Nat /\ offset \in Nat /\ offset < Bytes(current)
      BY <2>4, BytesInNat DEF IInv, TypeOK, DataType, OffsetInside
    <3>2. PICK rc \in WriteResults : update_write(rc)
      BY <1>9, <2>4, <3>1 DEF on_writable
    <3>3. rc \in Int /\ (rc < 0 \/ (0 <= rc /\ rc <= Bytes(current) - offset))
      BY <3>1 DEF WriteResults
    <3>4. CASE rc < 0
      BY <1>6, <2>1, <3>2, <3>4 DEF update_write
    <3>5. CASE ~(rc < 0)
      BY <2>1, <2>4, <3>1, <3>2, <3>3, <3>5, WireWrite
    <3>6. QED
      BY <3>4, <3>5
  <2>5. QED
    BY <2>2, <2>3, <2>4
<1>10. CASE \E ops \in Inputs : Enqueue(ops)
  BY <1>10, WireEnqueue
<1>11. QED
  BY <1>2, <1>3, <1>4, <1>5, <1>7, <1>8, <1>9, <1>10 DEF Next, Loop, PortEvent

(* The device receives the bytes of the operations in order, none twice,   *)
(* none left out, over any number of partial writes, retries, closes and   *)
(* reopenings; an operation released as done was sent to its last byte.    *)
THEOREM WireAlwaysInOrder == Spec => []WireInOrder
<1>1. Spec => []WInv
  BY InitWInv, NextWInv, IInvAlways, PTL DEF Spec
<1>2. WInv => WireInOrder
  BY DEF WInv
<1>3. QED
  BY <1>1, <1>2, PTL
=============================================================================
