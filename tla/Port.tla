-------------------------------- MODULE Port --------------------------------
(***************************************************************************)
(* The serial port of port.c and its reconnection logic of port_wait.c,    *)
(* driven by the libuv event loop.  Each iteration of the loop runs the    *)
(* due timers, then the prepare callback, then delivers poll events: at    *)
(* most one for the port, and those of the directory watcher and of stdin. *)
(* A handler is one action; it is split only where the device, which the   *)
(* program does not control, may change between two of its system calls:   *)
(* between access() and sp_open(), between sp_close() and                  *)
(* uv_fs_event_start(), and between the read and the write of one event.   *)
(* The queue is the FIFO that Opq.tla implements.                          *)
(***************************************************************************)
EXTENDS Integers, Sequences

CONSTANTS Stay, Wait,      \* port_opts->stay, port_opts->wait
          CharDelay,       \* port_opts->chardelay is not 0
          EolLen,          \* eol_len: bytes OP_PORT_PUT_EOL writes
          QCap,            \* operations the queue holds (63)
          Inputs,          \* sequences of operations one stdin callback enqueues
          Transient,       \* calls on the port may fail while the device is there
          MaxOps, MaxPlug  \* bounds: operations enqueued, changes of the device

DataOps == {"WRITE", "PUTC", "PUT_EOL"}
OtherOps == {"CTRL", "SLEEP", "EXIT"}    \* CTRL: set RTS/CTS/DTR/DSR, drain, flush

ASSUME PortAssumption ==
  /\ Stay \in BOOLEAN /\ Wait \in BOOLEAN /\ (Stay => Wait)
  /\ CharDelay \in BOOLEAN /\ Transient \in BOOLEAN
  /\ EolLen \in Nat /\ QCap \in Nat /\ MaxOps \in Nat /\ MaxPlug \in Nat
  /\ Inputs \subseteq Seq([op : DataOps \cup OtherOps, size : Nat])

VARIABLES
  exit,      \* "no", or why the process has ended
  pc,        \* "init", "open", "wait": the rest of a handler is still to run; "loop"
  phase,     \* of the loop iteration: "timers", "prepare", "poll"
  polled,    \* the port's poll callback has run in this iteration
  evw,       \* that callback still has UV_WRITABLE to handle
  state,     \* port_data.state
  port,      \* port_data.port # NULL: the serial port is open
  q,         \* opq_rt
  current,   \* port_data.current_op
  offset,    \* port_data.offset
  prepare, t_sleep,       \* active: prepare_handle, t_sleep
  poll,                   \* poll_handle: "off", "r", "rw"
  fsev, perm,             \* active: fsevent_handle, _permission_timer
  fspend,    \* a directory event for the device is queued on the watch
  dev,       \* the device file: "absent", "denied" (no r/w access yet), "ok"
  hung,      \* the device behind the open descriptor is gone
  settings,  \* terminal settings of the device: its own ("org") or ours ("usr")
  saved,     \* port_data.org_config; "none": have_org_config is false
  unrestored,             \* history: settings of this device were not put back
  plugs, nops,            \* counters of device changes and of operations
  wire,      \* bytes the device has accepted
  dropped, done           \* operations released unfinished, data operations finished

loopVars == <<phase, polled, evw>>
opVars == <<q, current, offset, dropped, done>>
handles == <<prepare, t_sleep, poll>>
waitVars == <<fsev, perm, fspend>>
fileVars == <<dev, plugs>>
config == <<settings, saved, unrestored>>
(* What a handler of the open port may change. *)
portVars == <<exit, pc, state, port, opVars, wire, handles, hung, config>>
vars == <<portVars, loopVars, waitVars, fileVars, nops>>

NoOp == [id |-> 0, op |-> "NONE", size |-> 0]

Init ==
  /\ exit = "no" /\ pc = "init" /\ phase = "timers" /\ polled = FALSE /\ evw = FALSE
  /\ state = "UNKNOWN" /\ port = FALSE
  /\ q = <<>> /\ current = NoOp /\ offset = 0
  /\ prepare = FALSE /\ t_sleep = FALSE /\ poll = "off"
  /\ fsev = FALSE /\ perm = FALSE /\ fspend = FALSE
  /\ dev \in {"absent", "denied", "ok"} /\ hung = FALSE
  /\ settings = "org" /\ saved = "none" /\ unrestored = FALSE
  /\ plugs = 0 /\ nops = 0
  /\ wire = <<>> /\ dropped = {} /\ done = {}

-----------------------------------------------------------------------------
(* The device.                                                             *)

Change(d) ==
  /\ exit = "no" /\ plugs < MaxPlug
  /\ dev' = d
  /\ plugs' = plugs + 1
  /\ fspend' = (fspend \/ fsev)
  /\ UNCHANGED <<exit, pc, state, port, opVars, wire, handles, loopVars, fsev, perm, nops>>

Plug == /\ dev = "absent"
        /\ \E d \in {"denied", "ok"} : Change(d)
        /\ settings' = "org" /\ unrestored' = FALSE /\ UNCHANGED <<hung, saved>>
Grant == dev = "denied" /\ Change("ok") /\ UNCHANGED <<hung, config>>
Unplug == dev # "absent" /\ Change("absent") /\ hung' = port /\ UNCHANGED config

(* Any other change of the file is a directory event too: a port closed    *)
(* after an error may be opened again without having been unplugged.       *)
Touch == dev # "absent" /\ Change(dev) /\ UNCHANGED <<hung, config>>

-----------------------------------------------------------------------------
(* Helpers of the handlers.                                                *)

(* SPCOM_EXIT(): the state is left as it is. *)
Exit(why) == /\ exit' = why
             /\ UNCHANGED <<pc, state, port, opVars, wire, handles, hung, config>>

Running == exit = "no" /\ pc = "loop"
Callback == Running /\ phase = "poll" /\ ~evw   \* the loop may deliver a poll event

(* Bytes an operation puts on the wire. *)
Bytes(o) == IF o.op = "WRITE" THEN o.size
            ELSE IF o.op = "PUTC" THEN 1
            ELSE IF o.op = "PUT_EOL" THEN EolLen
            ELSE 0

Ids(s) == {s[k].id : k \in 1..Len(s)}

(* Regression: the next operation would start in its middle. *)
op_done_KeepOffset ==
  /\ q' = Tail(q) /\ current' = NoOp
  /\ done' = IF Bytes(current) > 0 THEN done \cup {current.id} ELSE done
  /\ UNCHANGED <<offset, dropped>>

(* Release the executed operation, the head of the queue. *)
op_done ==
  /\ q' = Tail(q)
  /\ offset' = 0
  /\ current' = NoOp
  /\ done' = IF Bytes(current) > 0 THEN done \cup {current.id} ELSE done
  /\ UNCHANGED dropped

CanFail == hung \/ Transient

(* The settings found when the port was opened are put back if the file is *)
(* there; sp_set_config() may fail, and always does on a hung up device.   *)
(* That is only logged, and the saved settings are given up.               *)
restore_config ==
  IF saved # "none" /\ dev # "absent"
  THEN /\ saved' = "none"
       /\ \/ ~hung /\ settings' = saved /\ UNCHANGED unrestored
          \/ CanFail /\ UNCHANGED settings /\ unrestored' = (unrestored \/ ~hung)
  ELSE UNCHANGED config

(* Regression: a timer of the closed port is left running. *)
close_KeepTimer ==
  /\ prepare' = FALSE /\ poll' = "off"
  /\ dropped' = dropped \cup Ids(q)
  /\ q' = <<>> /\ offset' = 0 /\ current' = NoOp
  /\ restore_config
  /\ port' = FALSE /\ hung' = FALSE
  /\ UNCHANGED <<done, t_sleep>>

(* Regression: queued operations survive, the executing one is forgotten. *)
close_KeepCurrent ==
  /\ t_sleep' = FALSE /\ prepare' = FALSE /\ poll' = "off"
  /\ dropped' = dropped \cup Ids(q)
  /\ q' = <<>>
  /\ restore_config
  /\ port' = FALSE /\ hung' = FALSE
  /\ UNCHANGED <<done, offset, current>>

(* port_close() of an open port. *)
port_close ==
  /\ t_sleep' = FALSE /\ prepare' = FALSE /\ poll' = "off"
  /\ dropped' = dropped \cup Ids(q)
  /\ q' = <<>> /\ offset' = 0 /\ current' = NoOp
  /\ restore_config
  /\ port' = FALSE /\ hung' = FALSE
  /\ UNCHANGED done

(* PORT_PANIC: with --stay close and wait for the device, otherwise exit.  *)
(* Only handlers of an open port panic.                                    *)
Panic(why) ==
  IF Stay
  THEN port_close /\ pc' = "wait" /\ UNCHANGED <<exit, state, wire>>
  ELSE Exit(why)

-----------------------------------------------------------------------------
(* Start-up, opening, waiting.                                             *)

(* port_init() up to the call of port_open() or _wait_start(). *)
port_init ==
  /\ exit = "no" /\ pc = "init"
  /\ IF dev = "absent" /\ ~Wait
     THEN Exit("usage")
     ELSE /\ pc' = IF dev # "absent" THEN "open" ELSE "wait"
          /\ UNCHANGED <<exit, state, port, opVars, wire, handles, hung, config>>
  /\ UNCHANGED <<loopVars, waitVars, fileVars, nops>>

(* Regression: the settings are saved after they have been changed. *)
configure_SaveLate == saved' = "usr" /\ settings' = "usr" /\ UNCHANGED unrestored

(* port_open() saves the settings it finds and makes its own. *)
configure == saved' = settings /\ settings' = "usr" /\ UNCHANGED unrestored

(* port_open(): sp_open() fails without the device or without r/w access,  *)
(* and assert_sp_ok() then ends the program.  A poll handle that is still  *)
(* active on a closed descriptor makes uv_poll_init() fail or corrupts the *)
(* loop: either way the process ends.                                      *)
port_open ==
  /\ exit = "no" /\ pc = "open"
  /\ \/ dev # "ok" /\ Exit("assert_open")
     \/ dev = "ok" /\ poll # "off" /\ Exit("uv")
     \/ /\ dev = "ok" /\ poll = "off"
        /\ pc' = "loop" /\ state' = "READY"
        /\ port' = TRUE /\ hung' = FALSE /\ configure
        /\ prepare' = TRUE /\ poll' = "rw"
        /\ UNCHANGED <<exit, opVars, wire, t_sleep>>
  /\ UNCHANGED <<loopVars, waitVars, fileVars, nops>>

(* _wait_start(): events from before the watch exists are not seen. *)
wait_start ==
  /\ exit = "no" /\ pc = "wait"
  /\ IF fsev
     THEN Exit("assert_watch") /\ UNCHANGED <<fsev, fspend>>
     ELSE /\ pc' = "loop" /\ state' = "WAITING"
          /\ fsev' = TRUE /\ fspend' = FALSE
          /\ UNCHANGED <<exit, port, opVars, wire, handles, hung, config>>
  /\ UNCHANGED <<perm, loopVars, fileVars, nops>>

(* Regression: the watch is stopped before access is checked. *)
on_dir_entry_change_StopFirst ==
  /\ Callback /\ fsev /\ fspend
  /\ fspend' = FALSE
  /\ fsev' = (dev = "absent")
  /\ perm' = (dev # "ok" /\ perm)
  /\ pc' = IF dev = "ok" THEN "open" ELSE pc
  /\ UNCHANGED <<exit, state, port, opVars, wire, handles, hung, config>>
  /\ UNCHANGED <<loopVars, fileVars, nops>>

(* Regression: the watch is stopped and the port is never opened. *)
on_dir_entry_change_NoOpen ==
  /\ Callback /\ fsev /\ fspend
  /\ fspend' = FALSE
  /\ fsev' = (dev # "ok")
  /\ perm' = (dev = "denied" \/ (dev = "absent" /\ perm))
  /\ UNCHANGED <<portVars, loopVars, fileVars, nops>>

(* Regression: the permission timer outlives the wait. *)
on_dir_entry_change_KeepTimer ==
  /\ Callback /\ fsev /\ fspend
  /\ fspend' = FALSE
  /\ fsev' = (dev # "ok")
  /\ perm' = (perm \/ dev # "absent")
  /\ pc' = IF dev = "ok" THEN "open" ELSE pc
  /\ UNCHANGED <<exit, state, port, opVars, wire, handles, hung, config>>
  /\ UNCHANGED <<loopVars, fileVars, nops>>

(* Regression: the timer is started only once the device is accessible. *)
on_dir_entry_change_NoTimer ==
  /\ Callback /\ fsev /\ fspend
  /\ fspend' = FALSE
  /\ fsev' = (dev # "ok")
  /\ perm' = FALSE
  /\ pc' = IF dev = "ok" THEN "open" ELSE pc
  /\ UNCHANGED <<exit, state, port, opVars, wire, handles, hung, config>>
  /\ UNCHANGED <<loopVars, fileVars, nops>>

(* _on_dir_entry_change() up to the call of port_open(): the permission    *)
(* timer runs from the first sight of the device until it is accessible.   *)
on_dir_entry_change ==
  /\ Callback /\ fsev /\ fspend
  /\ fspend' = FALSE
  /\ fsev' = (dev # "ok")
  /\ perm' = (dev = "denied" \/ (dev = "absent" /\ perm))
  /\ pc' = IF dev = "ok" THEN "open" ELSE pc
  /\ UNCHANGED <<exit, state, port, opVars, wire, handles, hung, config>>
  /\ UNCHANGED <<loopVars, fileVars, nops>>

-----------------------------------------------------------------------------
(* The loop: timers.                                                       *)

permission_timeout ==
  /\ Running /\ phase = "timers" /\ perm
  /\ Exit("noperm")
  /\ UNCHANGED <<loopVars, waitVars, fileVars, nops>>

on_sleep_done ==
  /\ Running /\ phase = "timers" /\ t_sleep
  /\ IF current.op # "SLEEP"
     THEN Exit("assert_sleep")
     ELSE /\ t_sleep' = FALSE
          /\ op_done
          /\ UNCHANGED <<exit, pc, state, port, wire, prepare, poll, hung, config>>
  /\ UNCHANGED <<loopVars, waitVars, fileVars, nops>>

TimersDone ==
  /\ Running /\ phase = "timers"
  /\ phase' = "prepare"
  /\ UNCHANGED <<portVars, polled, evw, waitVars, fileVars, nops>>

-----------------------------------------------------------------------------
(* The loop: prepare.                                                      *)

(* Regression: writable events are not asked for. *)
on_prepare_NoTxStart ==
  /\ current' = IF current = NoOp /\ q # <<>> THEN q[1] ELSE current
  /\ poll' = IF current = NoOp /\ q = <<>> THEN "r" ELSE poll
  /\ t_sleep' = (t_sleep \/ (current = NoOp /\ current'.op = "SLEEP"))
  /\ exit' = IF current'.op = "EXIT" THEN "op_exit" ELSE exit
  /\ UNCHANGED <<q, offset, dropped, done>>

(* Regression: a new operation is loaded while one is executing. *)
on_prepare_Reload ==
  /\ current' = IF q # <<>> THEN q[Len(q)] ELSE NoOp
  /\ poll' = IF q = <<>> THEN "r" ELSE "rw"
  /\ t_sleep' = (t_sleep \/ current'.op = "SLEEP")
  /\ exit' = IF current'.op = "EXIT" THEN "op_exit" ELSE exit
  /\ UNCHANGED <<q, offset, dropped, done>>

(* _on_prepare(): load the operation at the head of the queue. *)
on_prepare ==
  IF current # NoOp THEN UNCHANGED <<exit, opVars, t_sleep, poll>>
  ELSE IF q = <<>> THEN poll' = "r" /\ UNCHANGED <<exit, opVars, t_sleep>>
  ELSE IF q[1].op # "EXIT" /\ state # "READY" THEN
       /\ q' = Tail(q) /\ offset' = 0 /\ dropped' = dropped \cup {q[1].id}
       /\ UNCHANGED <<exit, current, done, t_sleep, poll>>
  ELSE /\ current' = q[1]
       /\ exit' = IF q[1].op = "EXIT" THEN "op_exit" ELSE exit
       /\ t_sleep' = (t_sleep \/ q[1].op = "SLEEP")
       /\ poll' = IF q[1].op \in {"EXIT", "SLEEP"} THEN poll ELSE "rw"
       /\ UNCHANGED <<q, offset, dropped, done>>

(* The prepare phase, and the start of the poll: epoll_ctl() on a closed   *)
(* descriptor aborts the process.                                          *)
Prepare ==
  /\ Running /\ phase = "prepare"
  /\ phase' = "poll" /\ polled' = FALSE
  /\ IF prepare
     THEN on_prepare
     ELSE /\ exit' = IF poll # "off" /\ ~port THEN "uv" ELSE exit
          /\ UNCHANGED <<opVars, t_sleep, poll>>
  /\ UNCHANGED <<pc, state, port, wire, prepare, hung, config, evw, waitVars, fileVars, nops>>

-----------------------------------------------------------------------------
(* The loop: poll events of the port.                                      *)

(* The descriptor is hung up: libuv stops the handle and reports UV_EBADF. *)
poll_ebadf ==
  /\ Callback /\ ~polled /\ port /\ poll # "off" /\ hung
  /\ polled' = TRUE
  /\ IF Stay
     THEN port_close /\ pc' = "wait" /\ UNCHANGED <<exit, state, wire>>
     ELSE /\ poll' = "off" /\ exit' = "osfile"
          /\ UNCHANGED <<pc, state, port, opVars, wire, prepare, t_sleep, hung, config>>
  /\ UNCHANGED <<phase, evw, waitVars, fileVars, nops>>

(* A poll event; with UV_READABLE, _on_readable() runs first.  What it     *)
(* reads goes to the output formatter and changes nothing here.            *)
poll_event(readable, writable, fails) ==
  /\ Callback /\ ~polled /\ port /\ poll # "off"
  /\ readable \/ writable
  /\ writable => poll = "rw"
  /\ fails => readable /\ CanFail
  /\ polled' = TRUE
  /\ IF fails THEN Panic("ioerr") ELSE UNCHANGED portVars
  /\ evw' = (writable /\ exit' = "no")
  /\ UNCHANGED <<phase, waitVars, fileVars, nops>>

(* The rc bytes of operation o that follow its first off bytes.            *)
SentBytes(o, off, rc) ==
  [k \in 1..rc |-> [id |-> o.id, pos |-> off + k - 1, last |-> off + k = Bytes(o)]]

(* Regression: a partial write counts as a complete one. *)
update_write_Partial(rc) ==
  IF rc < 0 THEN Panic("ioerr")
  ELSE /\ wire' = wire \o SentBytes(current, offset, rc)
       /\ IF rc > 0 THEN op_done ELSE UNCHANGED opVars
       /\ UNCHANGED <<exit, pc, state, port, handles, hung, config>>

(* Regression: a failed write is taken for a short one. *)
update_write_IgnoreError(rc) ==
  /\ wire' = wire \o SentBytes(current, offset, rc)
  /\ IF rc = Bytes(current) - offset
     THEN op_done
     ELSE offset' = offset + rc /\ UNCHANGED <<q, current, dropped, done>>
  /\ UNCHANGED <<exit, pc, state, port, handles, hung, config>>

(* update_write(): rc < 0 is an error, 0 is EAGAIN or a character delay    *)
(* that has not elapsed, otherwise rc bytes have been accepted.            *)
update_write(rc) ==
  IF rc < 0 THEN Panic("ioerr")
  ELSE /\ wire' = wire \o SentBytes(current, offset, rc)
       /\ IF rc = Bytes(current) - offset
          THEN op_done
          ELSE offset' = offset + rc /\ UNCHANGED <<q, current, dropped, done>>
       /\ UNCHANGED <<exit, pc, state, port, handles, hung, config>>

(* What sp_nonblocking_write() may return for the current operation. *)
WriteResults ==
  LET remains == Bytes(current) - offset
      most == IF CharDelay /\ remains > 1 THEN 1 ELSE remains
  IN (IF CanFail THEN {-1} ELSE {}) \cup {0} \cup (IF hung THEN {} ELSE 1..most)

(* _on_writable(): run one step of the current operation. *)
on_writable ==
  /\ Running /\ phase = "poll" /\ evw
  /\ evw' = FALSE
  /\ IF current = NoOp THEN
          /\ poll' = "r"
          /\ UNCHANGED <<exit, pc, state, port, opVars, wire, prepare, t_sleep, hung, config>>
     ELSE IF current.op \in {"SLEEP", "EXIT"} THEN UNCHANGED portVars
     ELSE IF Bytes(current) = 0 THEN
          op_done /\ UNCHANGED <<exit, pc, state, port, wire, handles, hung, config>>
     ELSE IF offset >= Bytes(current) THEN Exit("assert_offset")
     ELSE \E rc \in WriteResults : update_write(rc)
  /\ UNCHANGED <<phase, polled, waitVars, fileVars, nops>>

(* The next iteration. *)
PollDone ==
  /\ Callback
  /\ phase' = "timers"
  /\ UNCHANGED <<portVars, polled, evw, waitVars, fileVars, nops>>

-----------------------------------------------------------------------------
(* A callback for stdin enqueues operations (raw: a character; cooked: a   *)
(* line and its end).  A full queue fails an assertion in opq.c.           *)
Enqueue(ops) ==
  /\ Callback
  /\ nops + Len(ops) <= MaxOps
  /\ IF Len(q) + Len(ops) > QCap
     THEN Exit("assert_full") /\ UNCHANGED nops
     ELSE /\ q' = q \o [k \in 1..Len(ops) |->
                          [id |-> nops + k, op |-> ops[k].op, size |-> ops[k].size]]
          /\ nops' = nops + Len(ops)
          /\ UNCHANGED <<exit, pc, state, port, current, offset, dropped, done, wire, handles,
                         hung, config>>
  /\ UNCHANGED <<loopVars, waitVars, fileVars>>

(* The process has ended. *)
Stopped == exit # "no" /\ UNCHANGED vars

PortEvent == \/ poll_ebadf
             \/ \E r, w, f \in BOOLEAN : poll_event(r, w, f)
             \/ on_writable

Loop == \/ port_init \/ port_open \/ wait_start \/ on_dir_entry_change
        \/ permission_timeout \/ on_sleep_done \/ TimersDone
        \/ Prepare \/ PortEvent \/ PollDone

Device == Plug \/ Grant \/ Unplug \/ Touch

Next == Loop \/ Device \/ (\E ops \in Inputs : Enqueue(ops)) \/ Stopped

Spec == Init /\ [][Next]_vars

-----------------------------------------------------------------------------
OpType == [id : Nat, op : DataOps \cup OtherOps, size : Nat]
Sent == [id : Nat, pos : Nat, last : BOOLEAN]

ControlType ==
  /\ exit \in {"no", "usage", "noperm", "op_exit", "osfile", "ioerr", "uv", "assert_open",
               "assert_watch", "assert_sleep", "assert_offset", "assert_full",
               "stdin_closed", "assert_size"}    \* the last two: the reader of stdin
  /\ pc \in {"init", "open", "wait", "loop"} /\ phase \in {"timers", "prepare", "poll"}
  /\ polled \in BOOLEAN /\ evw \in BOOLEAN
  /\ state \in {"UNKNOWN", "WAITING", "READY"} /\ port \in BOOLEAN
  /\ prepare \in BOOLEAN /\ t_sleep \in BOOLEAN /\ poll \in {"off", "r", "rw"}
  /\ fsev \in BOOLEAN /\ perm \in BOOLEAN /\ fspend \in BOOLEAN
  /\ dev \in {"absent", "denied", "ok"} /\ hung \in BOOLEAN
  /\ settings \in {"org", "usr"} /\ saved \in {"none", "org", "usr"} /\ unrestored \in BOOLEAN

DataType ==
  /\ q \in Seq(OpType) /\ current \in OpType \cup {NoOp} /\ offset \in Nat
  /\ wire \in Seq(Sent) /\ dropped \in SUBSET Nat /\ done \in SUBSET Nat
  /\ plugs \in Nat /\ nops \in Nat

TypeOK == ControlType /\ DataType

(* Between callbacks the program is in exactly one of two modes: the port  *)
(* is open with its callbacks running, or the directory is being watched.  *)
(* In any other mixture it would hang for ever, or handle the events of a  *)
(* closed port.                                                            *)
OpenXorWatching ==
  Running => \/ state = "READY" /\ port /\ prepare /\ poll # "off" /\ ~fsev
             \/ state = "WAITING" /\ ~port /\ ~prepare /\ fsev

(* The operation being executed is the head of the queue, as op_done() and *)
(* opq_release_head() assert, and it never outlives the open port.         *)
CurrentIsHead ==
  current # NoOp => port /\ q # <<>> /\ current = q[1]

(* The sleep timer runs for the current operation and for no other: a      *)
(* close in the middle of a sleep leaves no timer to fire on a later one.  *)
SleepIsCurrent == exit = "no" => (t_sleep <=> current.op = "SLEEP")

(* A write is resumed where it stopped, never past its end, and an offset  *)
(* is never left over for another operation.                               *)
OffsetInside == offset # 0 => offset < Bytes(current)

(* The permission timer runs only while the directory is watched. *)
PermissionOnlyWatching == Running /\ perm => fsev

(* The assertions in _on_sleep_done(), update_write() and, on the second   *)
(* wait, after uv_fs_event_start() never fail.                             *)
AssertionsHold == exit \notin {"assert_watch", "assert_sleep", "assert_offset"}

(* The own settings of a device that is there are never lost: while the    *)
(* port is open they are the saved ones, and at any other time, over every *)
(* close, unplugging, replacement and reopening, the device has them.      *)
(* Only a sp_set_config() that failed in a close can have lost them.       *)
SettingsRestored ==
  exit = "no" /\ dev # "absent" /\ ~unrestored =>
    IF port /\ ~hung THEN saved = "org" ELSE settings = "org"

(* What port_open() saves as the defaults are the settings the device came *)
(* with.  Not so when an earlier close failed to put them back: the ones   *)
(* spcom had made are saved then, and the device's own are lost for good.  *)
SavesTheDefaults == port /\ ~hung => saved = "org"

(* The bytes on the wire are those of the operations in the order they     *)
(* were enqueued, each from its first byte on without gap or repetition;   *)
(* an operation is cut short only by a close, and none is released as done *)
(* without its last byte.                                                  *)
Follows(a, b) ==
  \/ b.id = a.id /\ b.pos = a.pos + 1 /\ ~a.last
  \/ b.id > a.id /\ b.pos = 0 /\ (a.last \/ a.id \in dropped)

WireInOrder ==
  /\ wire # <<>> => wire[1].pos = 0
  /\ \A k \in 1..(Len(wire) - 1) : Follows(wire[k], wire[k + 1])
  /\ \A n \in done : \E k \in 1..Len(wire) : wire[k].id = n /\ wire[k].last

-----------------------------------------------------------------------------
(* Fairness: the loop keeps running; epoll reports a ready descriptor in   *)
(* every iteration until it is served; a started timer expires; a device   *)
(* that stays connected eventually accepts a byte.                         *)
Fairness ==
  /\ WF_vars(Loop)
  /\ SF_vars(\E r \in BOOLEAN : poll_event(r, TRUE, FALSE))
  /\ SF_vars(on_writable /\ wire' # wire)
  /\ SF_vars(poll_ebadf) /\ SF_vars(on_dir_entry_change)
  /\ SF_vars(on_sleep_done) /\ SF_vars(permission_timeout)

FairSpec == Spec /\ Fairness

(* Whatever is queued while the port is open gets executed, unless the     *)
(* port is closed or the program ends: no operation blocks the queue.      *)
QueueDrains ==
  \A n \in 1..MaxOps : (port /\ n \in Ids(q)) ~> (n \notin Ids(q) \/ exit # "no")

(* A device that comes (back) with r/w access while the directory is being *)
(* watched is opened, unless it goes away again.                           *)
ReopensOnEvent ==
  (fsev /\ fspend /\ dev = "ok") ~> (port \/ dev # "ok" \/ exit # "no")

(* The wait for r/w access to a device that has been seen is no false      *)
(* infinite one: access is granted, the device goes, or the program ends.  *)
PermissionWaitEnds ==
  (fsev /\ fspend /\ dev = "denied") ~> (dev # "denied" \/ exit # "no")

(* --wait: a device that is there and stays there gets opened.             *)
DeviceGetsOpened == <>[](dev = "ok") => <>(port \/ exit # "no")

(* --stay: an error of the port does not end the program in libuv. *)
StaySurvivesErrors == Stay => exit # "uv"

(* --stay: a device that disappears does not end the program, not even one *)
(* to which r/w access had not been granted yet.                           *)
StayOutlivesDevice == Stay /\ dev = "absent" => exit # "noperm"
=============================================================================
