-------------------------------- MODULE Exit --------------------------------
(***************************************************************************)
(* Start and end of the program: main.c, log.c, write_all_or_die() and the *)
(* init and cleanup functions of the other modules.  spcom_exit() does not *)
(* return, but what it calls may fail and call it again, on top of the     *)
(* same stack: then everything starts over.  Signals arrive between any    *)
(* two steps, and the terminal may hang up.                                *)
(***************************************************************************)
EXTENDS Integers

CONSTANTS Sigs,        \* SIGINT, SIGTERM
          Logfiles,    \* what --logfile may be: "none", "opens", "denied"
          MaxDepth,    \* nested calls of spcom_exit() the stack has room for
          MaxFails     \* bound: writes to stdout and stderr that fail

ASSUME ExitAssumption ==
  /\ Logfiles \subseteq {"none", "opens", "denied"}
  /\ MaxDepth \in Nat \ {0} /\ MaxFails \in Nat

VARIABLES
  opts,       \* tty: stdin is a terminal; cooked, silent, logfile: options
  at,         \* the step that comes next
  ended,      \* "no", or how the process has ended
  code,       \* exit_code of the innermost spcom_exit()
  depth,      \* calls of spcom_exit() on the stack
  fails,      \* writes that have failed
  handler,    \* a signal is "default" (it kills) or "caught" by libuv
  sent, pending,          \* signals sent so far, caught and not yet delivered
  uv,         \* handles of the loop: "none", "open", "closing"
  hungup,     \* the terminal is gone
  term,       \* its settings: "org", "raw", "rl" (readline's)
  attr,       \* shell_data.have_term_attr
  mode,       \* shell_data.mode: "none", "raw", "cooked"
  minit,      \* initialized, of sh_raw_data or sh_cooked_data
  dev,        \* settings of the device: "org", or ours while the port is open
  loginit,    \* log_data.initialized
  opens       \* times the log file has been opened, and so truncated

termVars == <<term, attr, mode, minit>>
signalVars == <<handler, sent, pending>>
logVars == <<loginit, opens>>
exitVars == <<at, ended, code, depth>>
vars == <<opts, exitVars, fails, signalVars, uv, hungup, termVars, dev, logVars>>

Init ==
  /\ opts \in [tty : BOOLEAN, cooked : BOOLEAN, silent : BOOLEAN, logfile : Logfiles]
  /\ at = "log_init" /\ ended = "no" /\ code = "EX_OK" /\ depth = 0 /\ fails = 0
  /\ handler = [s \in Sigs |-> "default"] /\ sent = {} /\ pending = {}
  /\ uv = "none" /\ hungup = FALSE
  /\ term = "org" /\ attr = FALSE /\ mode = "none" /\ minit = FALSE
  /\ dev = "org" /\ loginit = FALSE /\ opens = 0

-----------------------------------------------------------------------------
(* Steps of the program.                                                   *)

Step(here) == ended = "no" /\ at = here

Goto(there) == at' = there /\ UNCHANGED <<ended, code, depth>>

(* A call of spcom_exit(): its first step is outfmt_endline(). *)
SPCOM_EXIT(c) ==
  /\ depth' = depth + 1
  /\ ended' = IF depth' = MaxDepth THEN "overflow" ELSE ended
  /\ code' = c
  /\ at' = "endline"

(* write_all_or_die(): what follows, or an assertion.  Interrupted and     *)
(* partial writes are continued.                                           *)
write_all_or_die(there) ==
  \/ Goto(there) /\ UNCHANGED fails
  \/ fails < MaxFails /\ fails' = fails + 1 /\ SPCOM_EXIT("EX_SOFTWARE")

log_cleanup == loginit' = FALSE /\ UNCHANGED opens

(* log_init(); it reports its own error through the log.                   *)
log_init(there) ==
  IF loginit THEN Goto(there) /\ UNCHANGED logVars
  ELSE IF opts.logfile = "denied" THEN SPCOM_EXIT("EX_NOPERM") /\ UNCHANGED logVars
  ELSE /\ Goto(there)
       /\ loginit' = TRUE
       /\ opens' = IF opts.logfile = "opens" THEN opens + 1 ELSE opens

(* log_vprintf(): a message that is not for debugging goes to stderr too. *)
log_vprintf(level, there) ==
  IF opts.silent \/ level = "DBG" \/ (~loginit /\ opts.logfile = "denied")
  THEN log_init(there) /\ UNCHANGED fails
  ELSE /\ write_all_or_die(there)
       /\ loginit' = TRUE
       /\ opens' = IF ~loginit /\ opts.logfile = "opens" THEN opens + 1 ELSE opens

-----------------------------------------------------------------------------
(* The environment.                                                        *)

(* A signal that was sent before may find that its handler is gone. *)
Signal(s) ==
  /\ ended = "no"
  /\ sent' = sent \cup {s}
  /\ IF handler[s] = "caught" THEN pending' = pending \cup {s} /\ UNCHANGED ended
     ELSE /\ ended' = IF s \in sent THEN "killed_again" ELSE "killed"
          /\ UNCHANGED pending
  /\ UNCHANGED <<opts, at, code, depth, fails, handler, uv, hungup, termVars, dev, logVars>>

Hangup ==
  /\ ended = "no" /\ opts.tty /\ ~hungup
  /\ hungup' = TRUE
  /\ UNCHANGED <<opts, exitVars, fails, signalVars, uv, termVars, dev, logVars>>

-----------------------------------------------------------------------------
(* Start: main(), main_init().                                             *)

main_log_init ==
  /\ Step("log_init") /\ log_init("early_exit")
  /\ UNCHANGED <<opts, fails, signalVars, uv, hungup, termVars, dev>>

(* --help, --version and --list end the program here. *)
main_do_early_exit_opts ==
  /\ Step("early_exit")
  /\ \/ Goto("signals") /\ UNCHANGED logVars
     \/ log_cleanup /\ ended' = "exit" /\ UNCHANGED <<at, code, depth>>
  /\ UNCHANGED <<opts, fails, signalVars, uv, hungup, termVars, dev>>

(* Regression: signals are left alone until the loop is about to run. *)
init_signals_Late ==
  /\ Step("signals")
  /\ uv' = "open"
  /\ Goto(IF opts.tty THEN "shell" ELSE "port")
  /\ UNCHANGED <<opts, fails, signalVars, hungup, termVars, dev, logVars>>

init_signals ==
  /\ Step("signals")
  /\ handler' = [s \in Sigs |-> "caught"] /\ uv' = "open"
  /\ Goto(IF opts.tty THEN "shell" ELSE "port")
  /\ UNCHANGED <<opts, fails, sent, pending, hungup, termVars, dev, logVars>>

(* shell_init() up to the init of the mode; tcgetattr() may fail.          *)
shell_init ==
  /\ Step("shell")
  /\ IF hungup
     THEN /\ log_vprintf("ERR", "init_failed")
          /\ UNCHANGED <<attr, mode>>
     ELSE /\ Goto("mode")
          /\ attr' = TRUE /\ mode' = IF opts.cooked THEN "cooked" ELSE "raw"
          /\ UNCHANGED <<fails, logVars>>
  /\ UNCHANGED <<opts, signalVars, uv, hungup, term, minit, dev>>

(* assert_z(err, "shell_init"), and other failures before the loop runs. *)
init_failed ==
  /\ Step("init_failed")
  /\ SPCOM_EXIT("EX_SOFTWARE")
  /\ UNCHANGED <<opts, fails, signalVars, uv, hungup, termVars, dev, logVars>>

(* sh_raw_init(): without the terminal uv_tty_init() fails an assertion, or *)
(* uv_tty_set_mode() logs its error before initialized is set.             *)
sh_raw_init ==
  /\ Step("mode") /\ mode = "raw"
  /\ \/ ~hungup /\ Goto("port") /\ term' = "raw" /\ UNCHANGED <<fails, logVars>>
     \/ hungup /\ log_vprintf("ERR", "port") /\ UNCHANGED term
     \/ hungup /\ SPCOM_EXIT("EX_OSFILE") /\ UNCHANGED <<term, fails, logVars>>
  /\ minit' = (minit \/ at' = "port")
  /\ UNCHANGED <<opts, signalVars, uv, hungup, attr, mode, dev>>

(* sh_cooked_init(). *)
sh_cooked_init ==
  /\ Step("mode") /\ mode = "cooked"
  /\ term' = IF hungup THEN term ELSE "rl"
  /\ minit' = TRUE
  /\ Goto("port")
  /\ UNCHANGED <<opts, fails, signalVars, uv, hungup, attr, mode, dev, logVars>>

(* port_init(): the port is opened, or waited for, or is not there, or      *)
(* port_open() fails before or after the settings of the device are changed. *)
port_init ==
  /\ Step("port")
  /\ \/ dev' \in {"org", "usr"} /\ Goto("loop")
     \/ SPCOM_EXIT("EX_USAGE") /\ UNCHANGED dev
     \/ SPCOM_EXIT("EX_OSFILE") /\ dev' \in {"org", "usr"}
  /\ UNCHANGED <<opts, fails, signalVars, uv, hungup, termVars, logVars>>

-----------------------------------------------------------------------------
(* The loop.  "stopped": uv_stop() has been called, callbacks of this      *)
(* iteration may still run.                                                *)

InLoop == Step("loop") \/ Step("stopped")

(* --stay: port_close() and, later, port_open(). *)
reconnect ==
  /\ InLoop
  /\ dev' \in {"org", "usr"} /\ dev' # dev
  /\ UNCHANGED <<opts, exitVars, fails, signalVars, uv, hungup, termVars, logVars>>

(* An exit key, the timeout, PORT_PANIC, a failed assertion; or a write to *)
(* stdout or stderr that fails.                                            *)
callback_exits ==
  /\ InLoop
  /\ \/ \E c \in {"EX_OK", "EX_TEMPFAIL", "EX_IOERR", "EX_SOFTWARE"} : SPCOM_EXIT(c) /\ UNCHANGED fails
     \/ write_all_or_die(at) /\ fails' # fails
  /\ UNCHANGED <<opts, signalVars, uv, hungup, termVars, dev, logVars>>

(* _uvcb_on_signal(): libuv restores the default action of the signal. *)
on_signal(s) ==
  /\ InLoop /\ s \in pending
  /\ pending' = pending \ {s}
  /\ handler' = [handler EXCEPT ![s] = "default"]
  /\ Goto("stopped")
  /\ UNCHANGED <<opts, fails, sent, uv, hungup, termVars, dev, logVars>>

uv_run_returns ==
  /\ Step("stopped")
  /\ SPCOM_EXIT("EX_OK")
  /\ UNCHANGED <<opts, fails, signalVars, uv, hungup, termVars, dev, logVars>>

-----------------------------------------------------------------------------
(* The end: spcom_exit(), main_cleanup().                                  *)

spcom_exit_endline ==
  /\ Step("endline") /\ write_all_or_die("message")
  /\ UNCHANGED <<opts, signalVars, uv, hungup, termVars, dev, logVars>>

spcom_exit_message ==
  /\ Step("message")
  /\ log_vprintf(IF code = "EX_OK" THEN "DBG" ELSE "ERR", "cleanup")
  /\ UNCHANGED <<opts, signalVars, uv, hungup, termVars, dev>>

(* LOG_DBG(), cleanup_done, which is not set yet, and timeout_stop(). *)
main_cleanup ==
  /\ Step("cleanup") /\ log_vprintf("DBG", "shell_cleanup")
  /\ UNCHANGED <<opts, signalVars, uv, hungup, termVars, dev>>

(* sh_raw_exit(): with a terminal that hung up, each call logs its error. *)
sh_raw_exit ==
  IF hungup
  THEN log_vprintf("ERR", "restore") /\ UNCHANGED term
  ELSE term' = "org" /\ Goto("restore") /\ UNCHANGED <<fails, logVars>>

(* sh_cooked_exit(). *)
sh_cooked_exit ==
  /\ term' = IF hungup THEN term ELSE "org"
  /\ Goto("restore")
  /\ UNCHANGED <<fails, logVars>>

(* Regression: the mode is forgotten but stays initialized. *)
shell_cleanup_mode_KeepInit ==
  /\ Step("shell_cleanup")
  /\ IF mode = "none" \/ ~minit THEN Goto("restore") /\ UNCHANGED <<term, fails, logVars>>
     ELSE IF mode = "raw" THEN sh_raw_exit ELSE sh_cooked_exit
  /\ mode' = IF at' = "restore" THEN "none" ELSE mode
  /\ UNCHANGED <<opts, signalVars, uv, hungup, attr, minit, dev>>

(* shell_cleanup(): the mode's own cleanup; it is forgotten only when done. *)
shell_cleanup_mode ==
  /\ Step("shell_cleanup")
  /\ IF mode = "none" \/ ~minit THEN Goto("restore") /\ UNCHANGED <<term, fails, logVars>>
     ELSE IF mode = "raw" THEN sh_raw_exit ELSE sh_cooked_exit
  /\ mode' = IF at' = "restore" THEN "none" ELSE mode
  /\ minit' = (minit /\ at' # "restore")
  /\ UNCHANGED <<opts, signalVars, uv, hungup, attr, dev>>

(* Regression: settings that cannot be restored fail an assertion. *)
shell_restore_term_Assert ==
  /\ Step("restore")
  /\ IF ~attr THEN Goto("port_cleanup") /\ UNCHANGED term
     ELSE IF hungup THEN SPCOM_EXIT("EX_SOFTWARE") /\ UNCHANGED term
     ELSE Goto("port_cleanup") /\ term' = "org"
  /\ UNCHANGED <<opts, fails, signalVars, uv, hungup, attr, mode, minit, dev, logVars>>

(* shell_cleanup(): tcsetattr(), whatever the mode's cleanup has done. *)
shell_restore_term ==
  /\ Step("restore")
  /\ IF ~attr THEN Goto("port_cleanup") /\ UNCHANGED <<term, fails, logVars>>
     ELSE /\ log_vprintf(IF hungup THEN "ERR" ELSE "DBG", "port_cleanup")
          /\ term' = IF hungup THEN term ELSE "org"
  /\ UNCHANGED <<opts, signalVars, uv, hungup, attr, mode, minit, dev>>

(* port_cleanup() frees the saved settings of the device, and             *)
(* port_wait_cleanup() stops the wait.  Neither closes the port.           *)
port_cleanup ==
  /\ Step("port_cleanup") /\ Goto("uv_cleanup")
  /\ UNCHANGED <<opts, fails, signalVars, uv, hungup, termVars, dev, logVars>>

(* Regression: the log is closed with the loop. *)
main_uv_cleanup_CloseLog ==
  /\ Step("uv_cleanup")
  /\ Goto("endline2")
  /\ uv' = IF uv = "none" THEN "none" ELSE "closing"
  /\ handler' = [s \in Sigs |-> "default"]
  /\ log_cleanup
  /\ UNCHANGED <<opts, fails, sent, pending, hungup, termVars, dev>>

(* main_uv_cleanup(): closing a handle again fails an assertion of libuv, *)
(* if it has been built with them.                                         *)
main_uv_cleanup ==
  /\ Step("uv_cleanup")
  /\ \/ Goto("endline2")
     \/ uv = "closing" /\ ended' = "abort" /\ UNCHANGED <<at, code, depth>>
  /\ uv' = IF uv = "none" THEN "none" ELSE "closing"
  /\ handler' = [s \in Sigs |-> "default"]
  /\ UNCHANGED <<opts, fails, sent, pending, hungup, termVars, dev, logVars>>

main_cleanup_endline ==
  /\ Step("endline2") /\ write_all_or_die("log_cleanup")
  /\ UNCHANGED <<opts, signalVars, uv, hungup, termVars, dev, logVars>>

(* log_cleanup(), cleanup_done and exit(). *)
exit ==
  /\ Step("log_cleanup")
  /\ log_cleanup
  /\ ended' = "exit"
  /\ UNCHANGED <<opts, at, code, depth, fails, signalVars, uv, hungup, termVars, dev>>

(* The process has ended. *)
Stopped == ended # "no" /\ UNCHANGED vars

Start == \/ main_log_init \/ main_do_early_exit_opts \/ init_signals \/ shell_init
         \/ init_failed \/ sh_raw_init \/ sh_cooked_init \/ port_init

Loop == \/ reconnect \/ callback_exits \/ (\E s \in Sigs : on_signal(s)) \/ uv_run_returns

End == \/ spcom_exit_endline \/ spcom_exit_message \/ main_cleanup
       \/ shell_cleanup_mode \/ shell_restore_term \/ port_cleanup
       \/ main_uv_cleanup \/ main_cleanup_endline \/ exit

Next == Start \/ Loop \/ End \/ (\E s \in Sigs : Signal(s)) \/ Hangup \/ Stopped

Spec == Init /\ [][Next]_vars

-----------------------------------------------------------------------------
Steps == {"log_init", "early_exit", "signals", "shell", "init_failed", "mode", "port", "loop",
          "stopped", "endline", "message", "cleanup", "shell_cleanup", "restore",
          "port_cleanup", "uv_cleanup", "endline2", "log_cleanup"}

(* A mode is initialized only while it is selected. *)
TypeOK ==
  /\ opts \in [tty : BOOLEAN, cooked : BOOLEAN, silent : BOOLEAN, logfile : Logfiles]
  /\ at \in Steps /\ ended \in {"no", "exit", "killed", "killed_again", "abort", "overflow"}
  /\ code \in {"EX_OK", "EX_USAGE", "EX_OSFILE", "EX_NOPERM", "EX_TEMPFAIL", "EX_IOERR",
               "EX_SOFTWARE"}
  /\ depth \in 0..MaxDepth /\ fails \in 0..MaxFails
  /\ handler \in [Sigs -> {"default", "caught"}] /\ sent \in SUBSET Sigs
  /\ pending \in SUBSET sent
  /\ uv \in {"none", "open", "closing"} /\ hungup \in BOOLEAN
  /\ term \in {"org", "raw", "rl"} /\ attr \in BOOLEAN /\ minit \in BOOLEAN
  /\ mode \in {"none", "raw", "cooked"} /\ (minit => mode # "none")
  /\ dev \in {"org", "usr"} /\ loginit \in BOOLEAN /\ opens \in Nat

(* The terminal has its own settings back: after an error in the middle of *)
(* the start or of the end, after a signal at any moment, after failed     *)
(* writes.  Not when the stack runs out, and not when a signal that        *)
(* on_signal() has taken, and so no longer catches, is sent again.         *)
TerminalRestored ==
  ended \in {"exit", "killed", "abort"} /\ ~hungup => term = "org"

(* The log file is never opened a second time, which would empty it: no    *)
(* step of the end logs after log_cleanup(), even one that is repeated.    *)
LogOpenedOnce == opens <= 1

(* spcom_exit() is entered again only because a write has failed, or       *)
(* because the log file cannot be opened; a single error exits once.       *)
ReentryNeedsFailure == opts.logfile # "denied" => depth <= fails + 1

(* log.c: the log module must not use the exit handler, "as exit handler   *)
(* might call log_printf() resulting in recursion loop".                   *)
NoRecursionLoop == ended # "overflow"

(* port_open(): "any assert failure will trigger cleanup".  So the device  *)
(* should have its own settings back after an exit, as after port_close(); *)
(* port_cleanup() does not put them back.                                  *)
DeviceRestored == ended = "exit" => dev = "org"
=============================================================================
