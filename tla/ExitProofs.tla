----------------------------- MODULE ExitProofs -----------------------------
(***************************************************************************)
(* Proofs about the start and the end of the program, for any set of       *)
(* signals, any size of the stack and any number of failing writes.        *)
(***************************************************************************)
EXTENDS Exit, TLAPS

BeforeMode == {"log_init", "early_exit", "signals", "shell", "init_failed", "mode"}
BeforeExit == BeforeMode \cup {"port", "loop", "stopped"}
AfterRestore == {"port_cleanup", "uv_cleanup", "endline2", "log_cleanup"}

(* The terminal needs no restoring. *)
Safe == term = "org" \/ hungup

(* Where in the program the terminal can have which settings.  A signal    *)
(* that has not been sent kills only while the terminal is safe.           *)
TermInv ==
  /\ term # "org" => attr
  /\ at \in BeforeMode => term = "org"
  /\ at \in AfterRestore => Safe
  /\ at \in {"shell", "mode"} => \A s \in Sigs : handler[s] = "caught"
  /\ at \in {"mode"} => attr
  /\ \A s \in Sigs \ sent : handler[s] = "default" => Safe
  /\ TerminalRestored

(* The log is closed only by a step that ends the program. *)
LogInv == LogOpenedOnce /\ (ended = "no" /\ ~loginit => opens = 0)

(* spcom_exit() is entered for the first time from the start or the loop. *)
DepthInv ==
  /\ ReentryNeedsFailure
  /\ at \in BeforeExit => depth = 0
  /\ ended = "no" => depth < MaxDepth

Inv == TypeOK /\ TermInv /\ LogInv /\ DepthInv

-----------------------------------------------------------------------------
(* At the start nothing has been changed. *)
LEMMA InitInv == Init => Inv
<1> SUFFICES ASSUME Init PROVE Inv
  OBVIOUS
<1>1. TypeOK
  <2>1. handler \in [Sigs -> {"default", "caught"}]
    BY DEF Init
  <2>2. depth \in 0..MaxDepth /\ fails \in 0..MaxFails /\ opens \in Nat
    BY ExitAssumption DEF Init
  <2>3. sent \in SUBSET Sigs /\ pending \in SUBSET sent
    BY DEF Init
  <2>4. QED
    BY <2>1, <2>2, <2>3 DEF Init, TypeOK, Steps
<1>2. TermInv
  BY DEF Init, TermInv, TerminalRestored, Safe, BeforeMode, AfterRestore
<1>3. LogInv /\ DepthInv
  BY ExitAssumption DEF Init, LogInv, DepthInv, LogOpenedOnce, ReentryNeedsFailure
<1>4. QED
  BY <1>1, <1>2, <1>3 DEF Inv

(* What the steps of the program are made of: each goes on or enters       *)
(* spcom_exit(), and the depth and the log are kept in order.              *)
Goes(there) ==
  \/ Goto(there) /\ UNCHANGED fails
  \/ at' = "endline" /\ depth' = depth + 1
     /\ ended' = (IF depth + 1 = MaxDepth THEN "overflow" ELSE ended)
     /\ code' \in {"EX_NOPERM", "EX_SOFTWARE"}
     /\ \/ fails < MaxFails /\ fails' = fails + 1
        \/ opts.logfile = "denied" /\ UNCHANGED fails

(* A step that writes. *)
LEMMA WriteGoes ==
  ASSUME NEW there, write_all_or_die(there) PROVE Goes(there)
  BY DEF write_all_or_die, Goes, SPCOM_EXIT

(* A step that logs: the log file is opened only when the log is closed.   *)
LEMMA LogGoes ==
  ASSUME NEW there, NEW level, TypeOK, LogInv, ended = "no", log_vprintf(level, there)
  PROVE  Goes(there) /\ LogInv' /\ loginit' \in BOOLEAN /\ opens' \in Nat
  <1>1. CASE opts.silent \/ level = "DBG" \/ (~loginit /\ opts.logfile = "denied")
    <2>1. log_init(there) /\ UNCHANGED fails
      BY <1>1 DEF log_vprintf
    <2>2. CASE loginit
      BY <2>1, <2>2 DEF log_init, Goes, LogInv, LogOpenedOnce, TypeOK, logVars, Goto
    <2>3. CASE ~loginit /\ opts.logfile = "denied"
      BY <2>1, <2>3 DEF log_init, Goes, SPCOM_EXIT, LogInv, LogOpenedOnce, TypeOK, logVars
    <2>4. CASE ~loginit /\ opts.logfile # "denied"
      <3>1. /\ Goto(there) /\ loginit' = TRUE
            /\ opens' = IF opts.logfile = "opens" THEN opens + 1 ELSE opens
        BY <2>1, <2>4 DEF log_init
      <3>2. opens = 0
        BY <2>4 DEF LogInv
      <3>3. QED
        BY <2>1, <3>1, <3>2 DEF Goes, LogInv, LogOpenedOnce
    <2>5. QED
      BY <2>2, <2>3, <2>4
  <1>2. CASE ~(opts.silent \/ level = "DBG" \/ (~loginit /\ opts.logfile = "denied"))
    <2>1. /\ write_all_or_die(there) /\ loginit' = TRUE
          /\ opens' = IF ~loginit /\ opts.logfile = "opens" THEN opens + 1 ELSE opens
      BY <1>2 DEF log_vprintf
    <2>2. Goes(there)
      BY <2>1, WriteGoes
    <2>3. QED
      BY <2>1, <2>2 DEF LogInv, LogOpenedOnce, TypeOK
  <1>3. QED
    BY <1>1, <1>2

Codes == {"EX_OK", "EX_USAGE", "EX_OSFILE", "EX_NOPERM", "EX_TEMPFAIL", "EX_IOERR",
          "EX_SOFTWARE"}

(* Where a step that goes on or enters spcom_exit() leads. *)
Leads(there) ==
  /\ DepthInv'
  /\ \/ at' = there /\ ended' = "no"
     \/ at' = "endline" /\ ended' \in {"no", "overflow"}
  /\ code' \in Codes /\ depth' \in 0..MaxDepth /\ fails' \in 0..MaxFails

(* A step that goes on, never from the end back to the start. *)
LEMMA GoesLeads ==
  ASSUME NEW there, Inv, ended = "no", Goes(there), UNCHANGED opts,
         there \in BeforeExit => at \in BeforeExit
  PROVE  Leads(there)
<1>1. /\ depth \in Nat /\ fails \in Nat /\ depth < MaxDepth /\ fails <= MaxFails
      /\ code \in Codes /\ MaxDepth \in Nat /\ MaxFails \in Nat
  BY ExitAssumption DEF Inv, TypeOK, DepthInv, Codes
<1>2. CASE Goto(there) /\ UNCHANGED fails
  BY <1>1, <1>2 DEF Goto, Leads, Inv, DepthInv, ReentryNeedsFailure
<1>3. CASE ~(Goto(there) /\ UNCHANGED fails)
  <2>1. /\ at' = "endline" /\ depth' = depth + 1
        /\ ended' = (IF depth + 1 = MaxDepth THEN "overflow" ELSE ended)
        /\ code' \in {"EX_NOPERM", "EX_SOFTWARE"}
        /\ \/ fails < MaxFails /\ fails' = fails + 1
           \/ opts.logfile = "denied" /\ UNCHANGED fails
    BY <1>3 DEF Goes
  <2>2. ReentryNeedsFailure'
    BY <1>1, <2>1 DEF Inv, DepthInv, ReentryNeedsFailure
  <2>3. QED
    BY <1>1, <2>1, <2>2 DEF Leads, DepthInv, BeforeExit, BeforeMode, Codes
<1>4. QED
  BY <1>2, <1>3

(* spcom_exit() called from the start or the loop. *)
LEMMA ExitLeads ==
  ASSUME Inv, ended = "no", at \in BeforeExit, NEW c \in Codes, SPCOM_EXIT(c),
         UNCHANGED <<opts, fails>>
  PROVE  Leads("endline")
<1>1. depth = 0 /\ fails \in Nat /\ fails <= MaxFails /\ MaxDepth \in Nat \ {0} /\ MaxFails \in Nat
  BY ExitAssumption DEF Inv, TypeOK, DepthInv
<1>2. ReentryNeedsFailure'
  BY <1>1 DEF SPCOM_EXIT, ReentryNeedsFailure
<1>3. QED
  BY <1>1, <1>2 DEF SPCOM_EXIT, Leads, DepthInv, BeforeExit, BeforeMode

(* A step that leaves the terminal and the signals alone keeps TermInv, if *)
(* where it leads is right for the settings of the terminal.               *)
LEMMA TermKept ==
  ASSUME TermInv, UNCHANGED <<handler, sent, hungup, term, attr>>, ended' \in {"no", "overflow"},
         at' \in BeforeMode => at' = "init_failed" /\ term = "org",
         at' \in AfterRestore => Safe
  PROVE  TermInv'
  BY DEF TermInv, Safe, TerminalRestored, BeforeMode

-----------------------------------------------------------------------------
(* The steps, one by one.  A log that is left alone stays in order. *)
LEMMA LogKept ==
  ASSUME LogInv, ended = "no", UNCHANGED logVars PROVE LogInv'
  BY DEF LogInv, LogOpenedOnce, logVars

(* The invariant after a step that leads somewhere. *)
LEMMA LeadsInv ==
  ASSUME Inv, NEW there \in Steps, Leads(there), TermInv', LogInv',
         UNCHANGED opts, handler' \in [Sigs -> {"default", "caught"}],
         sent' \in SUBSET Sigs, pending' \in SUBSET sent',
         uv' \in {"none", "open", "closing"}, hungup' \in BOOLEAN,
         term' \in {"org", "raw", "rl"}, attr' \in BOOLEAN, minit' \in BOOLEAN,
         mode' \in {"none", "raw", "cooked"}, minit' => mode' # "none",
         dev' \in {"org", "usr"}, loginit' \in BOOLEAN, opens' \in Nat
  PROVE  Inv'
<1>1. at' \in Steps /\ ended' \in {"no", "exit", "killed", "killed_again", "abort", "overflow"}
  BY DEF Leads, Steps
<1>2. TypeOK'
  BY <1>1 DEF Inv, TypeOK, Leads, Codes
<1>3. QED
  BY <1>2 DEF Inv, Leads

(* A step that only ends the process, or the environment's. *)
LEMMA OutsideStep ==
  ASSUME Inv, ended = "no", UNCHANGED <<opts, at, code, depth, fails, termVars, dev, opens>>,
         ended' \in {"no", "exit", "killed", "killed_again", "abort"},
         ended' \in {"exit", "killed", "abort"} => Safe,
         handler' \in [Sigs -> {"default", "caught"}],
         sent' \in SUBSET Sigs, pending' \in SUBSET sent', sent \subseteq sent',
         uv' \in {"none", "open", "closing"}, hungup' \in BOOLEAN, hungup => hungup',
         loginit' \in BOOLEAN, loginit' = loginit \/ ended' # "no",
         \A s \in Sigs \ sent : handler'[s] = handler[s] \/ Safe,
         at \in {"shell", "mode"} => \A s \in Sigs : handler'[s] = "caught"
  PROVE  Inv'
<1>1. TypeOK'
  <2>1. minit' \in BOOLEAN /\ (minit' => mode' # "none")
    BY DEF Inv, TypeOK, termVars
  <2>2. QED
    BY <2>1 DEF Inv, TypeOK, termVars
<1>2. Safe => Safe'
  BY DEF Safe, termVars
<1>3. TermInv'
  <2>1. TerminalRestored'
    BY <1>2 DEF Safe, TerminalRestored
  <2>2. \A s \in Sigs \ sent' : handler'[s] = "default" => Safe'
    BY <1>2 DEF Inv, TermInv
  <2>3. QED
    BY <1>2, <2>1, <2>2 DEF Inv, TermInv, termVars
<1>4. LogInv' /\ DepthInv'
  BY DEF Inv, LogInv, LogOpenedOnce, DepthInv, ReentryNeedsFailure
<1>5. QED
  BY <1>1, <1>3, <1>4 DEF Inv

(* The first opening of the log. *)
LEMMA LogInitStep == Inv /\ main_log_init => Inv'
<1> SUFFICES ASSUME Inv, main_log_init PROVE Inv'
  OBVIOUS
<1>1. /\ ended = "no" /\ at = "log_init" /\ log_init("early_exit")
      /\ UNCHANGED <<opts, fails, signalVars, uv, hungup, termVars, dev>>
  BY DEF main_log_init, Step
<1>2. log_vprintf("DBG", "early_exit")
  BY <1>1 DEF log_vprintf
<1>3. Goes("early_exit") /\ LogInv' /\ loginit' \in BOOLEAN /\ opens' \in Nat
  BY <1>1, <1>2, LogGoes DEF Inv
<1>4. Leads("early_exit")
  BY <1>1, <1>3, GoesLeads DEF BeforeExit, BeforeMode
<1>5. TermInv'
  BY <1>1, <1>4 DEF Inv, TermInv, Leads, signalVars, termVars, Safe, TerminalRestored,
                    BeforeMode, AfterRestore
<1>6. QED
  BY <1>1, <1>3, <1>4, <1>5, LeadsInv DEF Inv, TypeOK, Steps, signalVars, termVars

(* --help, --version, --list, or on to main_init(). *)
LEMMA EarlyExitStep == Inv /\ main_do_early_exit_opts => Inv'
<1> SUFFICES ASSUME Inv, main_do_early_exit_opts PROVE Inv'
  OBVIOUS
<1>1. /\ ended = "no" /\ at = "early_exit" /\ term = "org"
      /\ UNCHANGED <<opts, fails, signalVars, uv, hungup, termVars, dev>>
  BY DEF main_do_early_exit_opts, Step, Inv, TermInv, BeforeMode
<1>2. CASE Goto("signals") /\ UNCHANGED logVars
  <2>1. Leads("signals")
    BY <1>1, <1>2, GoesLeads DEF Goes, BeforeExit, BeforeMode
  <2>2. TermInv'
    BY <1>1, <2>1 DEF Inv, signalVars, termVars, TermInv, Leads, Safe, TerminalRestored, BeforeMode, AfterRestore
  <2>3. QED
    BY <1>1, <1>2, <2>1, <2>2, LogKept, LeadsInv DEF Inv, TypeOK, Steps, signalVars, termVars, logVars
<1>3. CASE log_cleanup /\ ended' = "exit" /\ UNCHANGED <<at, code, depth>>
  <2>1. Safe
    BY <1>1 DEF Inv, TermInv, BeforeMode, Safe
  <2>2. /\ loginit' = FALSE
        /\ UNCHANGED <<opts, at, code, depth, fails, handler, sent, pending, uv, hungup, termVars,
                       dev, opens>>
    BY <1>1, <1>3 DEF signalVars, log_cleanup
  <2>3. /\ handler' \in [Sigs -> {"default", "caught"}] /\ uv' \in {"none", "open", "closing"}
        /\ sent' \in SUBSET Sigs /\ pending' \in SUBSET sent' /\ sent \subseteq sent'
        /\ hungup' \in BOOLEAN /\ (hungup => hungup') /\ loginit' \in BOOLEAN
    BY <2>2 DEF Inv, TypeOK
  <2>4. ended' = "exit" /\ at \notin {"shell", "mode"}
    BY <1>1, <1>3
  <2>5. QED
    BY <1>1, <2>1, <2>2, <2>3, <2>4, OutsideStep
<1>4. QED
  BY <1>2, <1>3 DEF main_do_early_exit_opts

(* From here on libuv catches the signals. *)
LEMMA SignalsStep == Inv /\ init_signals => Inv'
<1> SUFFICES ASSUME Inv, init_signals PROVE Inv'
  OBVIOUS
<1> DEFINE there == IF opts.tty THEN "shell" ELSE "port"
<1>1. /\ ended = "no" /\ at = "signals" /\ Goto(there) /\ uv' = "open"
      /\ handler' = [s \in Sigs |-> "caught"] /\ term = "org"
      /\ UNCHANGED <<opts, fails, sent, pending, hungup, termVars, dev, logVars>>
  BY DEF init_signals, Step, Inv, TermInv, BeforeMode
<1>2. there \in Steps /\ there \in {"shell", "port"}
  BY DEF Steps
<1>3. Leads(there)
  BY <1>1, GoesLeads DEF Goes, BeforeExit, BeforeMode
<1>4. at' = there /\ ended' = "no" /\ \A s \in Sigs : handler'[s] = "caught"
  BY <1>1 DEF Goto
<1>5. TermInv'
  BY <1>1, <1>2, <1>4 DEF Inv, TermInv, Safe, TerminalRestored, BeforeMode, AfterRestore, termVars
<1>6. handler' \in [Sigs -> {"default", "caught"}]
  BY <1>1
<1> HIDE DEF there
<1>7. QED
  BY <1>1, <1>2, <1>3, <1>5, <1>6, LogKept, LeadsInv DEF Inv, TypeOK, signalVars, termVars, logVars

(* The terminal is remembered before it is changed. *)
LEMMA ShellInitStep == Inv /\ shell_init => Inv'
<1> SUFFICES ASSUME Inv, shell_init PROVE Inv'
  OBVIOUS
<1>1. /\ ended = "no" /\ at = "shell" /\ term = "org"
      /\ \A s \in Sigs : handler[s] = "caught"
      /\ UNCHANGED <<opts, signalVars, uv, hungup, term, minit, dev>>
  BY DEF shell_init, Step, Inv, TermInv, BeforeMode
<1>2. CASE hungup
  <2>1. log_vprintf("ERR", "init_failed") /\ UNCHANGED <<attr, mode>>
    BY <1>2 DEF shell_init
  <2>2. Goes("init_failed") /\ LogInv' /\ loginit' \in BOOLEAN /\ opens' \in Nat
    BY <1>1, <2>1, LogGoes DEF Inv
  <2>3. Leads("init_failed")
    BY <1>1, <2>2, GoesLeads DEF BeforeExit, BeforeMode
  <2>4. TermInv'
    BY <1>1, <2>1, <2>3 DEF Inv, signalVars, TermInv, Leads, Safe, TerminalRestored, BeforeMode, AfterRestore
  <2>5. QED
    BY <1>1, <2>1, <2>2, <2>3, <2>4, LeadsInv DEF Inv, TypeOK, Steps, signalVars
<1>3. CASE ~hungup
  <2>1. /\ Goto("mode") /\ attr' = TRUE /\ mode' \in {"raw", "cooked"}
        /\ UNCHANGED <<fails, logVars>>
    BY <1>3 DEF shell_init
  <2>2. Leads("mode")
    BY <1>1, <2>1, GoesLeads DEF Goes, BeforeExit, BeforeMode
  <2>3. TermInv'
    BY <1>1, <2>1, <2>2 DEF Inv, signalVars, TermInv, Leads, Safe, TerminalRestored, BeforeMode, AfterRestore
  <2>4. QED
    BY <1>1, <2>1, <2>2, <2>3, LogKept, LeadsInv DEF Inv, TypeOK, Steps, signalVars, logVars
<1>4. QED
  BY <1>2, <1>3

(* A failed start. *)
LEMMA InitFailedStep == Inv /\ (init_failed \/ uv_run_returns) => Inv'
<1> SUFFICES ASSUME Inv, init_failed \/ uv_run_returns PROVE Inv'
  OBVIOUS
<1>1. /\ ended = "no" /\ at \in {"init_failed", "stopped"}
      /\ SPCOM_EXIT("EX_SOFTWARE") \/ SPCOM_EXIT("EX_OK")
      /\ UNCHANGED <<opts, fails, signalVars, uv, hungup, termVars, dev, logVars>>
  BY DEF init_failed, uv_run_returns, Step
<1>2. Leads("endline")
  BY <1>1, ExitLeads DEF Codes, BeforeExit, BeforeMode
<1>3. TermInv'
  BY <1>1, <1>2, TermKept DEF Inv, signalVars, termVars, Leads, BeforeMode, AfterRestore
<1>4. QED
  BY <1>1, <1>2, <1>3, LogKept, LeadsInv DEF Inv, TypeOK, Steps, signalVars, termVars, logVars

(* Raw mode: the settings are changed, or are those of a lost terminal. *)
LEMMA RawInitStep == Inv /\ sh_raw_init => Inv'
<1> SUFFICES ASSUME Inv, sh_raw_init PROVE Inv'
  OBVIOUS
<1>1. /\ ended = "no" /\ at = "mode" /\ mode = "raw" /\ term = "org" /\ attr
      /\ \A s \in Sigs : handler[s] = "caught"
      /\ UNCHANGED <<opts, signalVars, uv, hungup, attr, mode, dev>>
      /\ minit' = (minit \/ at' = "port")
  BY DEF sh_raw_init, Step, Inv, TermInv, BeforeMode
<1>2. minit' \in BOOLEAN /\ (minit' => mode' # "none")
  BY <1>1
<1>3. CASE ~hungup /\ Goto("port") /\ term' = "raw" /\ UNCHANGED <<fails, logVars>>
  <2>1. Leads("port")
    BY <1>1, <1>3, GoesLeads DEF Goes, BeforeExit, BeforeMode
  <2>2. TermInv'
    BY <1>1, <1>3, <2>1 DEF Inv, signalVars, TermInv, Leads, Safe, TerminalRestored, BeforeMode, AfterRestore
  <2>3. QED
    BY <1>1, <1>2, <1>3, <2>1, <2>2, LogKept, LeadsInv DEF Inv, TypeOK, Steps, signalVars, logVars
<1>4. CASE hungup /\ log_vprintf("ERR", "port") /\ UNCHANGED term
  <2>1. Goes("port") /\ LogInv' /\ loginit' \in BOOLEAN /\ opens' \in Nat
    BY <1>1, <1>4, LogGoes DEF Inv
  <2>2. Leads("port")
    BY <1>1, <2>1, GoesLeads DEF BeforeExit, BeforeMode
  <2>3. TermInv'
    BY <1>1, <1>4, <2>2, TermKept DEF Inv, signalVars, Leads, BeforeMode, AfterRestore
  <2>4. QED
    BY <1>1, <1>2, <1>4, <2>1, <2>2, <2>3, LeadsInv DEF Inv, TypeOK, Steps, signalVars
<1>5. CASE hungup /\ SPCOM_EXIT("EX_OSFILE") /\ UNCHANGED <<term, fails, logVars>>
  <2>1. Leads("endline")
    BY <1>1, <1>5, ExitLeads DEF Codes, BeforeExit, BeforeMode
  <2>2. TermInv'
    BY <1>1, <1>5, <2>1, TermKept DEF Inv, signalVars, Leads, BeforeMode, AfterRestore
  <2>3. QED
    BY <1>1, <1>2, <1>5, <2>1, <2>2, LogKept, LeadsInv DEF Inv, TypeOK, Steps, signalVars, logVars
<1>6. QED
  BY <1>3, <1>4, <1>5 DEF sh_raw_init

(* Cooked mode: readline changes the settings of the terminal. *)
LEMMA CookedInitStep == Inv /\ sh_cooked_init => Inv'
<1> SUFFICES ASSUME Inv, sh_cooked_init PROVE Inv'
  OBVIOUS
<1>1. /\ ended = "no" /\ at = "mode" /\ mode = "cooked" /\ attr
      /\ \A s \in Sigs : handler[s] = "caught"
      /\ Goto("port") /\ term' \in {term, "rl"} /\ minit' = TRUE
      /\ UNCHANGED <<opts, fails, signalVars, uv, hungup, attr, mode, dev, logVars>>
  BY DEF sh_cooked_init, Step, Inv, TermInv
<1>2. Leads("port")
  BY <1>1, GoesLeads DEF Goes, BeforeExit, BeforeMode
<1>3. TermInv'
  BY <1>1, <1>2 DEF Inv, signalVars, TermInv, Leads, Safe, TerminalRestored, BeforeMode, AfterRestore
<1>4. QED
  BY <1>1, <1>2, <1>3, LogKept, LeadsInv DEF Inv, TypeOK, Steps, signalVars, logVars

(* The port does not touch the terminal. *)
LEMMA PortInitStep == Inv /\ port_init => Inv'
<1> SUFFICES ASSUME Inv, port_init PROVE Inv'
  OBVIOUS
<1>1. /\ ended = "no" /\ at = "port" /\ dev' \in {"org", "usr"}
      /\ Goto("loop") \/ SPCOM_EXIT("EX_USAGE") \/ SPCOM_EXIT("EX_OSFILE")
      /\ UNCHANGED <<opts, fails, signalVars, uv, hungup, termVars, logVars>>
  BY DEF port_init, Step, Inv, TypeOK
<1>2. Leads("endline") \/ Leads("loop")
  BY <1>1, GoesLeads, ExitLeads DEF Goes, Codes, BeforeExit, BeforeMode
<1>3. TermInv'
  BY <1>1, <1>2, TermKept DEF Inv, signalVars, termVars, Leads, BeforeMode, AfterRestore
<1>4. QED
  BY <1>1, <1>2, <1>3, LogKept, LeadsInv DEF Inv, TypeOK, Steps, signalVars, termVars, logVars

(* Only the device's settings change. *)
LEMMA ReconnectStep == Inv /\ reconnect => Inv'
<1> SUFFICES ASSUME Inv, reconnect PROVE Inv'
  OBVIOUS
<1>1. /\ ended = "no" /\ dev' \in {"org", "usr"} /\ at \in {"loop", "stopped"}
      /\ UNCHANGED <<opts, exitVars, fails, signalVars, uv, hungup, termVars, logVars>>
  BY DEF reconnect, InLoop, Step
<1>2. Leads(at)
  BY <1>1, GoesLeads DEF Goes, Goto, exitVars
<1>3. TermInv'
  BY <1>1, <1>2, TermKept DEF Inv, signalVars, termVars, Leads, BeforeMode, AfterRestore
<1>4. QED
  BY <1>1, <1>2, <1>3, LogKept, LeadsInv DEF Inv, TypeOK, signalVars, termVars, logVars

(* Every error in the loop leads to spcom_exit(). *)
LEMMA CallbackStep == Inv /\ callback_exits => Inv'
<1> SUFFICES ASSUME Inv, callback_exits PROVE Inv'
  OBVIOUS
<1>1. /\ ended = "no" /\ at \in {"loop", "stopped"}
      /\ UNCHANGED <<opts, signalVars, uv, hungup, termVars, dev, logVars>>
  BY DEF callback_exits, InLoop, Step
<1>2. Leads("endline") \/ Leads(at)
  <2>1. CASE write_all_or_die(at)
    BY <1>1, <2>1, WriteGoes, GoesLeads
  <2>2. CASE ~write_all_or_die(at)
    <3>1. PICK c \in {"EX_OK", "EX_TEMPFAIL", "EX_IOERR", "EX_SOFTWARE"} :
            SPCOM_EXIT(c) /\ UNCHANGED fails
      BY <2>2 DEF callback_exits
    <3>2. QED
      BY <1>1, <3>1, ExitLeads DEF Codes, BeforeExit
  <2>3. QED
    BY <2>1, <2>2
<1>3. TermInv'
  BY <1>1, <1>2, TermKept DEF Inv, signalVars, termVars, Leads, BeforeMode, AfterRestore
<1>4. QED
  BY <1>1, <1>2, <1>3, LogKept, LeadsInv DEF Inv, TypeOK, Steps, signalVars, termVars, logVars

(* A signal loses its handler only after it has been sent. *)
LEMMA OnSignalStep == Inv /\ (\E s \in Sigs : on_signal(s)) => Inv'
<1> SUFFICES ASSUME Inv, NEW s \in Sigs, on_signal(s) PROVE Inv'
  OBVIOUS
<1>1. /\ ended = "no" /\ at \in {"loop", "stopped"} /\ s \in pending
      /\ pending' = pending \ {s} /\ handler' = [handler EXCEPT ![s] = "default"]
      /\ Goto("stopped")
      /\ UNCHANGED <<opts, fails, sent, uv, hungup, termVars, dev, logVars>>
  BY DEF on_signal, InLoop, Step
<1>2. Leads("stopped")
  BY <1>1, GoesLeads DEF Goes, BeforeExit
<1>3. handler \in [Sigs -> {"default", "caught"}] /\ pending \in SUBSET sent /\ sent \in SUBSET Sigs
  BY DEF Inv, TypeOK
<1>4. handler' \in [Sigs -> {"default", "caught"}] /\ pending' \in SUBSET sent' /\ sent' \in SUBSET Sigs
  BY <1>1, <1>3
<1>5. \A r \in Sigs \ sent : handler'[r] = handler[r]
  BY <1>1, <1>3
<1>6. TermInv'
  BY <1>1, <1>2, <1>5 DEF Inv, termVars, TermInv, Leads, Safe, TerminalRestored, BeforeMode, AfterRestore
<1>7. QED
  BY <1>1, <1>2, <1>4, <1>6, LogKept, LeadsInv DEF Inv, TypeOK, Steps, termVars, logVars

-----------------------------------------------------------------------------
(* A step of the end that neither restores the terminal nor needs it.      *)
LEMMA EndStep ==
  ASSUME Inv, ended = "no", at \notin BeforeExit, NEW there \in Steps \ BeforeExit, Goes(there),
         there \in AfterRestore => Safe, LogInv', loginit' \in BOOLEAN, opens' \in Nat,
         UNCHANGED <<opts, signalVars, uv, hungup, termVars, dev>>
  PROVE  Inv'
<1>1. Leads(there)
  BY GoesLeads
<1>2. TermInv'
  BY <1>1, TermKept DEF Inv, signalVars, termVars, Leads, BeforeExit, BeforeMode, AfterRestore
<1>3. QED
  BY <1>1, <1>2, LeadsInv DEF Inv, TypeOK, signalVars, termVars

(* The steps that write and log. *)
LEMMA MessageSteps ==
  Inv /\ (spcom_exit_endline \/ spcom_exit_message \/ main_cleanup \/ main_cleanup_endline) => Inv'
<1> SUFFICES ASSUME Inv, spcom_exit_endline \/ spcom_exit_message \/ main_cleanup
                          \/ main_cleanup_endline
             PROVE Inv'
  OBVIOUS
<1>1. ended = "no" /\ UNCHANGED <<opts, signalVars, uv, hungup, termVars, dev>>
  BY DEF spcom_exit_endline, spcom_exit_message, main_cleanup, main_cleanup_endline, Step
<1>2. CASE spcom_exit_endline
  <2>1. at = "endline" /\ Goes("message") /\ UNCHANGED logVars
    BY <1>2, WriteGoes DEF spcom_exit_endline, Step
  <2>2. QED
    BY <1>1, <2>1, EndStep, LogKept DEF Inv, TypeOK, logVars, Steps, BeforeExit, BeforeMode, AfterRestore
<1>3. CASE spcom_exit_message
  <2>1. at = "message" /\ log_vprintf(IF code = "EX_OK" THEN "DBG" ELSE "ERR", "cleanup")
    BY <1>3 DEF spcom_exit_message, Step
  <2>2. Goes("cleanup") /\ LogInv' /\ loginit' \in BOOLEAN /\ opens' \in Nat
    BY <1>1, <2>1, LogGoes DEF Inv
  <2>3. QED
    BY <1>1, <2>1, <2>2, EndStep DEF Steps, BeforeExit, BeforeMode, AfterRestore
<1>4. CASE main_cleanup
  <2>1. at = "cleanup" /\ log_vprintf("DBG", "shell_cleanup")
    BY <1>4 DEF main_cleanup, Step
  <2>2. Goes("shell_cleanup") /\ LogInv' /\ loginit' \in BOOLEAN /\ opens' \in Nat
    BY <1>1, <2>1, LogGoes DEF Inv
  <2>3. QED
    BY <1>1, <2>1, <2>2, EndStep DEF Steps, BeforeExit, BeforeMode, AfterRestore
<1>5. CASE main_cleanup_endline
  <2>1. at = "endline2" /\ Goes("log_cleanup") /\ UNCHANGED logVars
    BY <1>5, WriteGoes DEF main_cleanup_endline, Step
  <2>2. Safe
    BY <2>1 DEF Inv, TermInv, AfterRestore
  <2>3. QED
    BY <1>1, <2>1, <2>2, EndStep, LogKept DEF Inv, TypeOK, logVars, Steps, BeforeExit, BeforeMode
<1>6. QED
  BY <1>2, <1>3, <1>4, <1>5

(* The mode's cleanup may restore the terminal, and never changes it otherwise. *)
LEMMA ShellCleanupStep == Inv /\ shell_cleanup_mode => Inv'
<1> SUFFICES ASSUME Inv, shell_cleanup_mode PROVE Inv'
  OBVIOUS
<1>1. /\ ended = "no" /\ at = "shell_cleanup"
      /\ mode' = (IF at' = "restore" THEN "none" ELSE mode)
      /\ minit' = (minit /\ at' # "restore")
      /\ UNCHANGED <<opts, signalVars, uv, hungup, attr, dev>>
  BY DEF shell_cleanup_mode, Step
<1>2. Goes("restore") /\ term' \in {term, "org"} /\ LogInv' /\ loginit' \in BOOLEAN /\ opens' \in Nat
  <2>1. CASE log_vprintf("ERR", "restore") /\ UNCHANGED term
    BY <1>1, <2>1, LogGoes DEF Inv
  <2>2. CASE Goto("restore") /\ term' \in {term, "org"} /\ UNCHANGED <<fails, logVars>>
    BY <1>1, <2>2, LogKept DEF Inv, TypeOK, Goes, logVars
  <2>3. QED
    BY <2>1, <2>2 DEF shell_cleanup_mode, sh_raw_exit, sh_cooked_exit
<1>3. Leads("restore")
  BY <1>1, <1>2, GoesLeads DEF BeforeExit, BeforeMode
<1>4. mode' \in {"none", "raw", "cooked"} /\ minit' \in BOOLEAN /\ (minit' => mode' # "none")
  BY <1>1 DEF Inv, TypeOK
<1>5. TermInv'
  BY <1>1, <1>2, <1>3 DEF Inv, signalVars, TermInv, Leads, Safe, TerminalRestored, BeforeMode, AfterRestore
<1>6. QED
  BY <1>1, <1>2, <1>3, <1>4, <1>5, LeadsInv DEF Inv, TypeOK, Steps, signalVars

(* shell_restore_term() restores what the mode's cleanup has not. *)
LEMMA RestoreStep == Inv /\ shell_restore_term => Inv'
<1> SUFFICES ASSUME Inv, shell_restore_term PROVE Inv'
  OBVIOUS
<1>1. /\ ended = "no" /\ at = "restore"
      /\ UNCHANGED <<opts, signalVars, uv, hungup, attr, mode, minit, dev>>
  BY DEF shell_restore_term, Step
<1>2. /\ Goes("port_cleanup") /\ LogInv' /\ loginit' \in BOOLEAN /\ opens' \in Nat
      /\ term' \in {term, "org"} /\ Safe'
  <2>1. CASE ~attr
    <3>1. Goto("port_cleanup") /\ UNCHANGED <<term, fails, logVars>> /\ term = "org"
      BY <2>1 DEF shell_restore_term, Inv, TermInv
    <3>2. QED
      BY <1>1, <3>1, LogKept DEF Inv, TypeOK, Goes, Safe, logVars
  <2>2. CASE attr
    <3>1. /\ log_vprintf(IF hungup THEN "ERR" ELSE "DBG", "port_cleanup")
          /\ term' = IF hungup THEN term ELSE "org"
      BY <2>2 DEF shell_restore_term
    <3>2. term' \in {term, "org"} /\ Safe'
      BY <1>1, <3>1 DEF Safe
    <3>3. QED
      BY <1>1, <3>1, <3>2, LogGoes DEF Inv
  <2>3. QED
    BY <2>1, <2>2
<1>3. Leads("port_cleanup")
  BY <1>1, <1>2, GoesLeads DEF BeforeExit, BeforeMode
<1>4. TermInv'
  BY <1>1, <1>2, <1>3 DEF Inv, signalVars, TermInv, Leads, Safe, TerminalRestored, BeforeMode, AfterRestore
<1>5. minit' \in BOOLEAN /\ (minit' => mode' # "none")
  BY <1>1 DEF Inv, TypeOK
<1>6. QED
  BY <1>1, <1>2, <1>3, <1>4, <1>5, LeadsInv DEF Inv, TypeOK, Steps, signalVars

(* The cleanup of the port. *)
LEMMA PortCleanupStep == Inv /\ port_cleanup => Inv'
<1> SUFFICES ASSUME Inv, port_cleanup PROVE Inv'
  OBVIOUS
<1>1. /\ ended = "no" /\ at = "port_cleanup" /\ Goes("uv_cleanup")
      /\ UNCHANGED <<opts, signalVars, uv, hungup, termVars, dev, logVars>>
  BY DEF port_cleanup, Step, Goes
<1>2. Safe
  BY <1>1 DEF Inv, TermInv, AfterRestore
<1>3. QED
  BY <1>1, <1>2, EndStep, LogKept DEF Inv, TypeOK, logVars, Steps, BeforeExit, BeforeMode

(* The handles are closed after the terminal has been restored. *)
LEMMA UvCleanupStep == Inv /\ main_uv_cleanup => Inv'
<1> SUFFICES ASSUME Inv, main_uv_cleanup PROVE Inv'
  OBVIOUS
<1>1. /\ ended = "no" /\ at = "uv_cleanup"
      /\ uv' \in {"none", "open", "closing"} /\ handler' = [s \in Sigs |-> "default"]
      /\ UNCHANGED <<opts, fails, sent, pending, hungup, termVars, dev, logVars>>
  BY DEF main_uv_cleanup, Step
<1>2. Safe /\ Safe'
  BY <1>1 DEF Inv, TermInv, AfterRestore, Safe, termVars
<1>3. handler' \in [Sigs -> {"default", "caught"}]
  BY <1>1
<1>4. CASE Goto("endline2")
  <2>1. Leads("endline2")
    BY <1>1, <1>4, GoesLeads DEF Goes, BeforeExit, BeforeMode
  <2>2. TermInv'
    BY <1>1, <1>2, <2>1 DEF Inv, TermInv, Leads, TerminalRestored, BeforeMode, AfterRestore, termVars
  <2>3. QED
    BY <1>1, <1>3, <2>1, <2>2, LogKept, LeadsInv DEF Inv, TypeOK, Steps, termVars, logVars
<1>5. CASE ended' = "abort" /\ UNCHANGED <<at, code, depth>>
  BY <1>1, <1>2, <1>3, <1>5, OutsideStep DEF Inv, TypeOK, logVars
<1>6. QED
  BY <1>4, <1>5 DEF main_uv_cleanup

(* The end of the process. *)
LEMMA ExitStep == Inv /\ exit => Inv'
<1> SUFFICES ASSUME Inv, exit PROVE Inv'
  OBVIOUS
<1>1. /\ ended = "no" /\ at = "log_cleanup" /\ loginit' = FALSE /\ ended' = "exit"
      /\ UNCHANGED <<opts, at, code, depth, fails, handler, sent, pending, uv, hungup, termVars,
                     dev, opens>>
  BY DEF exit, Step, log_cleanup, signalVars
<1>2. Safe
  BY <1>1 DEF Inv, TermInv, AfterRestore
<1>3. QED
  BY <1>1, <1>2, OutsideStep DEF Inv, TypeOK

(* A signal kills only while the terminal is safe. *)
LEMMA SignalStep == Inv /\ (\E s \in Sigs : Signal(s)) => Inv'
<1> SUFFICES ASSUME Inv, NEW s \in Sigs, Signal(s) PROVE Inv'
  OBVIOUS
<1>1. /\ ended = "no" /\ sent' = sent \cup {s}
      /\ \/ handler[s] = "caught" /\ pending' = pending \cup {s} /\ UNCHANGED ended
         \/ handler[s] # "caught" /\ s \in sent /\ ended' = "killed_again" /\ UNCHANGED pending
         \/ handler[s] # "caught" /\ s \notin sent /\ ended' = "killed" /\ UNCHANGED pending
      /\ UNCHANGED <<opts, at, code, depth, fails, handler, uv, hungup, termVars, dev, logVars>>
  BY DEF Signal
<1>2. handler[s] # "caught" /\ s \notin sent => Safe
  BY DEF Inv, TypeOK, TermInv
<1>3. sent' \in SUBSET Sigs /\ pending' \in SUBSET sent'
  BY <1>1 DEF Inv, TypeOK
<1>4. at \in {"shell", "mode"} => \A r \in Sigs : handler'[r] = "caught"
  BY <1>1 DEF Inv, TermInv
<1>5. QED
  BY <1>1, <1>2, <1>3, <1>4, OutsideStep DEF Inv, TypeOK, logVars

(* The terminal hangs up. *)
LEMMA HangupStep == Inv /\ Hangup => Inv'
<1> SUFFICES ASSUME Inv, Hangup PROVE Inv'
  OBVIOUS
<1>1. /\ ended = "no" /\ hungup' = TRUE
      /\ UNCHANGED <<opts, at, ended, code, depth, fails, handler, sent, pending, uv, termVars, dev,
                     loginit, opens>>
  BY DEF Hangup, exitVars, signalVars, logVars
<1>2. at \in {"shell", "mode"} => \A r \in Sigs : handler'[r] = "caught"
  BY <1>1 DEF Inv, TermInv
<1>3. QED
  BY <1>1, <1>2, OutsideStep DEF Inv, TypeOK

(* Nothing changes. *)
LEMMA StutterStep == Inv /\ UNCHANGED vars => Inv'
<1> SUFFICES ASSUME Inv, UNCHANGED vars PROVE Inv'
  OBVIOUS
<1>1. UNCHANGED <<opts, at, ended, code, depth, fails, handler, sent, pending, uv, hungup, term,
                  attr, mode, minit, dev, loginit, opens>>
  BY DEF vars, exitVars, signalVars, termVars, logVars
<1>2. TypeOK'
  <2>1. minit' \in BOOLEAN /\ (minit' => mode' # "none")
    BY <1>1 DEF Inv, TypeOK
  <2>2. QED
    BY <1>1, <2>1 DEF Inv, TypeOK
<1>3. TermInv'
  BY <1>1 DEF Inv, TermInv, Safe, TerminalRestored
<1>4. LogInv' /\ DepthInv'
  BY <1>1 DEF Inv, LogInv, LogOpenedOnce, DepthInv, ReentryNeedsFailure
<1>5. QED
  BY <1>2, <1>3, <1>4 DEF Inv

-----------------------------------------------------------------------------
(* The invariant is inductive. *)
LEMMA NextInv == Inv /\ [Next]_vars => Inv'
<1> SUFFICES ASSUME Inv, [Next]_vars PROVE Inv'
  OBVIOUS
<1>1. CASE Start
  BY <1>1, LogInitStep, EarlyExitStep, SignalsStep, ShellInitStep, InitFailedStep, RawInitStep,
     CookedInitStep, PortInitStep DEF Start
<1>2. CASE Loop
  BY <1>2, ReconnectStep, CallbackStep, OnSignalStep, InitFailedStep DEF Loop
<1>3. CASE End
  BY <1>3, MessageSteps, ShellCleanupStep, RestoreStep, PortCleanupStep, UvCleanupStep, ExitStep
     DEF End
<1>4. CASE (\E s \in Sigs : Signal(s)) \/ Hangup \/ Stopped \/ UNCHANGED vars
  BY <1>4, SignalStep, HangupStep, StutterStep DEF Stopped
<1>5. QED
  BY <1>1, <1>2, <1>3, <1>4 DEF Next

(* The invariant always holds. *)
LEMMA InvAlways == Spec => []Inv
  BY InitInv, NextInv, PTL DEF Spec

(* Every variable has its type in every nesting of spcom_exit(); a signal  *)
(* that is pending has been sent.                                          *)
THEOREM ExitTypeOK == Spec => []TypeOK
<1>1. Inv => TypeOK
  BY DEF Inv
<1>2. QED
  BY <1>1, InvAlways, PTL

(* Unless the stack runs out, the terminal has its own settings when the   *)
(* process is gone, whatever failed, whenever a first signal came.         *)
THEOREM TerminalAlwaysRestored == Spec => []TerminalRestored
<1>1. Inv => TerminalRestored
  BY DEF Inv, TermInv
<1>2. QED
  BY <1>1, InvAlways, PTL

(* log_vprintf() never opens a log file again that log_cleanup() closed.   *)
THEOREM LogNeverReopened == Spec => []LogOpenedOnce
<1>1. Inv => LogOpenedOnce
  BY DEF Inv, LogInv
<1>2. QED
  BY <1>1, InvAlways, PTL

(* spcom_exit() is entered at most once more than writes fail, so the      *)
(* recursion ends unless writes go on failing.                             *)
THEOREM RecursionIsBounded == Spec => []ReentryNeedsFailure
<1>1. Inv => ReentryNeedsFailure
  BY DEF Inv, DepthInv
<1>2. QED
  BY <1>1, InvAlways, PTL
=============================================================================
