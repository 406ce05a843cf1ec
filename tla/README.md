# A TLA+ model of spcom

spcom is a terminal program for a serial port. It is one process with one
thread: libuv calls back for the port, for stdin, for timers, for a watched
directory and for signals. What is hard to test is therefore not parallelism but
the *order* of callbacks, a device that comes and goes between two system calls,
and handlers that stop in the middle because the one they called closed the port.

## 1. Inventory

| component | files (`src/spcom/src/`) | state it keeps | operations | status |
|---|---|---|---|---|
| operation queue | `opq.c` | ring of 64 slots, `wridx`, `rdidx`, the free callback | enqueue a write (owning a heap line) or a value, acquire head, release head, release all | modelled: `Opq` |
| serial port | `port.c` | `state`, `port`, `current_op`, `offset`, prepare/poll/sleep handles, the saved settings of the device | init, open, close, prepare, readable, writable, sleep done, panic and recover | modelled: `Port` |
| port wait | `port_wait.c` | directory watch, permission timer | start, directory event, permission timeout | modelled: `Port` |
| piped input | `inpipe.c` | the stream, one static buffer | read, end of input, write done | modelled: `Inpipe` |
| output formatter, end of line | `outfmt.c`, `eol.c`, `strbuf.c` | `prev_c`, `had_eol`, `last_c_flushed`, `color_is_on`, a 1024 byte buffer | write, end line, flush; match | modelled: `Outfmt` |
| shell and key bindings | `shell.c`, `shell_mode_raw.c`, `shell_mode_cooked.c`, `keybind.c` | mode, `_seq0`, the readline line and cursor, the saved termios | key, line, output during editing, init, cleanup | modelled: `Shell`; its init and cleanup in `Exit`, what its lines put on the queue of the port in `Port!Enqueue` |
| program start and end | `main.c`, `timeout.c`, `log.c`, `assert.c`, `common.c` | cleanup flags, exit code, log file, signal and timeout handles | init, log, `spcom_exit`, cleanup, signal, timeout | modelled: `Exit`; what the exit shows: `Outfmt!spcom_exit` |
| options | `opt.c`, `opt_argviter.c`, `btree.c`, `opt_parse.c`, `main_opts.c` and the `*_opts_conf` of the others | the tree of option names, the iterator, the settings | fill the tree, take the next option and its value, parse it, finish a section | modelled: `Btree`, `Argv`, `Options`; what it promises: `Spelling` |
| character maps | `charmap.c`, `ctohex.c` | map of 256 characters, the format of a shown byte | parse, remap | modelled: `Parsers`, `Options`, shown in `Outfmt` |
| strings and numbers | `str.c`, `str_split_quoted.c`, `strto.c` | none | split, convert with range checks | partly: what the options use, `Text` |
| port options, port list | `port_opts.c`, `port_info.c` | option values | convert, list | partly: the parsers, in `Parsers` and `Options` |
| commands | `cmd.c` | none | enqueue on `opq_oo`, which nothing reads | modelled: `Parsers`, `Options` |
| error names, version, diagnostics | `misc.c`, `strerrorname_np.c`, `termios_debug.c` | none | tables, formatting | not modelled |
| not built | `shell_mode_cmd.c`, `opt_cfgfile.c` | | | absent from `CMakeLists.txt` |

### How they interact

```
 stdin ──> shell or inpipe ──opq_enqueue_*──> opq_rt ──acquire/release──> port ──> device
              ^                                  │                         │  ^
              └──── free callback: free the line │                         │  └─ port_wait: watch the
                    or read the pipe again <─────┘                         v     directory, open again
                                                                 outfmt ──> terminal
```

* `shell.c` (a terminal) or `inpipe.c` (a pipe) enqueues on `opq_rt`; each
  registers a callback that `opq_release_head()` makes for a `WRITE` it releases.
* `_on_prepare()` loads the head of the queue before the loop polls, `_on_writable()`
  executes it, `op_done()` releases it; `SLEEP` is released by a timer.
* Any failure goes through `PORT_PANIC`: without `--stay` the program exits,
  with it `port_close()` throws the queue away and `port_wait_start()` watches
  the directory; the watch calls `port_open()`.
* Any failed assertion, of any module, calls `spcom_exit()`, which does not return: it
  writes to the terminal and the log and cleans up the shell (the terminal's
  settings), the port, the loop and the log. Each of these may fail an assertion
  in its turn and so call `spcom_exit()` again, above the first call on the stack.
* Everything read goes through `outfmt_write()`. `spcom_exit()` calls
  `outfmt_endline()` so that its message starts a line of its own.
* Every file that has options registers a table of them in a linker section.
  `opt_parse_args()` fills its tree from all of them, in the order of the linker,
  hands every option of the command line to the parser its table names, and lets each
  section finish. All of it happens before the loop starts. What other modules
  take as constants comes from here: `Stay => Wait` in `Port`, the ends of line and
  maps of `Outfmt`, the mode of `Shell`.

No compiled code enqueues `SLEEP`, `EXIT` or the control operations on `opq_rt`;
`port.c` implements them all the same and they are modelled.

### What is hard, and the properties it calls for

| component | hard part | properties |
|---|---|---|
| queue | unsigned wrap-around; each line freed once on each path out of the queue | `ImplementsFifo`, `OccupiedIffQueued`, `OwnedOnce` |
| port | an operation loaded, executed, released in three phases, with a close possible in each; partial writes; a sleep timer that outlives its operation; the read half of an event closing the port under the write half | `CurrentIsHead`, `OffsetInside`, `SleepIsCurrent`, `WireInOrder`, `AssertionsHold`, `QueueDrains`, `StaySurvivesErrors` |
| wait | the device changing between `access()`, `sp_open()` and the start of the watch; a timer that outlives the device; settings saved at each opening and put back at each close, which may fail | `OpenXorWatching`, `PermissionOnlyWatching`, `SettingsRestored`, `ReopensOnEvent`, `PermissionWaitEnds`, `StayOutlivesDevice`, `DeviceGetsOpened` |
| pipe | one static buffer queued by reference; reading resumed only from a callback that must come on every path | `BufferIntact`, `ReadsUnlessQueued`, `PipeResumes`, `PipeNeverOverflows`, `ClosedAfterAllSent` |
| formatter | an end of line split over two reads or two buffers; timestamps, mapped characters and colors at the end of a nearly full buffer; the last character shown | `ShowsEverything`, `StampsEveryLine`, `ShowsUnnamed`, `NeverOverruns`, `MessageOnItsOwnLine` |
| shell | key sequences begun, completed and abandoned, and a `_seq0` that outlives its sequence; line and cursor saved around output; a NUL that stops the loop; 0xFF taken for EOF | `SentAsTyped`, `TwoExitKeysExit`, `StallsOnlyOnNul`, `RawSendsUnbound`, `RawSendsAll` |
| options | a tree filled in any order with names that begin alike; an iterator that carries half an element over to the next call; options that depend on one another in any order; a value that is wrong in its last part; a loop over an `unsigned char` | `LookupIsExact`, `ParsedAsMeant`, `SpecificEolWins`, `ReadsAWord`, `AllOrNothing`, `ParsingAdvances`, `SendsTheEolNamed` |
| start and end | signals between any two steps; a failing write inside the exit, so that the cleanup starts over; the log used before its start and after its end; a terminal that hangs up | `TerminalRestored`, `LogOpenedOnce`, `ReentryNeedsFailure`, `NoRecursionLoop`, `DeviceRestored` |

`PROJECT.json` lists every hazard with its line and the properties that cover it.

## 2. Modules

| module | what | relation |
|---|---|---|
| `OpFifo` | abstract: a bounded FIFO that owns the lines in it and aborts rather than lose one | |
| `Opq` | the ring of `opq.c` | implements `OpFifo` (`ImplementsFifo`) |
| `Port` | `port.c`, `port_wait.c`, the loop, the device | uses the FIFO as its queue |
| `Inpipe` | `inpipe.c` | extends and composes with `Port` |
| `Outfmt` | `outfmt.c`, `eol_match()`, strbuf | on its own: it only takes bytes |
| `Exit` | `main.c`, `log.c`, the init and cleanup of shell and port | on its own: the loop is reduced to what ends it and what changes the settings to restore |
| `Shell` | `shell.c`, `keybind.c`, the two modes | on its own: the port is reduced to what takes operations off the queue |
| `Text` | the string and number functions | pure operators |
| `Parsers` | the parsers of option values | pure operators, over `Text` |
| `Btree`, `Argv` | `btree.c`, `opt_argviter.c` | pure operators |
| `Options` | `opt.c`, `opt_parse.c`, all tables of options, what the sections do at the end | extends `Btree`, `Argv`, `Parsers` |
| `Spelling` | abstract: a command line as a row of words, each in one of its spellings | extends `Options`, for its tables and parsers; the proofs show that `Options` reads what `Spelling` spells, and nothing else |
| `MCOpq`, `MCPort`, `MCInpipe`, `MCOutfmt`, `MCExit`, `MCShell`, `MCOptions` | instances for TLC | |
| `Recursion` | lemmas about induction, recursive functions and sequences | extended by the three modules of proofs that need them |
| `OpqProofs`, `PortProofs`, `InpipeProofs`, `OutfmtProofs`, `ExitProofs`, `ShellProofs`, `OptionsProofs` | proofs | each extends the module it is about |

An operator named `X_Something` under the comment "Regression:" is the plausible
bug that the property it belongs to rejects; no specification uses it.

### `Opq`

`items`, `wridx`, `rdidx` are the struct's. `Word` and `U16` are the numbers of
values of an `unsigned int` and of a `uint16_t`, so that `wridx - rdidx` wraps and
a line's length is narrowed as in C. `live` holds the lines `malloc` returned and
nobody has freed; `aborted` is a failed assertion. One action each for
`opq_enqueue_val`, `opq_enqueue_write` (with the caller's `malloc`),
`opq_release_head` and `opq_release_all`. The refinement mapping reads the queue
off the ring from `rdidx` on, `Size - 1` operations at most.

### `Port`

`state`, `port`, `current`, `offset` are `port_data`'s fields; `prepare`, `t_sleep`, `poll`, `fsev`,
`perm` tell which libuv handles are active. `phase`, `polled` and `evw` are the loop: timers,
prepare, poll. A handler is one action (`port_init`, `port_open`, `wait_start`,
`on_dir_entry_change`, `permission_timeout`, `on_sleep_done`, `on_prepare`, `poll_event`,
`on_writable`), split only between two system calls when the device may change there: `pc = "open"`
or `"wait"` is the rest of the handler, still to run before anything else in the program. `evw` is
the second half of `_uvcb_poll_event()`. The device acts by itself (`Plug`, `Grant`, `Unplug`, and
`Touch`, any other directory event of its file); `hung` says that the open descriptor belongs to a
device that is gone even if a new one has its name. `exit` is why the process has ended: an exit of
its own, `"assert_..."` for a failed assertion, `"uv"` for a loop that libuv aborts because a closed
descriptor is polled.

`settings` are those the device has, `"org"` its own and `"usr"` those of spcom; `saved` is
`org_config`, set by `configure` in `port_open()` and used up by `restore_config` in
`port_close()`. `sp_set_config()` may fail in the latter, always when `hung` and with
`Transient` at any time; that is only logged. `unrestored` remembers that it has failed on a
device that was there, for the properties.

The bytes of an operation are a number; `wire` records which byte of which
operation the device has accepted, and `dropped` and `done` how an operation
left the queue. These are history, for the properties.

### `Inpipe`

`reading` is the stream started or stopped, `buf` the number of the `WRITE` whose
bytes the static buffer holds. `uvcb_read` is `_uvcb_read()` with a chunk and
`uvcb_read_eof` at the end. `on_port_write_done` is the queue's callback and is
part of every step of the port that removes a `WRITE` from the queue, by
execution or by `port_close()`. A chunk that is only a newline fails
`assert(size)`; no documented promise says otherwise, so it is in the model and
no property forbids it.

### `Outfmt`

`o` is `outfmt_data` with the characters and length of its buffer, `term` what is on the terminal.
`outfmt_write` is the whole function: the first timestamp, the loop (`write_chars`, a recursive
function that applies `write_char` to one character after the other), and the flush at the end.
`make_space` is the flush that `STRBUF_MAKE_SPACE` and its equals make when the buffer is nearly
full, `strbuf_write` the copy of a color code, which writes the whole code before it flushes a
buffer that it did not fit. What it writes behind the end of the buffer lands in memory of which the
model knows nothing, and is kept as `overrun` only. A map is a function on the characters its option
has set; with a map on, `charmap_remap` gives NUL for all others, as the tables of the code are zero
there. The reference shows a character as the comment of the tables says (`charmap.c:40`: what is
not remapped stands for itself), and `MappedAsSaid` are the characters for which the two agree:
those a map names, except one above 127 that is named as itself, which gets a color.
`ShowsEverything` is about input of these. Characters are signed as on x86, and `Byte` is the
unsigned character that indexes a map. `Screen` and `StampedScreen` are the reference: what the
whole input looks like, computed from `input` alone with no buffer and no state; `WithoutStamps`
takes the timestamps off a screen. Some things the code does, kept as is: a character held as the
possible first half of an end of line is lost when an ignored `CR` follows it; as `CR` is always
ignored, `--eol-rx CR` never matches; `outfmt_data.linebufed` is never set, so `--eol-rx-timeout`
never starts and every write ends in a flush. A flush of a full buffer reads the byte after it for
`last_c_flushed` (`BEYOND`). A received character of 128 or more is a negative `prev_c`, which
`outfmt_write()` takes for "no character yet", so that `--timestamp` stamps the middle of a line
(`outfmt.c:183`); `StampsEveryLine` is about 7 bit input.

### `Exit`

`at` is the step that comes next, from `log_init()` in `main()` to `exit()`; a step ends
where a signal, a hang-up or an error can make a difference. A call of
`spcom_exit()` adds one to `depth` and starts at `endline`; as it never returns,
where it was called from is not kept. `MaxDepth` calls exhaust the stack
(`ended = "overflow"`). `write_all_or_die(there)`, `log_init(there)` and
`log_vprintf(level, there)` are what they do before the program goes on `there`, or
enter `spcom_exit()`. `handler` is whether libuv catches a signal or its
default action kills, which is so before `init_signals`, for a signal that
`_uvcb_on_signal()` has taken (`uv_signal_stop()`), and after `main_uv_cleanup`.
`term` is whose settings the terminal has, `attr`, `mode`, `minit` are the flags of
`shell.c` and of the mode by which the cleanup decides what to undo. Inside the
loop, `reconnect` changes the settings of the device, `callback_exits` is every
callback that exits, `on_signal` stops the loop. A terminal that hangs up makes
every later call on it fail; each failure is logged and the cleanup goes on.

### `Shell`

`kb_state` is the struct of that name, `rl` the line and point of readline. A key
(`stdin_read_char`) goes through `keybind_eval` and the switch of
`_stdin_read_char()`; what reaches the mode is inserted there: `sh_raw_insertchar`
enqueues it, `sh_cooked_insertchar` gives it to readline (`rl_key`, external, for the
keys of the instance). A handler collects the operations it enqueues; `enqueue` puts
them on the queue or fails the assertion of `opq.c` at the first one without room.
`keybind_map` is the table as `keybind_post_parse()` builds it, through the
functions that add to it. `blocked` is readline reading the terminal itself, after a
NUL: nothing of the loop runs until a key comes (`rl_read_key`), and that key goes
past the key bindings. `port_takes` and `shell_write` are the rest of the program;
`sh_cooked_write` replaces the line by nothing and puts it and the point back.
`Leads`, `Completes`, `Given` are the reference: which key begins or completes a sequence
and what each key gives to the mode, from the keys alone; `Passed` is all of that in
order and `Edited` what a mode makes of it when nothing comes between. `RawSends(keys)` is a
second reference, for raw mode and for what the first leaves out, the keys after a completed
sequence: whatever the key bindings do, each of these keys is sent once and in order.

### `Btree`, `Argv`, `Text`, `Parsers`, `Options`, `Spelling`

Text is a sequence of tokens, each standing for the characters that no function of the code
takes apart: `<<"b", "aud", "rate">>` is `baudrate`, because `b` is an option of its own and
`baud` an alias. A token that reads as a number has its value in `Decimal` or `Hexadecimal`;
`Tokens` is the order of `strcmp()` on names. What the models take from these constants is
assumed by name: names are made of tokens, and none of them is a blank, which
`btree_find()` takes for the end (`TokensAssumption`, `NamesAssumption`); numbers are integers
(`NumbersAssumption`); a command line is a sequence of elements, each of tokens
(`LinesAssumption`); an order has every section once (`OptionsAssumption`).

* `Btree`: a node is a record of the name, what it stands for, and its two
  children; `btree_add_node` and `btree_find` walk down by recursive functions, and `add_leaf` is
  the node that the former hangs where its way ends.
* `Argv`: the iterator as a record: element `argi`, the rest of it `sp`, its
  number of dashes. `opt_argviter_getkey` and `opt_argviter_getval` are the two calls.
* `Text` has `strto_i`, `strto_u8`, `str_split_kv`, `qtok`, the other splitting functions and the
  lookup in lists of words; `Parsers` the values: ends of line, maps, speeds, `9600/8N1`, commands.
* `Options` has the tables of all files (`Tables`). `sections` is the
  order of the linker. `opt_init_cb_addtobtree` adds one option to the tree; `main`
  receives a command line; `opt_conf_parse_val` is one round of the loop of
  `opt_parse_args()`, the option, its value, and the parser; `bad_arg` the ways a round
  fails; `group_loop` the loop of `charmap_set_group_repr()`, one action per
  round because it does not end; `post_parse` what one section does at the
  end. A command line is paired with what it means (`sets`) or the statement that
  it is wrong (`bad`), both written down in `MCOptions` from what the help of the
  options says of its parts; `Meant` puts the parts of a line together.
* `Spelling` has no variables and no steps. It says what a user writes: a word is an option of the
  tables, the name it is called by and its value; `Spells(w, b, a)` says that `b` is left of the
  command line before the word `w` and `a` behind it, in one of the spellings: `--key=val`, `--key val`,
  `-kval`, `-k val`, letters joined behind one dash, a flag with a `=` and a text that is
  dropped, the positionals in the order of their numbers. A reading (`Reading`) is a row of
  such words from the start of a command line on, with the settings their parsers make one
  after the other; it is whole (`WholeReading`) when nothing is left, or `--`, or when its
  last word leaves the program. Of an element that is no word nothing is said: it is
  part of no reading.

## 3. Runs

| run | question | bounds | states |
|---|---|---|---|
| `opq` | does the ring implement a FIFO that frees each line once? | 4 slots, 16-value indices, 2-bit sizes, 4 lines | 2,072 |
| `port_stay` | do the safety properties hold with every operation, failures with the device present, and the device coming and going? | queue of 3, 4 operations, 4 device changes | 2,423,913 |
| `port_live` | is what is queued executed, a returning device opened, the wait for access to a device that stays ended? | queue of 2, 3 operations, 3 device changes, character delay on | 14,652 |
| `inpipe` | is the buffer kept, reading resumed, the queue never full? | chunks of 1 and 2 bytes, 4 operations, 2 changes | 33,371 |
| `outfmt` | does the terminal show the input, wherever reads cut it? | 5 characters of 4 kinds, buffer of 6, 4 ends of line, 3 maps, with and without timestamps and colors | 482,473 |
| `exit` | is the terminal restored and the log kept however the program ends? | 2 signals, 3 failing writes, a stack of 5 exits, every combination of options | 166,264 |
| `shell` | is what is sent what was typed, also after a completed sequence, and do two exit keys end the program? | 4 keys out of 10, queue of 3, 1 write over the line, both modes | 382,480 |
| `options` | does the program do what its command line means, or refuse it? | the lines described below, two orders of the sections | 238,132 |
| `stay_errors`, `reopen`, `stay_noperm`, `exit_log` | the disagreements of section 6 | as the run they belong to; `stay_noperm` without operations, `exit_log` without failing writes | |

Why the bounds are enough. *Queue*: four slots are the smallest ring in which both
indices wrap with two operations between them; a length of 4 narrows to 0. *Port*: 4
operations fill a queue of 3, so the full queue is reached; a line of two bytes is
cut by a partial write, an error or a close in its middle; four changes of the
device are denied, granted, gone, back, and a closed port is opened again by an event that
changes nothing. Nothing in the code counts beyond one
operation or one device change. *Formatter*: a buffer of 6 with a reserve of 5 for a
mapped character, 4 for a timestamp and color codes of 4 and 3 gets full within the
input; every pair of adjacent characters of the four kinds occurs, cut at every place,
which is all that a matcher with one character of memory can tell apart. The
four kinds are the two of an end of line, one printable, one above 127; the maps name
characters of each kind, one map every kind.

*Start and end*: three failing writes enter `spcom_exit()` up to four times, so a
cleanup that failed anywhere is repeated, and fails again; more of the same adds
nothing, because nothing counts the repetitions. `MaxFails < MaxDepth - 1`, so only a
log file that cannot be opened exhausts the stack in `exit`. (If stdout or
stderr fails for good, so does the program: each exit fails in its first write. The bound
on failures leaves that out.)

*Shell*: `keybind_eval()` remembers one key, so four keys are enough to begin a
sequence, complete it, use the stale `_seq0` that this leaves, and see the key after.
The keys are all that are bound and one each of what the modes tell
apart: ordinary, edited with, accepting, NUL, 0xFF. A queue of 3 is full within them.
A write saves and restores the line in one handler, so one write meets every line.

*Options*: every option alone and every pair of options, in every spelling (each of its
names, `=` or a second element, short, short with the value joined), flags joined
in front of another option, three options that depend on one another, positionals before,
between and behind the rest, 36 wrong elements and 3 without their value, alone and next
to a right one, and lines of what is special to one option. The iterator and the parsers
keep nothing of an option behind the next one, except the settings, whose
combinations the pairs and triples are. The tree is filled in two orders, that of
`CMakeLists.txt` and the reverse, and looked up in after every insertion. Numbers stand
for their kind: in range, at its edges, too large, none.

`CHECK_DEADLOCK FALSE` is used for `opq`, `outfmt`, `shell` and `options`, which stop at an abort,
an exit or the end of the parsing, and at the bound of the input; in `Port` and `Exit` the end of
the process is an explicit stutter (`Stopped`) and any other deadlock is an error.

### Fairness

`Loop` is weakly fair: the program's own steps are taken, as `uv_run()` loops
without end. The rest is strong fairness of single callbacks, because each is
enabled only in one phase of the loop: level-triggered epoll reports a writable or
hung up descriptor in every iteration until it is served; an expired timer
is served at the next iteration; a queued directory event is delivered. Of the
device it is assumed that one that stays connected eventually accepts a byte. No
fairness is assumed of the user, of stdin, or of the device coming, going or
granting access. That parsing ends needs no fairness: `ParsingAdvances` says that every
option takes something off the command line.

## 4. Proofs

`tlapm` checks all of this for every value of the constants that satisfies the
`ASSUME`s of the modules (sizes positive, `Size` divides `Word`, `Stay => Wait`,
`Inputs` are sequences of operations, keys are strings, a mapped character, a timestamp and
a color fit into an empty buffer, maps and ends of line are of bytes, and those of the
command line in section 2); TLC evaluates the assumptions in the runs.

* **`OpqProofs`**. `Inv` is `TypeOK`, `OccupiedIffQueued` and `OwnedOnce`: the first two
  are needed to know that an enqueue lands on a cleared slot, which is what makes
  the third inductive. `LenIsDistance` turns the wrapping subtraction into the
  distance on the ring (here `Size` divides `Word` is used); `RegionGrows` and
  `RegionShrinks` say how the occupied region changes. From them `OpqInvariant`,
  `OpqTypeOK`, `OccupiedAreQueued`, `LinesOwnedOnce`, and `OpqImplementsFifo`: an enqueue appends to the
  contents, a release takes their head, a release of all empties them.
* **`PortProofs`**. None of the properties is inductive. `IInv` adds to `TypeOK` what holds *inside*
  handlers: `Modes` relates `pc`, `phase` and `state` to the handles that are active, of which
  `OpenXorWatching` is the part visible between callbacks. With `CurrentIsHead`, `SleepIsCurrent`,
  `OffsetInside`, `SettingsRestored` and `AssertionsHold` it is inductive; there is a lemma per
  action, and `CloseStep`, `PanicStep` and `OpDoneStep` for what handlers share.
  `SettingsAlwaysRestored` has the failing `sp_set_config()` in it: it says that nothing *else*
  loses the settings of a device. That an opening then saves the wrong ones is section 6.
  `WireAlwaysInOrder` needs `WInv` on top: the numbers in the queue increase and exceed those on the
  wire (`IdsInOrder`), and the last byte on the wire and the next one to be sent fit (`WireJoins`).
* **`InpipeProofs`**. `AllInv` is `IInv`, `WInv` and `PipeInv`, whose part `PipeShape`
  says which queues a pipe can produce: nothing, an end of line, a write, a write
  and its end of line, or those behind an end of line. It gives that the queue never
  holds more than three operations (`PipeAlwaysFits`), that the buffer is intact
  (`PipeBufferIntact`) and that the stream is stopped exactly while a `WRITE` is
  queued (`PipeReadsUnlessQueued`). `PipeWireInOrder` carries `WireInOrder` over to
  the composition.

* **`ExitProofs`**. For any set of signals, any size of the stack and any number of failing
  writes. `TermInv` says where in the program the terminal can have which
  settings: its own before a mode is initialised and after `shell_restore_term`, and
  elsewhere a saved copy of them (`attr`) and a caught signal for every one not
  yet sent; that is what makes a signal harmless at every step. `LogInv`
  says that the log, once closed, is closed for good: while the process runs, a
  log that is not initialised has never been opened. `DepthInv` bounds the depth of
  `spcom_exit()` by the failures so far and puts it at 0 until the end begins. Every
  step of the program either goes on or enters `spcom_exit()` (`Goes`,
  `Leads`), so the lemmas `GoesLeads` and `LeadsInv` carry most of each step.
  `ExitTypeOK`, `TerminalAlwaysRestored`, `LogNeverReopened`, `RecursionIsBounded`.

* **`Recursion`**. The induction theorems of the library take the hypothesis as an operator,
  which no backend can instantiate. Here it is a *set*, that of the numbers for which
  the hypothesis holds: `Induction`, `InductionUpTo`, `SeqInduction` for sequences,
  `ChainInduction` for the nodes of a structure on their way to its end. In the same way a step
  of a recursion is a function in `RecursionExists` and `ChainExists`, which say that a
  recursive function exists and obeys its equation; each use turns the definition of a
  function of the model into such an equation. The `Flatten` lemmas are about
  `FlattenSeq`.

* **`OutfmtProofs`**. For any input, cut anywhere, any size of the buffer, end of line, map and
  color. `Out(s)` is what is on the terminal and in the buffer, so that a flush does not change it
  (`FlushShows`), and `Extends(t, s, str)` says that a step has put exactly `str` behind it. There
  is a lemma of this form for each function of the buffer (`PutcShows`, `PrintShows`,
  `StrbufWriteShows`, `RemapShows`), and `strbuf_write()` is one of them although it copies behind
  the end of the buffer. From them `WriteCharShows`: one round of the loop shows the timestamp that
  is due, and `Echo(prev_c, c)`. `EchoIsDisplayed` says that this is what the reference displays at
  this place, if `prev_c` is the character before; `ScreenGrows` that the reference grows by it. The
  induction over a chunk is `WriteCharsKeeps`. `OutfmtInv` is then what holds between two calls: the
  buffer is empty, `prev_c` and `had_eol` are those of the input so far (`Follows`), and the
  terminal shows it. `OutfmtInvariant`, `OutfmtShowsEverything`, `OutfmtStampsEveryLine`, and
  `OutfmtTypeOK`: without colors nothing is written behind the end of the buffer, and with or
  without them nothing is read from there. With colors something is (section 6); what that destroys
  is outside the model, so the theorems say what is shown as long as it destroys nothing that is
  shown.

* **`ShellProofs`**. For any set of keys, any size of the queue, any number of keys and
  writes. `Inv` is `Typing` (the types, and `SeqIsCached`), `StallsOnlyOnNul`,
  `NoSequence` and `TwoExitKeysExit`. `NoSequence` is what `TwoExitKeysExit` rests on and
  the code says nowhere: unless readline has read a key by itself, no first key of a
  sequence is waiting right after an exit key that did not end the program, because
  an exit key is second in no sequence and so clears `_seq0`. `Tables` computes the
  bindings once, `Evaluates` what `keybind_eval()` makes of every key. `ShellTypeOK`,
  `StallsNeedNul`, `SecondExitKeyExits`, `FlushesTheLeader`.

  `SendsWhatIsTyped` needs `OrderInv` on top, whose part `Synced` ties the state to the keys: until
  a sequence has been completed, `_seq0` is set exactly behind a key that leads one. `LeadsAppend`,
  `PassedAppend` and `EditedAppend` say how the reference grows by a key; `InsertFollows` that a
  mode, which starts with operations already queued, adds what it adds in the reference;
  `ReferenceStep` and `ReadCharAs` that a key makes of both the same line and the same operations.
  `RawSendsPlainKeys` (`RawSendsUnbound`) is a third part of `OrderInv`, and has no such limit: it
  follows the single keys that raw mode must send through every path of `_stdin_read_char()`
  (`RawOrder`), stale `_seq0` included.

* **`OptionsProofs`**. For any command lines and any order of the sections. First, `Inv` has a
  part for each of the four things `opt_parse_args()` keeps, and one for the end:

  * `TreeInv`. `TreeBy` gives every node the set `reach[n]` of the names whose way from the
    root leads through it. What hangs at one side of a node is reached by exactly those that turn to
    this side, so there is one way for a name, and `btree_add_node()` ends at the only
    node where the new name can hang (`LastOnTheWay`, `LaterNode`). `btree_find()` takes a
    name for another that begins with it, and then goes on to the right. It
    is exact all the same (`FindExact`), because the longer name also *compares* as
    more (`LongerIsMore`). Every option is added once, as no two entries of the tables are the same
    (`MarksDiffer`), and a name that is there already ends the program. `LookupAlwaysExact`.
  * `PositionalsInv` and `IteratorInv`: the iterator stays on the command line. `LeftOf`
    measures what is left behind it, of elements and tokens; the key of an option takes
    something off (`GetKey`), its value takes no more than is there (`GetVal`).
    `ParsingAlwaysAdvances`; that only a group of characters starts the endless loop comes
    from `SetType`, which follows a map through its pairs.
  * `SettingsInv`: a parser leaves every setting with its type (`ParseAnswers`), and when it
    refuses the value it leaves the speed and the bits alone (`Plain`, `BaudDpsPlain`, which
    is about the parser that stores up to four settings from one value). `OptionsTypeOK`,
    `RefusedLeavesTheLine`.
  * `FinishInv`: `port_opts` is still among the sections to finish (`Pending`) or has made
    `--stay` imply `--wait` (`Applied`), and no other section's end touches either.
    `StayAlwaysWaits` is what `Port` assumes. `SpecificEolDecides` is proved the same way
    from `EolInv`: the option of a direction decides its end of line, and `--eol` where
    there is none, whatever came first.

  Then the program is compared with `Spelling`, both ways. One round of the loop:

  * `EveryWordIsRead`: an option that is parsed, with its value, is the word that stands next,
    and what is left is what stands behind it; so no element is read twice and none is passed
    over, although half an element is carried over to the next call. The option is the one
    called by a name of its own, which needs `WordsInv`: while the line is read every name
    leads to its option, and the positionals are listed in the order of their numbers (`Numbered`).
    `KeyFinds` says what the iterator has found in what was left, `WordRead` that this is a
    word. The word is called by its name or by one with a blank and more behind it
    (`CallsLoosely`), as `btree_find()` ends a name at a blank.
  * `Follows`: conversely, when a word called by its name comes next, in any spelling, the
    program finds this option, with this value (`WordFound`, `LookupExactly`,
    `PositionalExactly`).

  And a whole command line:

  * `WordsAreAlwaysRead`: a row of words is never refused. The program ends as the last
    word says, or with the settings that the parsers and then the sections make. `AlongInv`
    says where in the reading the program is. It also needs that the program does not end before it
    has seen the line: that no name is given twice, every option has a name or a number, and
    there are fewer options than `OPT_MAX_COUNT` (`NamesDiffer`, `FewOptions`, `FillsInv`).
    The sections finish in the order of the linker: each changes settings of its own
    and none that another looks at (`Finishes`), so in every order
    the result is that of one order (`FinishedIs`), when each does it once (`OrderInv`).
  * `NothingButWordsIsRead`: when `opt_parse_args()` returns, there is such a reading of the
    line. `WordsOnly` builds it word by word (`ReadsOneMore`).
  * `MeantIsParsed`, `MeantEolIsUsed`: `ParsedAsMeant` and `SpecificEolWins` for every command line
    whose words set what it is said to mean, or which is said to be wrong and is no row of words
    (`LineIsMeant`). A hypothesis of this kind is needed, as `sets` and `bad` are written down
    beside a line and an arbitrary pair of them is false. It concerns the line alone and not the
    program: neither the tree, the iterator and the order of the options nor that of the sections
    occur in it, and these are what the two theorems settle. The run `options` ends, for each right
    line that does not leave the program, with the settings meant, and `NothingButWordsIsRead` gives
    the reading that sets them; no name in them has a blank.

Only model-checked:

* all liveness, as fairness and `ENABLED` are out of the prover's reach;
* that the words of the lines of `MCOptions` set what is written down beside them
  (`LineIsMeant`): what a parser makes of one value, `9600/8n1` or `cr|lf`, is computed by TLC
  and not proved, except for its type and what it leaves alone. `ParsedAsMeant` and
  `SpecificEolWins` rest on it, and are theorems under it.

## 5. Not modelled

* `port_info.c`, which prints what libudev and libserialport report; the names of errors,
  the version and the diagnostics of `misc.c`, `strerrorname_np.c` and `termios_debug.c`: tables
  and formatting without state.
* `shell_mode_cmd.c` and `opt_cfgfile.c` are not built. `TOG_CMD_MODE`, the action of two
  bindings, only logs.
* Wording and layout of messages, help, lists of completions, the local echo of raw mode.
  Readline is reduced to the keys of the instance: accept, start, end, back, delete,
  insert.
* `str_escape_nonprint()`, `strbuf_printf()` (used by the log only), `strto_d()` and the helpers
  without a caller.
* Maps of strings in quotes: they are never recognised (section 6), so what they would be
  stored in is unreachable. The map of sent characters is built and read by nobody.
* `port_write()`, `port_drain()` and the other synchronous calls: compiled out or
  `return -1`. `opq_reset()` has no caller.
* `opq_oo`: `--cmd` fills it and nothing drains it.
* Reinitialisation of handles by `uv_poll_init()` and `uv_prepare_init()` at each
  reconnection (`port.c:531`): a matter of libuv's internals.
* Signals other than `SIGINT` and `SIGTERM`. The program catches no other: `SIGHUP`,
  `SIGQUIT` and `SIGPIPE` end it without any cleanup. A second `SIGINT` after the first
  has been taken is in the model (`killed_again`) and does the same;
  `TerminalRestored` excludes it.
* libuv, libserialport and the kernel are modelled from how the code uses them:
  `sp_nonblocking_write()` accepts any part of what is left, or none; it and
  `sp_nonblocking_read()` fail when the device is gone, and, in runs with
  `Transient`, also when it is not.

## 6. Disagreements found

Four have a run that TLC ends with a counterexample.

| run | what the code does | what it says |
|---|---|---|
| `stay_errors` | `_uvcb_poll_event()` writes after its read has closed the port; `_tx_stop()` polls a closed descriptor | `--stay`: "will never exit if the serial port disappears" (`port_opts.c:460`) |
| `reopen` | the watch starts without looking for a device that is already there; it is never opened | "check port exists, if not wait for it" (`port.c:134`) |
| `stay_noperm` | the permission timer runs on when the device has disappeared again, and ends the program | `--stay`: "will never exit if the serial port disappears and wait for it to reappear instead" (`port_opts.c:460`) |
| `exit_log` | `log_init()` exits through `spcom_exit()` when the log file cannot be opened; that logs, which calls `log_init()` again, until the stack is used up | "log module should not use log itself [...] as exit handler might call log_printf() resulting in recursion loop" (`log.c:17`) |

The following are stated as a property that no run checks, as it does not hold:

| property | what the code does | what it says |
|---|---|---|
| `Inpipe!ClosedAfterAllSent` | at the end of a pipe the program exits with the last end of line unsent | "until all data sent to serial port" (`inpipe.c:60`) |
| `Outfmt!MessageOnItsOwnLine` | `last_c_flushed` is taken from the wrong index, so the exit message may follow on the last line | "ensure exit message(s) on separate line" (`main.c:88`) |
| `Exit!DeviceRestored` | only `port_close()` puts the settings of the device back, and the cleanup does not call it | "any assert failure will trigger cleanup - no need to do it here" (`port.c:495`) |
| `Port!SavesTheDefaults` | when `sp_set_config()` fails in a close of a device that stays, the settings of spcom are saved as the device's own at the next opening | "get os defualts. must be _after_ open" (`port.c:515`), for `port_close()` to restore |
| `Outfmt!ShowsUnnamed` | nothing fills the table with its indices: with a map on, a character that it does not name is shown as NUL | "map initalized to its index" (`charmap.c:40`) |
| `Outfmt!NeverOverruns` | `strbuf_write()` writes a color code that does not fit behind the end of the buffer | the callback may "write data in buf to file and set len=0" (`strbuf.h:16`), after which only the rest is to be copied |
| `Shell!RawSendsAll` | the byte 0xFF in raw mode ends the program as if stdin had ended (`shell_mode_raw.c:115`) | "all input from stdin is directly sent over serial port" (`shell.c:239`) |
| `Options!SendsTheEolNamed` | `eol_seq_cpy()` copies its first byte twice, so an `--eol` of `crlf` is sent as two `CR` | "send (transmit) eol used after new line detected on stdin" (`eol.c:231`) |

The others are in the models as the code has them, and the properties of the passing runs
are stated with them in mind:

* `keybind.c:152`: a completed sequence leaves `_seq0` set, so that the next keys are taken
  for second ones: after `C-a c`, a first `C-c` is inserted. `SentAsTyped` is stated up to there,
  `RawSendsUnbound` also behind it.
* `shell_mode_cooked.c:205`: a NUL in cooked mode makes readline wait for the terminal;
  the loop stands still, and the next key goes past the key bindings.
* `charmap.c:289`: a map that names a group of characters never ends; `charmap.c:324`: a string in
  quotes is never recognised, though `charmap.c:386` gives one as an example (no line of
  `MCOptions` has one, so nothing is said of what it should do); `charmap.c:303`: the control
  name `FF` is the byte 255.
* `eol.c:127`: `0x130x10` is refused, though `eol.c:169` gives it as an example.
* `strto.h:119`: `strto_ui()` refuses what is above 255. No option uses it.

Met while modelling, where the repository promises nothing else: with
`--stay`, input typed while the device is away fills the queue, whose assertion
ends the program (`opq.c:85`, `exit = "assert_full"` in `Port`); the `=` and the value that
follow a flag are dropped, so `--wait=0` waits (`opt_argviter.c`).

## 7. Plan

Done, in this order, the most important behaviour first: `Opq` and `OpFifo`, `Port`,
their proofs, `Inpipe` and its proofs, `Outfmt`, `Exit` and its proofs; then maps and colors
in `Outfmt`, `Shell` and its proofs, `Btree`, `Argv`, `Text`, `Parsers`, `Options` and the proof
that `--stay` implies `--wait`; then `Recursion` and with it the proofs about `Outfmt`, what
`Shell` sends, and the rest of `Options`; last `Spelling`, and that the program reads it.

What would come next:

1. `Shell` composed with `Port`, as `Inpipe` is: now its queue is drained by one action.
2. What each parser makes of a value, as a function of its text, so that the hypothesis of
   `MeantIsParsed` can be proved of a line and not only checked.
