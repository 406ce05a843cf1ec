------------------------------- MODULE Shell -------------------------------
(***************************************************************************)
(* The interactive shell: shell.c, keybind.c and the reading, inserting    *)
(* and writing halves of shell_mode_raw.c and shell_mode_cooked.c.  A key  *)
(* goes through the key bindings to the mode: raw enqueues it, cooked      *)
(* gives it to readline, which edits a line and enqueues it when it is     *)
(* accepted.  In between the port takes operations off the queue and the   *)
(* program writes on the terminal, over the line being edited.             *)
(***************************************************************************)
EXTENDS Naturals, Sequences, SequencesExt

CONSTANTS Keys,       \* what may be typed; the names below have a meaning
          QueueSize,  \* operations that opq_rt has room for
          MaxKeys,    \* bound: keys typed
          MaxWrites   \* bound: writes on the terminal

None == "none"

ASSUME ShellAssumption ==
  Keys \subseteq STRING /\ None \notin Keys /\ QueueSize \in Nat \ {0}

VARIABLES
  cooked, sticky,  \* options
  kb_state,        \* struct keybind_state: _seq0 (None for 0) and cache
  rl,              \* readline: rl_line_buffer and rl_point
  blocked,         \* readline waits for the terminal itself
  sigint,          \* the terminal has sent SIGINT
  queue, sent,     \* operations in opq_rt, and those the port has taken
  exit,            \* "no", or why the program ends
  typed, writes    \* history: the keys; how often the terminal was written to

options == <<cooked, sticky>>
vars == <<options, kb_state, rl, blocked, sigint, queue, sent, exit, typed, writes>>

Op(op, data) == [op |-> op, data |-> data]

Init ==
  /\ cooked \in BOOLEAN /\ sticky \in BOOLEAN
  /\ kb_state = [seq0 |-> None, cache |-> None]
  /\ rl = [line |-> <<>>, point |-> 0] /\ blocked = FALSE /\ sigint = FALSE
  /\ queue = <<>> /\ sent = <<>> /\ exit = "no" /\ typed = <<>> /\ writes = 0

-----------------------------------------------------------------------------
(* keybind.c: a table of single keys and one of sequences of two keys.     *)

NoBindings == [ckey_tbl |-> {}, seq0_tbl |-> {}, seq1_tbl |-> {}, map |-> <<>>, seq_map |-> <<>>]

(* The number of elements of map and of seq_map. *)
MaxBindings == 16

kb_add_action(kbm, key, action) ==
  IF key \in kbm.seq0_tbl \/ Len(kbm.map) = MaxBindings THEN kbm
  ELSE [kbm EXCEPT !.map = Append(@, [key |-> key, action |-> action]),
                   !.ckey_tbl = @ \cup {key}]

(* A key that leads one sequence cannot lead a second one. *)
kb_seq_add_action(kbm, ctlkey, followk, action) ==
  IF ctlkey \in kbm.ckey_tbl \/ Len(kbm.seq_map) = MaxBindings THEN kbm
  ELSE [kbm EXCEPT !.seq_map = Append(@, [key |-> <<ctlkey, followk>>, action |-> action]),
                   !.ckey_tbl = @ \cup {ctlkey}, !.seq0_tbl = @ \cup {ctlkey},
                   !.seq1_tbl = @ \cup {followk}]

(* keybind_post_parse(): --bind is not implemented, these are all there are. *)
keybind_map ==
  LET exits == kb_add_action(kb_add_action(NoBindings, "C-c", "EXIT"), "C-d", "EXIT")
  IN  kb_seq_add_action(kb_add_action(exits, "C-b", "TOG_CMD_MODE"), "C-a", "c", "TOG_CMD_MODE")

(* kb_get_action(), kb_seq_get_action(): the first entry for the key. *)
ActionOf(table, key) ==
  LET at == {i \in DOMAIN table : table[i].key = key}
  IN  IF at = {} THEN "NONE"
      ELSE table[CHOOSE i \in at : \A j \in at : i <= j].action

(* Regression: the first key is not forgotten when both are flushed. *)
keybind_eval_KeepSeq0(seq0, key) ==
  IF seq0 # None THEN
    IF key \notin keybind_map.seq1_tbl THEN [action |-> "UNCACHE", seq0 |-> seq0]
    ELSE [action |-> ActionOf(keybind_map.seq_map, <<seq0, key>>), seq0 |-> seq0]
  ELSE IF key \in keybind_map.seq0_tbl THEN [action |-> "CACHE", seq0 |-> key]
  ELSE IF key \in keybind_map.ckey_tbl
       THEN [action |-> ActionOf(keybind_map.map, key), seq0 |-> None]
  ELSE [action |-> "PUTC", seq0 |-> None]

(* keybind_eval(): the action and the _seq0 it leaves.  A complete sequence *)
(* leaves _seq0 as it is.                                                   *)
keybind_eval(seq0, key) ==
  IF seq0 # None THEN
    IF key \notin keybind_map.seq1_tbl THEN [action |-> "UNCACHE", seq0 |-> None]
    ELSE [action |-> ActionOf(keybind_map.seq_map, <<seq0, key>>), seq0 |-> seq0]
  ELSE IF key \in keybind_map.seq0_tbl THEN [action |-> "CACHE", seq0 |-> key]
  ELSE IF key \in keybind_map.ckey_tbl
       THEN [action |-> ActionOf(keybind_map.map, key), seq0 |-> None]
  ELSE [action |-> "PUTC", seq0 |-> None]

-----------------------------------------------------------------------------
(* The modes.  m is what a handler has done so far: the state of readline, *)
(* the operations enqueued, and whether readline waits for a key.          *)

Start == [rl |-> rl, ops |-> <<>>, blocked |-> FALSE]

(* sh_raw_insertchar(); the local echo is left out. *)
sh_raw_insertchar(m, c) == [m EXCEPT !.ops = Append(@, Op("PUTC", c))]

(* _on_rl_line(): an empty line is freed and only its end is sent.         *)
on_rl_line(line) ==
  (IF line = <<>> THEN <<>> ELSE <<Op("WRITE", line)>>) \o <<Op("PUT_EOL", 1)>>

(* What readline does with a key: it accepts the line, edits it, or moves  *)
(* in it; C-d on an empty line calls _on_rl_line(NULL), which only logs.   *)
rl_key(m, c) ==
  LET line == m.rl.line
      point == m.rl.point
      moved(p) == [m EXCEPT !.rl.point = p]
      deleted(p) == [m EXCEPT !.rl = [line |-> RemoveAt(line, p), point |-> p - 1]]
  IN  CASE c = "RET" -> [m EXCEPT !.rl = [line |-> <<>>, point |-> 0], !.ops = @ \o on_rl_line(line)]
        [] c = "C-a" -> moved(0)
        [] c = "C-e" -> moved(Len(line))
        [] c = "C-b" -> IF point > 0 THEN moved(point - 1) ELSE m
        [] c = "DEL" -> IF point > 0 THEN deleted(point) ELSE m
        [] c = "C-d" -> IF point < Len(line) THEN deleted(point + 1) ELSE m
        [] c = "NUL" -> m
        [] OTHER -> [m EXCEPT !.rl = [line |-> InsertAt(line, point + 1, c), point |-> point + 1]]

(* Regression: rl_pending_input is not set. *)
cooked_insertchar_NoPending(m, c) == [m EXCEPT !.blocked = TRUE]

(* sh_cooked_insertchar(): a rl_pending_input of 0 means that none is pending. *)
sh_cooked_insertchar(m, c) == IF c = "NUL" THEN [m EXCEPT !.blocked = TRUE] ELSE rl_key(m, c)

insert(m, c) == IF cooked THEN sh_cooked_insertchar(m, c) ELSE sh_raw_insertchar(m, c)

(* Regression: the queue is not asked whether it is full. *)
enqueue_NoCheck(ops) == queue' = queue \o ops /\ UNCHANGED exit

(* opq_enqueue_val(), opq_enqueue_write(): a full queue fails an assertion. *)
enqueue(ops) ==
  IF Len(queue) + Len(ops) <= QueueSize
  THEN queue' = queue \o ops /\ UNCHANGED exit
  ELSE queue' = queue \o SubSeq(ops, 1, QueueSize - Len(queue)) /\ exit' = "assert_full"

Finish(m) == rl' = m.rl /\ blocked' = m.blocked /\ enqueue(m.ops)

-----------------------------------------------------------------------------
(* stdin.                                                                  *)

Running == exit = "no"

(* The terminal makes a signal of C-c, unless uv_tty_set_mode() made it raw. *)
Arrives(c) == ~(cooked /\ c = "C-c")

Leave(why) == exit' = why /\ UNCHANGED <<rl, blocked, queue>>

(* Regression: a completed sequence empties the cache but leaves _seq0, and *)
(* with nothing cached nothing is flushed.                                  *)
read_char_EmptyCache(c) ==
  LET e == keybind_eval(kb_state.seq0, c)
      idle == UNCHANGED <<rl, blocked, queue, exit>>
  IN  /\ kb_state' = [seq0 |-> e.seq0,
                      cache |-> IF e.action = "CACHE" THEN c
                                ELSE IF e.action = "TOG_CMD_MODE" THEN None ELSE kb_state.cache]
      /\ \/ e.action = "PUTC" /\ Finish(insert(Start, c))
         \/ /\ e.action = "UNCACHE"
            /\ IF kb_state.cache = None THEN idle ELSE Finish(insert(insert(Start, kb_state.cache), c))
         \/ e.action = "EXIT" /\ Leave("user key")
         \/ e.action \in {"CACHE", "TOG_CMD_MODE", "NONE"} /\ idle

(* The switch of _stdin_read_char(); what is not implemented only logs. *)
read_char(c) ==
  LET e == keybind_eval(kb_state.seq0, c)
  IN  /\ kb_state' = [seq0 |-> e.seq0, cache |-> IF e.action = "CACHE" THEN c ELSE kb_state.cache]
      /\ \/ e.action = "PUTC" /\ Finish(insert(Start, c))
         \/ e.action = "UNCACHE" /\ Finish(insert(insert(Start, kb_state.cache), c))
         \/ e.action = "EXIT" /\ Leave("user key")
         \/ e.action \in {"CACHE", "TOG_CMD_MODE", "NONE"} /\ UNCHANGED <<rl, blocked, queue, exit>>

(* _stdin_read_char(): a char is signed, so that 0xFF read in raw mode is EOF. *)
stdin_read_char(c) ==
  /\ Running /\ ~blocked /\ Len(typed) < MaxKeys /\ Arrives(c)
  /\ typed' = Append(typed, c)
  /\ IF c = "0xFF" /\ ~cooked THEN Leave("stdin EOF") /\ UNCHANGED kb_state ELSE read_char(c)
  /\ UNCHANGED <<options, sigint, sent, writes>>

(* The key that readline waits for does not pass the key bindings. *)
rl_read_key(c) ==
  /\ Running /\ blocked /\ Len(typed) < MaxKeys /\ Arrives(c)
  /\ typed' = Append(typed, c)
  /\ Finish(rl_key(Start, c))
  /\ UNCHANGED <<options, kb_state, sigint, sent, writes>>

(* _on_stdin_data_avail() with an error, and getchar() at the end of stdin; *)
(* other errors are logged.                                                 *)
stdin_ends ==
  /\ Running /\ ~blocked
  /\ \E why \in {"stdin EOF", "stdin EBADF"} : Leave(why)
  /\ UNCHANGED <<options, kb_state, sigint, sent, typed, writes>>

(* C-c in cooked mode: a signal, which the loop answers when it runs. *)
interrupt ==
  /\ Running /\ cooked /\ sigint' = TRUE
  /\ UNCHANGED <<options, kb_state, rl, blocked, queue, sent, exit, typed, writes>>

on_signal ==
  /\ Running /\ ~blocked /\ sigint /\ Leave("signal")
  /\ UNCHANGED <<options, kb_state, sigint, sent, typed, writes>>

-----------------------------------------------------------------------------
(* The rest of the program: the port takes an operation, or something is   *)
(* written on stdout or stderr.  Both need the loop.                       *)

port_takes ==
  /\ Running /\ ~blocked /\ queue # <<>>
  /\ sent' = Append(sent, Head(queue)) /\ queue' = Tail(queue)
  /\ UNCHANGED <<options, kb_state, rl, blocked, sigint, exit, typed, writes>>

(* rl_replace_line(): the point stays in the line. *)
rl_replace_line(r, text) ==
  [line |-> text, point |-> IF r.point <= Len(text) THEN r.point ELSE Len(text)]

(* Regression: the point is where the last rl_replace_line() left it. *)
cooked_write_NoPoint(r) ==
  IF ~sticky THEN r ELSE rl_replace_line(rl_replace_line(r, <<>>), r.line)

(* sh_cooked_write(): _rl_state_save() and _rl_state_restore() around it. *)
sh_cooked_write(r) ==
  IF ~sticky THEN r
  ELSE [rl_replace_line(rl_replace_line(r, <<>>), r.line) EXCEPT !.point = r.point]

shell_write ==
  /\ Running /\ ~blocked /\ writes < MaxWrites
  /\ writes' = writes + 1
  /\ rl' = IF cooked THEN sh_cooked_write(rl) ELSE rl
  /\ UNCHANGED <<options, kb_state, blocked, sigint, queue, sent, exit, typed>>

Next ==
  \/ \E c \in Keys : stdin_read_char(c) \/ rl_read_key(c)
  \/ stdin_ends \/ interrupt \/ on_signal \/ port_takes \/ shell_write

Spec == Init /\ [][Next]_vars

-----------------------------------------------------------------------------
(* The reference: what the keys mean, from the keys alone.                 *)

(* The i-th key begins a sequence, unless it is the second key of one. *)
Leads(ks) ==
  LET leads[i \in 0..Len(ks)] == i > 0 /\ ks[i] = "C-a" /\ ~leads[i - 1]
  IN  leads

(* The i-th key is the second one of C-a c. *)
Completes(ks, i) == Leads(ks)[i - 1] /\ ks[i] = "c"

(* The keys that the i-th one gives to the mode: none if it may begin a    *)
(* sequence, is bound, or completes C-a c; both keys of a sequence that it *)
(* does not complete.                                                      *)
Given(ks, i) ==
  IF Leads(ks)[i] \/ Completes(ks, i) THEN <<>>
  ELSE IF Leads(ks)[i - 1] THEN <<ks[i - 1], ks[i]>>
  ELSE IF ks[i] \in {"C-b", "C-c", "C-d"} THEN <<>>
  ELSE <<ks[i]>>

Passed(ks) == FlattenSeq([i \in 1..Len(ks) |-> Given(ks, i)])

(* What a mode makes of the keys it is given, when nothing comes between. *)
Untouched == [rl |-> [line |-> <<>>, point |-> 0], ops |-> <<>>, blocked |-> FALSE]

Edited(ks) ==
  LET after[i \in 0..Len(ks)] == IF i = 0 THEN Untouched ELSE insert(after[i - 1], ks[i])
  IN  after[Len(ks)]

(* Readline read no key by itself: all went through the key bindings. *)
NothingHidden == cooked => \A i \in 1..Len(typed) : typed[i] # "NUL"

(* No sequence was completed before the last key, so that _seq0 is not stale. *)
NothingStale == \A i \in 1..Len(typed) - 1 : ~Completes(typed, i)

-----------------------------------------------------------------------------
(* Properties.                                                             *)

Ops == [op : {"PUTC"}, data : Keys] \cup [op : {"WRITE"}, data : Seq(Keys)]
         \cup [op : {"PUT_EOL"}, data : {1}]

(* Every variable has its type and the queue does not outgrow opq_rt: the *)
(* state of shell.c, keybind.c and of readline.                           *)
TypeOK ==
  /\ cooked \in BOOLEAN /\ sticky \in BOOLEAN /\ blocked \in BOOLEAN /\ sigint \in BOOLEAN
  /\ kb_state.seq0 \in Keys \cup {None} /\ kb_state.cache \in Keys \cup {None}
  /\ rl.line \in Seq(Keys) /\ rl.point \in 0..Len(rl.line)
  /\ queue \in Seq(Ops) /\ Len(queue) <= QueueSize /\ sent \in Seq(Ops)
  /\ exit \in {"no", "user key", "signal", "stdin EOF", "stdin EBADF", "assert_full"}
  /\ typed \in Seq(Keys) /\ writes \in Nat

(* What the port is given, and the line being edited with its cursor, are  *)
(* what the keys make when nothing comes between them: whatever was        *)
(* written over the line, whatever the port took meanwhile, and with both  *)
(* keys of a sequence that came to nothing, in order (_stdin_read_char(),  *)
(* sh_cooked_write()).  Up to the first sequence that is completed, after  *)
(* which _seq0 is stale, and unless readline read a key by itself.         *)
SentAsTyped ==
  LET edited == Edited(Passed(typed))
  IN  (NothingHidden /\ NothingStale) =>
        /\ IF exit \in {"no", "user key", "signal"} THEN sent \o queue = edited.ops
           ELSE IsPrefix(sent \o queue, edited.ops)
        /\ exit = "no" => rl = edited.rl

(* The same exit key twice in a row always ends the program: a stale or a  *)
(* started sequence takes the first one, but never the second              *)
(* (keybind_eval()).                                                       *)
TwoExitKeysExit ==
  LET n == Len(typed)
  IN  (NothingHidden /\ n >= 2) =>
        (typed[n] = typed[n - 1] /\ typed[n] \in {"C-c", "C-d"} => exit # "no")

(* A key that may have to be flushed is the one in the cache               *)
(* (K_ACTION_CACHE in _stdin_read_char()).                                 *)
SeqIsCached == kb_state.seq0 # None => kb_state.cache = kb_state.seq0

(* Whenever the event loop stands still inside readline, so that nothing   *)
(* is sent or shown, it is in cooked mode and right after a NUL            *)
(* (sh_cooked_insertchar()).                                               *)
StallsOnlyOnNul == blocked => (cooked /\ typed # <<>> /\ typed[Len(typed)] = "NUL")

(* The keys for which keybind_post_parse() binds something. *)
Bound == {"C-a", "c", "C-b", "C-c", "C-d"}

Only(keys, ks) == FlattenSeq([i \in 1..Len(ks) |-> IF ks[i] \in keys THEN <<ks[i]>> ELSE <<>>])
Data(ops) == [i \in 1..Len(ops) |-> ops[i].data]

(* Of these keys, raw mode sends all that are typed and no other. *)
RawSends(keys) ==
  ~cooked /\ exit # "assert_full" => Only(keys, Data(sent \o queue)) = Only(keys, typed)

(* shell.c:238, raw mode: "all input from stdin is directly sent over      *)
(* serial port": a key bound to nothing is sent once and in order, also as *)
(* the second key of what is no sequence, and after a completed sequence,  *)
(* when _seq0 is stale and every key goes another way; unless the queue    *)
(* had no room.                                                            *)
RawSendsUnbound == RawSends(Keys \ (Bound \cup {"0xFF"}))

(* The same of all keys bound to nothing.  It does not hold: 0xFF is taken *)
(* for the end of stdin.                                                   *)
RawSendsAll == RawSends(Keys \ Bound)
=============================================================================
