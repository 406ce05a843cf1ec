------------------------------- MODULE Outfmt -------------------------------
(***************************************************************************)
(* outfmt.c, strbuf.c and the half of eol.c and charmap.c that is used     *)
(* once the options are read: what the port reads is shown on the          *)
(* terminal.  Ends of line become newlines, characters are remapped, lines *)
(* may get a timestamp.  Everything goes through a strbuf of BufSize       *)
(* characters; outfmt_data.linebufed is never set by the program, so every *)
(* outfmt_write() ends with a flush.  A character is a signed char, as on  *)
(* x86.                                                                    *)
(***************************************************************************)
EXTENDS Integers, Sequences, SequencesExt

CONSTANTS BufSize,    \* capacity of outfmt_strbuf (1024)
          ReprSize,   \* CHARMAP_REPR_BUF_SIZE
          StampSize,  \* STR_ISO8601_SHORT_SIZE
          StampLen,   \* characters of a timestamp
          RedLen,     \* characters of VT_COLOR_RED
          OffLen,     \* characters of VT_COLOR_OFF
          EolOpts,    \* values of --eol-rx: records of match_func, c_a, c_b
          Charmaps,   \* values of --map-rxc: whether it is given, and the bytes it sets
          Chunks,     \* what one read of the port returns
          MaxInput    \* bound: characters received

LF == 10
CR == 13              \* _eol_opts.ignore, which no option changes
STAMP == 1000         \* a character of a timestamp
MESSAGE == 1001       \* the exit message on the terminal
BEYOND == 1002        \* what is in memory after the buffer; a flush of a full one reads it
VT_COLOR_RED == [k \in 1..RedLen |-> 1100 + k]
VT_COLOR_OFF == [k \in 1..OffLen |-> 1200 + k]

UCHAR_MAX == 255
CHARMAP_REPR_IGNORE == 257
CHARMAP_REPR_HEX == 258

ASSUME OutfmtAssumption ==
  /\ BufSize \in Nat /\ ReprSize \in 1..BufSize /\ StampSize \in 1..BufSize
  /\ StampLen \in 1..(StampSize - 1)
  /\ \A e \in EolOpts : e.match_func \in {"a", "ab", "a_or_b"} /\ {e.c_a, e.c_b} \subseteq 0..255
  /\ {RedLen, OffLen} \subseteq 1..BufSize /\ ReprSize > 4
  /\ \A m \in Charmaps :
       /\ m.on \in BOOLEAN /\ DOMAIN m.map \subseteq 0..UCHAR_MAX
       /\ \A c \in DOMAIN m.map :
            m.map[c] \in (0..UCHAR_MAX) \cup {CHARMAP_REPR_IGNORE, CHARMAP_REPR_HEX}
  /\ Chunks \subseteq Seq(-128..127)

VARIABLES eol_rx, charmap_rx, timestamp, color,    \* options
          o,       \* outfmt_data (prev_c, had_eol, last_c_flushed) and its strbuf (buf, len);
           \* overrun: something has been written behind the end of buf
          term,    \* characters on the terminal
          input,   \* everything received
          exiting

options == <<eol_rx, charmap_rx, timestamp, color>>
vars == <<options, o, term, input, exiting>>

(* Handlers work on the output state joined with the terminal. *)
State == [buf |-> o.buf, len |-> o.len, overrun |-> o.overrun, prev_c |-> o.prev_c,
          had_eol |-> o.had_eol, last_c_flushed |-> o.last_c_flushed, term |-> term]

Init ==
  /\ eol_rx \in EolOpts /\ charmap_rx \in Charmaps /\ timestamp \in BOOLEAN
  /\ color \in BOOLEAN
  /\ o = [buf |-> [i \in 0..(BufSize - 1) |-> 0], len |-> 0,
          overrun |-> FALSE, prev_c |-> -1, had_eol |-> FALSE, last_c_flushed |-> 0]
  /\ term = <<>> /\ input = <<>> /\ exiting = FALSE

-----------------------------------------------------------------------------
(* eol.c.                                                                  *)

eol_match_a(es, c) == IF c = es.c_a THEN "MATCH" ELSE "NOMATCH"

(* Regression: a repeated first character is not looked at again. *)
match_ab_NoStash(es, prev, c) ==
  IF prev # es.c_a THEN IF c = es.c_a THEN "STASH" ELSE "NOMATCH"
  ELSE IF c = es.c_b THEN "MATCH" ELSE "POP"

eol_match_ab(es, prev, c) ==
  IF prev # es.c_a THEN IF c = es.c_a THEN "STASH" ELSE "NOMATCH"
  ELSE IF c = es.c_b THEN "MATCH"
  ELSE IF c = es.c_a THEN "POP_AND_STASH" ELSE "POP"

eol_match_a_or_b(es, c) == IF c \in {es.c_a, es.c_b} THEN "MATCH" ELSE "NOMATCH"

eol_match(es, prev, c) ==
  IF c = CR THEN "IGNORE"
  ELSE IF es.match_func = "a" THEN eol_match_a(es, c)
  ELSE IF es.match_func = "ab" THEN eol_match_ab(es, prev, c)
  ELSE eol_match_a_or_b(es, c)

-----------------------------------------------------------------------------
(* charmap.c: a byte that was not set is 0, to which the table is          *)
(* initialised; c is signed, so that one above 127 is always remapped.     *)

Byte(c) == IF c < 0 THEN c + UCHAR_MAX + 1 ELSE c
Char(b) == IF b > 127 THEN b - (UCHAR_MAX + 1) ELSE b

ReprId(c) == IF Byte(c) \in DOMAIN charmap_rx.map THEN charmap_rx.map[Byte(c)] ELSE 0

charmap_repr_type(c) ==
  IF ~charmap_rx.on \/ ReprId(c) = c THEN "NONE"
  ELSE IF ReprId(c) = CHARMAP_REPR_IGNORE THEN "IGNORE"
  ELSE IF ReprId(c) = CHARMAP_REPR_HEX THEN "HEX" ELSE "BASE"

HexDigit(n) == IF n < 10 THEN 48 + n ELSE 55 + n

(* ctohex(): \xHH, unless --hexformat gives another form. *)
ctohex(c) == <<92, 120, HexDigit(Byte(c) \div 16), HexDigit(Byte(c) % 16)>>

charmap_remap(c) ==
  IF ReprId(c) <= UCHAR_MAX THEN <<Char(ReprId(c))>>
  ELSE IF ReprId(c) = CHARMAP_REPR_HEX THEN ctohex(c) ELSE <<>>

-----------------------------------------------------------------------------
(* strbuf.h, strbuf.c and outfmt_strbuf_flush().                           *)

flush(s) ==
  [s EXCEPT !.term = @ \o [k \in 1..s.len |-> IF k <= BufSize THEN s.buf[k - 1] ELSE BEYOND],
            !.last_c_flushed = IF s.len < BufSize THEN s.buf[s.len] ELSE BEYOND,
            !.len = 0]

(* Regression: no look at what remains of the buffer. *)
make_space_Never(s, size) == s

(* Room for size characters: flush when fewer remain.                      *)
make_space(s, size) == IF BufSize - s.len < size /\ s.len > 0 THEN flush(s) ELSE s

(* Copy str to the end of the buffer.  What is copied behind it lands in   *)
(* memory of which nothing is known; here it has no effect but overrun.    *)
copy(s, str) ==
  [s EXCEPT !.buf = [i \in DOMAIN @ |-> IF i - s.len + 1 \in DOMAIN str
                                        THEN str[i - s.len + 1] ELSE @[i]],
            !.overrun = (@ \/ s.len + Len(str) > BufSize)]

append(s, str) == [copy(s, str) EXCEPT !.len = @ + Len(str)]

strbuf_putc(s, c) == append(make_space(s, 1), <<c>>)

(* A string with its NUL, for which there is room. *)
print(s, str) == [append(s, Append(str, 0)) EXCEPT !.len = @ - 1]

(* strbuf_write(): what does not fit is written again after a flush - but  *)
(* all of it is copied each time, so also behind the end of the buffer.    *)
strbuf_write(s, str) ==
  LET chunk == SubSeq(str, 1, BufSize - s.len)
      rest == SubSeq(str, BufSize - s.len + 1, Len(str))
  IN  IF Len(str) <= BufSize - s.len THEN append(s, str)
      ELSE append(flush([copy(s, str) EXCEPT !.len = @ + Len(chunk)]), rest)

print_timestamp(s) ==
  IF timestamp THEN print(make_space(s, StampSize), [k \in 1..StampLen |-> STAMP]) ELSE s

in_color(s, vt) == IF color THEN strbuf_write(s, vt) ELSE s

sb_remap_putc(s, c) ==
  LET type == charmap_repr_type(c)
  IN  IF type = "NONE" THEN strbuf_putc(s, c)
      ELSE IF type = "IGNORE" THEN s
      ELSE in_color(print(make_space(in_color(s, VT_COLOR_RED), ReprSize), charmap_remap(c)),
                    VT_COLOR_OFF)

-----------------------------------------------------------------------------
(* outfmt_write(), outfmt_endline().                                       *)

(* Regression: a line gets its timestamp with its first visible character. *)
write_char_StampLate(s, c) ==
  LET m == eol_match(eol_rx, s.prev_c, c)
      t == IF m = "NOMATCH" /\ s.had_eol THEN [print_timestamp(s) EXCEPT !.had_eol = FALSE] ELSE s
      u == IF m = "NOMATCH" THEN sb_remap_putc(t, c)
           ELSE IF m = "MATCH" THEN strbuf_putc([t EXCEPT !.had_eol = TRUE], LF)
           ELSE IF m = "POP" THEN sb_remap_putc(sb_remap_putc(t, s.prev_c), c)
           ELSE IF m = "POP_AND_STASH" THEN sb_remap_putc(t, s.prev_c)
           ELSE t
  IN  [u EXCEPT !.prev_c = c]

(* One character: the body of the loop of outfmt_write().                  *)
write_char(s, c) ==
  LET m == eol_match(eol_rx, s.prev_c, c)
      t == IF s.had_eol THEN [print_timestamp(s) EXCEPT !.had_eol = FALSE] ELSE s
      u == IF m = "NOMATCH" THEN sb_remap_putc(t, c)
           ELSE IF m = "MATCH" THEN strbuf_putc([t EXCEPT !.had_eol = TRUE], LF)
           ELSE IF m = "POP" THEN sb_remap_putc(sb_remap_putc(t, s.prev_c), c)
           ELSE IF m = "POP_AND_STASH" THEN sb_remap_putc(t, s.prev_c)
           ELSE t                                    \* STASH, IGNORE
  IN  [u EXCEPT !.prev_c = c]

Update(s) == /\ o' = [buf |-> s.buf, len |-> s.len, overrun |-> s.overrun, prev_c |-> s.prev_c,
                      had_eol |-> s.had_eol, last_c_flushed |-> s.last_c_flushed]
             /\ term' = s.term

(* The loop of outfmt_write(). *)
write_chars(first, data) ==
  LET after[k \in 0..Len(data)] ==
        IF k = 0 THEN first ELSE write_char(after[k - 1], data[k])
  IN  after[Len(data)]

outfmt_write(data) ==
  /\ ~exiting /\ data # <<>>
  /\ Len(input) + Len(data) <= MaxInput
  /\ LET first == IF o.prev_c < 0 THEN print_timestamp(State) ELSE State
     IN  Update(flush(write_chars(first, data)))
  /\ input' = input \o data
  /\ UNCHANGED <<options, exiting>>

outfmt_endline(s) ==
  LET t == flush(s)
  IN  IF t.last_c_flushed \in {0, LF} THEN t
      ELSE [t EXCEPT !.term = Append(@, LF), !.last_c_flushed = 0]

(* spcom_exit(): end the line, log the message, and end the line again in  *)
(* main_cleanup().                                                         *)
spcom_exit ==
  /\ ~exiting /\ exiting' = TRUE
  /\ LET s == outfmt_endline(State)
     IN  Update(outfmt_endline([s EXCEPT !.term = @ \o <<MESSAGE, LF>>]))
  /\ UNCHANGED <<options, input>>

Next == (\E data \in Chunks : outfmt_write(data)) \/ spcom_exit

Spec == Init /\ [][Next]_vars

-----------------------------------------------------------------------------
(* The reference: what the whole input looks like, however it arrived.     *)

(* The character of in at k is the last one of an end of line. *)
EndsLine(in, k) ==
  /\ in[k] # CR
  /\ \/ eol_rx.match_func = "a" /\ in[k] = eol_rx.c_a
     \/ eol_rx.match_func = "a_or_b" /\ in[k] \in {eol_rx.c_a, eol_rx.c_b}
     \/ eol_rx.match_func = "ab" /\ in[k] = eol_rx.c_b /\ k > 1 /\ in[k - 1] = eol_rx.c_a

(* The character at k may be the first one of an end of line: it is shown  *)
(* when the next one tells that it is not.                                 *)
Held(in, k) == eol_rx.match_func = "ab" /\ in[k] = eol_rx.c_a

Colored(str) == IF color THEN VT_COLOR_RED \o str \o VT_COLOR_OFF ELSE str

(* charmap.c:40: "map initalized to its index `map[i] = i` then any        *)
(* remapping applied. i.e. remapped if `map[i] != i`".                     *)
Shown(c) ==
  LET repr == IF Byte(c) \in DOMAIN charmap_rx.map THEN charmap_rx.map[Byte(c)] ELSE Byte(c)
  IN  IF ~charmap_rx.on \/ repr = Byte(c) THEN <<c>>
      ELSE IF repr = CHARMAP_REPR_IGNORE THEN <<>>
      ELSE IF repr = CHARMAP_REPR_HEX THEN Colored(ctohex(c))
      ELSE Colored(<<Char(repr)>>)

(* The characters for which the code does as that comment says: not those  *)
(* the map leaves out, which are shown as NUL, nor those above 127 that it *)
(* maps to themselves, which get a color.                                  *)
MappedAsSaid(c) ==
  charmap_rx.on /\ c # 0 =>
    Byte(c) \in DOMAIN charmap_rx.map /\ (c >= 0 \/ charmap_rx.map[Byte(c)] # Byte(c))

AllMappedAsSaid(in) == \A k \in 1..Len(in) : MappedAsSaid(in[k])

Displayed(in, k) ==
  IF EndsLine(in, k) THEN <<LF>>
  ELSE (IF k > 1 /\ Held(in, k - 1) /\ in[k] # CR THEN Shown(in[k - 1]) ELSE <<>>)
    \o (IF Held(in, k) \/ in[k] = CR THEN <<>> ELSE Shown(in[k]))

(* The timestamp before the character at k. *)
Stamp == IF timestamp THEN [j \in 1..StampLen |-> STAMP] ELSE <<>>
StampAt(in, k) == IF k = 1 \/ EndsLine(in, k - 1) THEN Stamp ELSE <<>>

Screen(in) == FlattenSeq([k \in 1..Len(in) |-> Displayed(in, k)])
StampedScreen(in) == FlattenSeq([k \in 1..Len(in) |-> StampAt(in, k) \o Displayed(in, k)])

WithoutStamps(str) ==
  FlattenSeq([k \in 1..Len(str) |-> IF str[k] = STAMP THEN <<>> ELSE <<str[k]>>])

-----------------------------------------------------------------------------
(* What the terminal can get. *)
OutChar ==
  (-128..127) \cup {STAMP, MESSAGE} \cup ToSet(VT_COLOR_RED) \cup ToSet(VT_COLOR_OFF)

(* In particular nothing is written behind the end of the buffer unless   *)
(* there are colors, and no character is ever taken from there.            *)
TypeOK ==
  /\ o.len = 0 /\ DOMAIN o.buf = 0..(BufSize - 1)
  /\ o.overrun \in BOOLEAN /\ (o.overrun => color)
  /\ o.prev_c \in -128..127 /\ o.had_eol \in BOOLEAN
  /\ term \in Seq(OutChar)
  /\ exiting \in BOOLEAN

(* The terminal shows every received character but those of ends of line,  *)
(* the ignored ones, and one held just before an ignored one, in order and *)
(* once, as the map says and with its colors whole, wherever the reads cut *)
(* the input - even in the middle of an end of line - and wherever the     *)
(* buffer got full; for input the code maps as it says it does.            *)
ShowsEverything == ~exiting /\ AllMappedAsSaid(input) => WithoutStamps(term) = Screen(input)

(* The same of all input.  It does not hold: nothing fills the table with  *)
(* its indices, what is not set in it is 0.                                *)
ShowsUnnamed == ~exiting => WithoutStamps(term) = Screen(input)

(* --timestamp: "prepend timestamp on every line" (outfmt.c:284), and only *)
(* there; for input of 7 bit characters, because outfmt_write() takes a    *)
(* negative prev_c for the start of the output.                            *)
StampsEveryLine ==
  ~exiting /\ AllMappedAsSaid(input) /\ (\A k \in 1..Len(input) : input[k] >= 0) =>
    term = StampedScreen(input)

(* Nothing is written behind the end of the buffer.  It does not hold: see *)
(* strbuf_write().                                                         *)
NeverOverruns == ~o.overrun

(* spcom_exit(): "ensure exit message(s) on separate line".  It does not   *)
(* hold: last_c_flushed is not the last character (outfmt_strbuf_flush()). *)
MessageOnItsOwnLine ==
  \A k \in 2..Len(term) : term[k] = MESSAGE => term[k - 1] = LF
=============================================================================
