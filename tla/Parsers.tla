------------------------------ MODULE Parsers ------------------------------
(***************************************************************************)
(* What the text of an option means: the parsers of port_opts.c, eol.c,    *)
(* charmap.c and cmd.c.                                                    *)
(***************************************************************************)
EXTENDS Text

-----------------------------------------------------------------------------
(* port_opts.c.  A caller that gives no ep wants the end of the text.      *)

Whole(r) == IF ~Failed(r) /\ r.ep # <<>> THEN Error("EENDC") ELSE r

(* Regression: 0 and negative numbers are speeds. *)
parse_baud_AnyNumber(s) == strto_i(s, 10)

port_opts_parse_baud(s) ==
  LET r == strto_i(s, 10) IN IF ~Failed(r) /\ r.val <= 0 THEN Error("ERANGE") ELSE r

Digit(s, min, max) ==
  IF s # <<>> /\ s[1] \in DOMAIN Decimal /\ Decimal[s[1]] \in min..max
  THEN Value(Decimal[s[1]], Tail(s)) ELSE Error("ERANGE")

port_opts_parse_databits(s) == Digit(s, 5, 9)
port_opts_parse_stopbits(s) == Digit(s, 1, 2)

port_opts_parse_parity(s) ==
  IF s # <<>> /\ Upper(s[1]) \in {"E", "O", "N", "M", "S"}
  THEN Value(Upper(s[1]), Tail(s)) ELSE Error("EINVAL")

(* The words of flowcontrol_map, and their values. *)
flowcontrol_words == <<"none", "rtscts", "dtrdsr", "xonxoff", "xonxoff-tx", "xonxoff-out",
                       "xonxoff-rx", "xonxoff-in">>
flowcontrol_values == <<"NONE", "RTSCTS", "DTRDSR", "XONXOFF", "TX_ONLY", "TX_ONLY",
                        "RX_ONLY", "RX_ONLY">>

port_opts_parse_flowcontrol(s) ==
  LET i == IndexOf(s, flowcontrol_words)
  IN  IF i = 0 THEN Error("ENOENT") ELSE Value(flowcontrol_values[i], <<>>)

-----------------------------------------------------------------------------
(* eol.c: an end of line of one byte, of two in order, or of either of two. *)

NoEol == [match |-> "none", c_a |-> 0, c_b |-> 0]
DefaultEol == [match |-> "a", c_a |-> 10, c_b |-> 0]

(* _eol_opt_parse_next() *)
EolByte(s) ==
  IF s = <<>> THEN Error("EINVAL")
  ELSE CASE Upper(s[1]) = "LF" -> Value(10, Tail(s))
         [] Upper(s[1]) = "CR" -> Value(13, Tail(s))
         [] s[1] = "0x" -> strto_u8(Tail(s))
         [] OTHER -> Error("EINVAL")

(* _eol_opt_parse_str(): what has been read stays when the rest is wrong.  *)
eol_opt_parse_str(s, es) ==
  LET a == EolByte(s)
      one == [es EXCEPT !.c_a = a.val]
      delim == ~Failed(a) /\ a.ep # <<>> /\ a.ep[1] \in {",", "|"}
      two == [one EXCEPT !.match = IF At(a.ep, "|") THEN "a_or_b" ELSE "ab"]
      b == EolByte(IF delim THEN Tail(a.ep) ELSE a.ep)
  IN  IF Failed(a) THEN [err |-> TRUE, es |-> es]
      ELSE IF a.ep = <<>> THEN [err |-> FALSE, es |-> [one EXCEPT !.match = "a"]]
      ELSE IF Failed(b) THEN [err |-> TRUE, es |-> two]
      ELSE [err |-> b.ep # <<>>, es |-> [two EXCEPT !.c_b = b.val]]

-----------------------------------------------------------------------------
(* charmap.c: a map is a function on the characters that were set; the map *)
(* of the others is 0, to which the table is initialised.                  *)

UCHAR_MAX == 255

ascii_cntrl_names ==
  <<"NUL", "SOH", "STX", "ETX", "EOT", "ENQ", "ACK", "BEL", "BS", "HT", "LF", "VT", "FF", "CR",
    "SO", "SI", "DLE", "DC1", "DC2", "DC3", "DC4", "NAK", "SYN", "ETB", "CAN", "EM", "SUB",
    "ESC", "FS", "GS", "RS", "US">>

cntrl_strtoval(s) ==
  LET i == IndexOf(s, ascii_cntrl_names)
  IN  IF i > 0 THEN Value(i - 1, <<>>)
      ELSE IF IndexOf(s, <<"DEL">>) > 0 THEN Value(127, <<>>) ELSE Error("-1")

(* Numbers from UCHAR_MAX + 1 on stand for groups, and for representations. *)
CHARMAP_GROUP_CNTRL == 256
CHARMAP_GROUP_NONPRINT == 257
CHARMAP_REPR_IGNORE == 257
CHARMAP_REPR_HEX == 258

is_in_group(c, groupid) ==
  IF groupid = CHARMAP_GROUP_CNTRL THEN c \in 0..31 \cup {127} ELSE c \notin 32..126

group_words == <<"cntrl", "ctrl", "nonprint", "nisprint">>
group_ids == <<CHARMAP_GROUP_CNTRL, CHARMAP_GROUP_CNTRL, CHARMAP_GROUP_NONPRINT, CHARMAP_GROUP_NONPRINT>>
crepr_words == <<"hex", "none", "ignore">>
crepr_ids == <<CHARMAP_REPR_HEX, CHARMAP_REPR_IGNORE, CHARMAP_REPR_IGNORE>>

(* A byte in base 16, else a name, else a word of the list: FF is 255. *)
ByteNameOrWord(s, words, ids) ==
  LET byte == Ended(strto_u8(s))
      named == cntrl_strtoval(s)
      i == IndexOf(s, words)
  IN  IF ~Failed(byte) THEN byte
      ELSE IF ~Failed(named) THEN named
      ELSE IF i > 0 THEN Value(ids[i], <<>>) ELSE Error("EINVAL")

charmap_opt_parse_group(s) == ByteNameOrWord(s, group_words, group_ids)

(* A text in quotes is never found: str_isquoted() looks behind its end. *)
charmap_opt_parse_repr(s) == ByteNameOrWord(s, crepr_words, crepr_ids)

(* Regression: a character that is UCHAR_MAX is taken for a group. *)
IsChar_BelowMax(key) == key < UCHAR_MAX

(* charmap_set_group_repr(): the key is a single character. *)
IsChar(key) == key <= UCHAR_MAX

(* The entry of c in the table of the map. *)
mapped(map, c, repr) == [x \in DOMAIN map \cup {c} |-> IF x = c THEN repr ELSE map[x]]

(* A group starts the loop over all characters. *)
charmap_set_group_repr(m, key, repr) ==
  IF Failed(key) \/ Failed(repr) THEN [m EXCEPT !.st = "failed"]
  ELSE IF IsChar(key.val) THEN [m EXCEPT !.cm = mapped(@, key.val, repr.val)]
  ELSE [m EXCEPT !.st = "looping", !.loop = [group |-> key.val, repr |-> repr.val, c |-> 0]]

(* charmap_set(): nothing more is set behind the first error. *)
charmap_set(m, kv) ==
  IF m.st # "ok" THEN m
  ELSE charmap_set_group_repr(m, charmap_opt_parse_group(kv[1]), charmap_opt_parse_repr(kv[2]))

(* The number of pairs that charmap_parse_opts() has room for. *)
MaxPairs == 32

NoLoop == [group |-> 0, repr |-> 0, c |-> 0]

(* charmap_parse_opts(): all pairs are split before the first one is set. *)
charmap_parse_opts(cm, s) ==
  LET items == Pieces(s, ",")
      pairs == [i \in DOMAIN items |-> str_split_kv(items[i])]
      start == [st |-> "ok", cm |-> cm, loop |-> NoLoop]
      after[i \in 0..Len(items)] ==
        IF i = 0 THEN start ELSE charmap_set(after[i - 1], pairs[i])
  IN  IF <<>> \in ToSet(pairs) \/ Len(items) > MaxPairs THEN [start EXCEPT !.st = "failed"]
      ELSE after[Len(items)]

-----------------------------------------------------------------------------
(* cmd.c: the commands, and what they do to the queue they are given.      *)

cmd_names == {"help", "baud", "flush", "drain", "break", "rts", "cts", "dtr", "dsr", "parity",
              "send", "flow", "sleep", "exit"}

(* _cmd_send(): the text itself is not sent yet. *)
cmd_send(args) ==
  LET words == {a[1] : a \in {b \in ToSet(args) : b # <<>>}}
      texts == {a \in ToSet(args) : a = <<>> \/ a[1] \notin {"-n", "-e", "-x", "-h", "-q"}}
  IN  IF "-q" \in words \/ ("-e" \in words /\ words \cap {"-x", "-h"} # {}) \/ texts = {}
      THEN [st |-> "failed", ops |-> <<>>]
      ELSE [st |-> "ok", ops |-> IF "-n" \in words THEN <<>> ELSE <<"PUT_EOL">>]

(* The callbacks of the other commands only log. *)
callback(name, args) ==
  LET done(ops) == [st |-> "ok", ops |-> ops]
  IN  CASE name = "flush" -> done(<<"FLUSH">>)
        [] name = "drain" -> done(<<"DRAIN">>)
        [] name = "send" -> cmd_send(args)
        [] name = "exit" -> [st |-> "exit", ops |-> <<>>]
        [] OTHER -> done(<<>>)

(* The name of the command is one word of the list; 32 words are too many. *)
cmd_call(args) ==
  IF args = <<>> \/ Len(args) > 31 \/ args[1] \notin {<<name>> : name \in cmd_names}
  THEN [st |-> "failed", ops |-> <<>>]
  ELSE callback(args[1][1], Tail(args))

cmd_parse(s) == cmd_call(str_split_quoted(s))
=============================================================================
