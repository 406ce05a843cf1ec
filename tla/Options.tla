------------------------------ MODULE Options ------------------------------
(***************************************************************************)
(* The command line: opt.c, opt_parse.c and the tables of options that the *)
(* other files register.  opt_parse_args() first puts every name into a    *)
(* search tree, then takes the elements of the command line one after the  *)
(* other, hands each option and its value to the parser of its table, and  *)
(* lets the sections finish what they have been given.                     *)
(***************************************************************************)
EXTENDS Btree, Argv, Parsers

CONSTANTS
  Orders,      \* orders in which the linker may place the sections
  Lines,       \* command lines: argv, and what it is meant to set, or FALSE
  HexFormats   \* formats with which snprintf() shows the byte 0xAB

VARIABLES
  stage,        \* where opt_parse_args() is, or how it ended
  todo,         \* options to be added to the tree
  sections,     \* sections in their order, then those still to finish
  btree,        \* g_ctx.btree
  positionals,  \* g_ctx.positionals: conf and last
  line,         \* the command line
  itr,          \* the iterator over it
  set,          \* the settings of all modules
  loop          \* charmap_set_group_repr(): the loop over all characters

vars == <<stage, todo, sections, btree, positionals, line, itr, set, loop>>

-----------------------------------------------------------------------------
(* The tables: struct opt_conf of every section.                           *)

Opt(names, parse, dest) == [names |-> names, positional |-> 0, parse |-> parse, dest |-> dest]
Positional(n, parse) == [names |-> <<>>, positional |-> n, parse |-> parse, dest |-> "none"]

port_opts_conf == <<
  Positional(1, "devname"),
  Positional(2, "baud_dps"),
  Opt(<<<<"p", "ort">>, <<"d", "evice">>>>, "devname", "name"),
  Opt(<<<<"b", "aud", "rate">>, <<"b">>, <<"b", "aud">>>>, "baud", "baudrate"),
  Opt(<<<<"d", "atabits">>, <<"d">>>>, "databits", "databits"),
  Opt(<<<<"s", "topbits">>, <<"s">>>>, "stopbits", "stopbits"),
  Opt(<<<<"f", "low">>, <<"f">>, <<"f", "low", "control">>>>, "flowcontrol", "flowcontrol"),
  Opt(<<<<"p", "arity">>, <<"p">>>>, "parity", "parity"),
  Opt(<<<<"c", "har-delay">>>>, "int", "chardelay"),
  Opt(<<<<"w", "ait">>>>, "flag_true", "wait"),
  Opt(<<<<"s", "tay">>>>, "flag_true", "stay")>>

main_opts_conf == <<
  Opt(<<<<"h", "elp">>, <<"h">>>>, "flag_true", "show_help"),
  Opt(<<<<"v", "ersion">>>>, "flag_true", "show_version"),
  Opt(<<<<"l", "ist">>, <<"l">>>>, "flag_true", "show_list"),
  Opt(<<<<"v", "erbose">>, <<"v">>>>, "flag_count", "verbose"),
  Opt(<<<<"a", "utocomplete">>>>, "autocomplete", "none")>>

eol_opts_conf == <<
  Opt(<<<<"e", "ol">>>>, "eol", "eol_txrx"),
  Opt(<<<<"e", "ol", "-tx">>>>, "eol", "eol_tx"),
  Opt(<<<<"e", "ol", "-rx">>>>, "eol", "eol_rx")>>

shell_opts_conf == <<
  Opt(<<<<"c", "ooked">>, <<"C">>, <<"c", "anonical">>>>, "flag_true", "cooked"),
  Opt(<<<<"e", "cho">>, <<"l", "echo">>>>, "flag_true", "local_echo")>>

log_opts_conf == <<
  Opt(<<<<"l", "og", "level">>>>, "int", "level"),
  Opt(<<<<"l", "og", "file">>>>, "str", "file"),
  Opt(<<<<"s", "ilent">>>>, "flag_true", "silent")>>

outfmt_opts_conf == <<
  Opt(<<<<"t", "imestamp">>>>, "flag_true", "timestamp"),
  Opt(<<<<"c", "olor">>>>, "flag_true", "color"),
  Opt(<<<<"e", "ol", "-rx", "-timeout">>>>, "float", "eol_rx_timeout")>>

charmap_opts_conf == <<
  Opt(<<<<"m", "ap-", "txc">>>>, "map", "charmap_tx"),
  Opt(<<<<"m", "ap-", "rxc">>>>, "map", "charmap_rx")>>

ctohex_opts_conf == <<Opt(<<<<"h", "exf", "ormat">>, <<"h", "exf", "mt">>>>, "hexfmt", "hexfmt")>>
cmd_opts_conf == <<Opt(<<<<"c", "md">>, <<"c">>>>, "cmd", "opq_oo")>>
keybind_opts_conf == <<Opt(<<<<"b", "ind">>>>, "bind", "none")>>
timeout_opts_conf == <<Opt(<<<<"t", "imeout">>>>, "int", "timeout")>>
sh_cooked_opts_conf == <<
  Opt(<<<<"s", "ticky">>>>, "flag_true", "sticky"),
  Opt(<<<<"p", "rompt">>>>, "str", "prompt")>>

(* OPT_SECTION_ADD(), by the file that adds the section. *)
Tables ==
  [main_opts |-> main_opts_conf, charmap |-> charmap_opts_conf, cmd |-> cmd_opts_conf,
   ctohex |-> ctohex_opts_conf, eol |-> eol_opts_conf, log |-> log_opts_conf,
   outfmt |-> outfmt_opts_conf, port_opts |-> port_opts_conf, shell |-> shell_opts_conf,
   shell_mode_cooked |-> sh_cooked_opts_conf, keybind |-> keybind_opts_conf,
   timeout |-> timeout_opts_conf]

(* Every section is linked once. *)
ASSUME OptionsAssumption ==
  \A order \in Orders :
    /\ order \in Seq(DOMAIN Tables) /\ DOMAIN Tables \subseteq ToSet(order)
    /\ \A i, j \in DOMAIN order : order[i] = order[j] => i = j

Confs == UNION {ToSet(Tables[s]) : s \in DOMAIN Tables}
AllNames == UNION {ToSet(conf.names) : conf \in Confs}

(* A name is made of the tokens of the tree, and is not empty. *)
ASSUME NamesAssumption == \A conf \in Confs : conf.names \in Seq(Seq(ToSet(Tokens)) \ {<<>>})

(* A command line is a sequence of elements, and an element one of tokens. *)
TokensOf(argv) == UNION {ToSet(argv[i]) : i \in DOMAIN argv}

ASSUME LinesAssumption == \A l \in Lines : l.argv \in Seq(Seq(TokensOf(l.argv)))

(* opt_section_foreach_conf() *)
AllConfs(order) == FlattenSeq([i \in DOMAIN order |-> Tables[order[i]]])

Unset == -1
NoText == <<"NULL">>
NoMap == [on |-> FALSE, map |-> <<>>]

(* The settings before an option has been parsed; eol_tx_used and           *)
(* eol_rx_used are what the pointers eol_tx and eol_rx of eol.c point to.   *)
Defaults ==
  [name |-> NoText, baudrate |-> Unset, databits |-> Unset, stopbits |-> Unset, parity |-> "-1",
   flowcontrol |-> "-1", chardelay |-> 0, wait |-> FALSE, stay |-> FALSE,
   show_help |-> FALSE, show_version |-> FALSE, show_list |-> FALSE, verbose |-> 0,
   eol_txrx |-> NoEol, eol_tx |-> NoEol, eol_rx |-> NoEol,
   eol_tx_used |-> DefaultEol, eol_rx_used |-> DefaultEol,
   cooked |-> FALSE, local_echo |-> FALSE, sticky |-> FALSE, prompt |-> NoText,
   level |-> 3, file |-> NoText, silent |-> FALSE,
   timestamp |-> FALSE, color |-> FALSE, colors_remapped |-> FALSE, eol_rx_timeout |-> 1,
   charmap_tx |-> NoMap, charmap_rx |-> NoMap, hexfmt |-> NoText,
   ctohex_table |-> NoText, opq_oo |-> <<>>, timeout |-> 0]

-----------------------------------------------------------------------------
(* conf->parse(conf, sval): whether it succeeded, and the settings, which  *)
(* some parsers change before they fail.                                   *)

Parsed(st, s) == [st |-> st, set |-> s, loop |-> NoLoop]

(* A value that is stored only when the text is right. *)
Store(r, s, dest) == IF Failed(r) THEN Parsed("failed", s) ELSE Parsed("ok", [s EXCEPT ![dest] = r.val])

(* Regression: the baudrate is stored before the rest has been read. *)
parse_baud_dps_Early(sval, s) ==
  LET b == port_opts_parse_baud(sval)
      d == port_opts_parse_databits(Tail(b.ep))
      p == port_opts_parse_parity(d.ep)
      t == port_opts_parse_stopbits(p.ep)
      early == [s EXCEPT !.baudrate = b.val]
  IN  IF Failed(b) THEN Parsed("failed", s)
      ELSE IF b.ep = <<>> THEN Parsed("ok", early)
      ELSE IF b.ep[1] \notin {"/", ":"} \/ Failed(d) \/ Failed(p) \/ Failed(t) THEN Parsed("failed", early)
      ELSE Parsed("ok", [early EXCEPT !.databits = d.val, !.parity = p.val, !.stopbits = t.val])

(* _parse_cb_baud_dps(): "115200/8N1"; nothing looks behind the last digit. *)
parse_baud_dps(sval, s) ==
  LET b == port_opts_parse_baud(sval)
      d == port_opts_parse_databits(Tail(b.ep))
      p == port_opts_parse_parity(d.ep)
      t == port_opts_parse_stopbits(p.ep)
  IN  IF Failed(b) THEN Parsed("failed", s)
      ELSE IF b.ep = <<>> THEN Parsed("ok", [s EXCEPT !.baudrate = b.val])
      ELSE IF b.ep[1] \notin {"/", ":"} \/ Failed(d) \/ Failed(p) \/ Failed(t) THEN Parsed("failed", s)
      ELSE Parsed("ok", [s EXCEPT !.baudrate = b.val, !.databits = d.val, !.parity = p.val,
                                  !.stopbits = t.val])

(* _parse_cb_parity(): the parity is stored before the end is looked at. *)
parse_parity(sval, s) ==
  LET r == port_opts_parse_parity(sval)
      stored == [s EXCEPT !.parity = r.val]
  IN  IF Failed(r) THEN Parsed("failed", s) ELSE Parsed(IF r.ep = <<>> THEN "ok" ELSE "failed", stored)

parse_eol(sval, s, dest) ==
  LET r == eol_opt_parse_str(sval, s[dest])
  IN  Parsed(IF r.err THEN "failed" ELSE "ok", [s EXCEPT ![dest] = r.es])

(* parse_map_txc(), parse_map_rxc(): the map is switched on when all of it is read. *)
parse_map(sval, s, dest) ==
  LET r == charmap_parse_opts(s[dest].map, sval)
      kept == [s EXCEPT ![dest] = [on |-> @.on \/ r.st = "ok", map |-> r.cm]]
  IN  [Parsed(r.st, kept) EXCEPT !.loop = r.loop]

(* check_valid_hexfmt() *)
parse_hexfmt(sval, s) ==
  IF "*" \notin ToSet(sval) /\ Len(SelectSeq(sval, LAMBDA t : t = "%")) = 1 /\ sval \in HexFormats
  THEN Parsed("ok", [s EXCEPT !.hexfmt = sval]) ELSE Parsed("failed", s)

(* cmd_opt_parse(): the commands of options go to the queue opq_oo. *)
parse_cmd(sval, s) ==
  LET r == cmd_parse(sval) IN Parsed(r.st, [s EXCEPT !.opq_oo = @ \o r.ops])

parse(conf, sval, s) ==
  LET to == conf.dest IN
  CASE conf.parse = "flag_true" -> Parsed("ok", [s EXCEPT ![to] = TRUE])
    [] conf.parse = "flag_count" -> Parsed("ok", [s EXCEPT ![to] = @ + 1])
    [] conf.parse = "int" -> Store(Ended(strto_i(sval, 0)), s, to)
    [] conf.parse = "float" -> Store(Ended(Number(sval, 10)), s, to)
    [] conf.parse = "str" -> Parsed("ok", [s EXCEPT ![to] = sval])
    [] conf.parse = "devname" -> Parsed("ok", [s EXCEPT !.name = sval])
    [] conf.parse = "baud_dps" -> parse_baud_dps(sval, s)
    [] conf.parse = "baud" -> Store(Whole(port_opts_parse_baud(sval)), s, to)
    [] conf.parse = "databits" -> Store(Whole(port_opts_parse_databits(sval)), s, to)
    [] conf.parse = "stopbits" -> Store(Whole(port_opts_parse_stopbits(sval)), s, to)
    [] conf.parse = "flowcontrol" -> Store(port_opts_parse_flowcontrol(sval), s, to)
    [] conf.parse = "parity" -> parse_parity(sval, s)
    [] conf.parse = "eol" -> parse_eol(sval, s, to)
    [] conf.parse = "map" -> parse_map(sval, s, to)
    [] conf.parse = "hexfmt" -> parse_hexfmt(sval, s)
    [] conf.parse = "cmd" -> parse_cmd(sval, s)
    [] conf.parse = "bind" -> Parsed("failed", s)
    [] OTHER -> Parsed("exit", s)  \* "autocomplete"

(* opt_conf_has_val() *)
opt_conf_has_val(conf) == conf.positional = 0 /\ conf.parse \notin {"flag_true", "flag_count"}

-----------------------------------------------------------------------------
(* opt_init()                                                              *)

(* The number of options that opt.c accepts. *)
OPT_MAX_COUNT == 256

opt_init_cb_precheck(conf) == conf.positional # 0 \/ conf.names # <<>>

Init ==
  /\ sections \in Orders
  /\ todo = AllConfs(sections)
  /\ stage = IF (\A conf \in ToSet(todo) : opt_init_cb_precheck(conf)) /\ Len(todo) < OPT_MAX_COUNT
             THEN "init" ELSE "failed"
  /\ btree = EmptyTree /\ positionals = [conf |-> <<>>, last |-> 0]
  /\ line = [argv |-> <<>>, sets |-> <<>>, bad |-> FALSE] /\ itr = opt_argviter_init
  /\ set = Defaults /\ loop = [dest |-> "none", at |-> NoLoop]

(* The name, the short name and the alias. *)
add_names(bt, conf) ==
  LET after[i \in 0..Len(conf.names)] ==
        IF i = 0 THEN bt ELSE btree_add_node(after[i - 1], conf.names[i], conf)
  IN  after[Len(conf.names)]

opt_init_cb_addtobtree ==
  /\ stage = "init" /\ todo # <<>>
  /\ LET conf == Head(todo)
         twice == ToSet(conf.names) \cap DOMAIN btree.node # {}
     IN  /\ stage' = IF twice THEN "failed" ELSE stage
         /\ btree' = add_names(btree, conf)
         /\ positionals' = IF conf.positional = 0 THEN positionals
                           ELSE [positionals EXCEPT !.conf = Append(@, conf)]
  /\ todo' = Tail(todo)
  /\ UNCHANGED <<sections, line, itr, set, loop>>

(* The shell calls the program with a command line. *)
main ==
  /\ stage = "init" /\ todo = <<>>
  /\ line' \in Lines
  /\ stage' = "args"
  /\ UNCHANGED <<todo, sections, btree, positionals, itr, set, loop>>

-----------------------------------------------------------------------------
(* The loop of opt_parse_args().                                           *)

NoConf == [names |-> <<>>, positional |-> 0, parse |-> "none", dest |-> "none"]

opt_lookup(name) ==
  LET found == btree_find(btree, name) IN IF found = NULL THEN NoConf ELSE btree.node[found].data

(* opt_lookup_next_positional() *)
opt_lookup_next_positional ==
  LET later == {i \in DOMAIN positionals.conf : positionals.conf[i].positional > positionals.last}
  IN  IF later = {} THEN NoConf ELSE positionals.conf[CHOOSE i \in later : \A j \in later : i <= j]

(* The next option of the command line, and its value. *)
Key == opt_argviter_getkey(itr, line.argv)
Conf == IF Key.dashes = 0 THEN opt_lookup_next_positional ELSE opt_lookup(Key.name)
Given == IF opt_conf_has_val(Conf) THEN opt_argviter_getval(Key, line.argv) ELSE Key
Sval == IF opt_conf_has_val(Conf) THEN Given.val ELSE Key.name

no_more_args ==
  /\ stage = "args" /\ Key.status = "DONE"
  /\ stage' = "post" /\ itr' = Key
  /\ UNCHANGED <<todo, sections, btree, positionals, line, set, loop>>

(* An element that is no option, an option nobody knows, a value that is   *)
(* missing, a letter to_shortstr() fails an assertion on.                  *)
bad_arg ==
  /\ stage = "args" /\ Key.status # "DONE"
  /\ IF Key.status # "ok" THEN stage' = Key.status
     ELSE IF Conf = NoConf THEN stage' = "ENOENT"
     ELSE Given.status # "ok" /\ stage' = Given.status
  /\ UNCHANGED <<todo, sections, btree, positionals, line, itr, set, loop>>

(* How a parser can stop the parsing. *)
Stops == {"failed", "exit", "looping"}

(* opt_conf_parse_val(): the parser has answered r. *)
Answered(conf, r) ==
  /\ set' = r.set
  /\ stage' = IF r.st \in Stops THEN r.st ELSE "args"
  /\ loop' = [dest |-> conf.dest, at |-> r.loop]

opt_conf_parse_val ==
  /\ stage = "args" /\ Key.status = "ok" /\ Conf # NoConf /\ Given.status = "ok"
  /\ Answered(Conf, parse(Conf, Sval, set))
  /\ itr' = Given
  /\ positionals' = IF Key.dashes = 0 THEN [positionals EXCEPT !.last = Conf.positional]
                    ELSE positionals
  /\ UNCHANGED <<todo, sections, btree, line>>

(* charmap_set_group_repr(): an unsigned char is never above UCHAR_MAX. *)
group_loop ==
  /\ stage = "looping" /\ loop.at.c <= UCHAR_MAX
  /\ set' = IF is_in_group(loop.at.c, loop.at.group)
            THEN [set EXCEPT ![loop.dest].map = mapped(@, loop.at.c, loop.at.repr)] ELSE set
  /\ loop' = [loop EXCEPT !.at.c = (@ + 1) % (UCHAR_MAX + 1)]
  /\ UNCHANGED <<stage, todo, sections, btree, positionals, line, itr>>

-----------------------------------------------------------------------------
(* entry->post_parse()                                                     *)

(* Regression: what is given for both directions comes last. *)
eol_post_parse_GeneralLast(s) ==
  LET used(own, before) ==
        IF s.eol_txrx.match # "none" THEN s.eol_txrx ELSE IF own.match # "none" THEN own ELSE before
  IN  [s EXCEPT !.eol_tx_used = used(s.eol_tx, @), !.eol_rx_used = used(s.eol_rx, @)]

(* eol_opt_post_parse() *)
eol_post_parse(s) ==
  LET used(own, before) ==
        IF own.match # "none" THEN own ELSE IF s.eol_txrx.match # "none" THEN s.eol_txrx ELSE before
  IN  [s EXCEPT !.eol_tx_used = used(s.eol_tx, @), !.eol_rx_used = used(s.eol_rx, @)]

(* Regression: --stay is left to itself. *)
port_post_parse_Nothing(s) == s

port_post_parse(s) == IF s.stay THEN [s EXCEPT !.wait = TRUE] ELSE s

ctohex_post_parse(s) == [s EXCEPT !.ctohex_table = s.hexfmt]

outfmt_post_parse(s) == IF s.color THEN [s EXCEPT !.colors_remapped = TRUE] ELSE s

(* The sections with a post_parse that changes a setting; the others'       *)
(* change nothing here, and for the key bindings see Shell!keybind_map.     *)
PostParsers == {"ctohex", "eol", "outfmt", "port_opts"}

(* The next section that has one finishes. *)
post_parse ==
  /\ stage = "post"
  /\ \E i \in DOMAIN sections :
       /\ sections[i] \in PostParsers /\ \A j \in 1..i - 1 : sections[j] \notin PostParsers
       /\ set' = CASE sections[i] = "eol" -> eol_post_parse(set)
                   [] sections[i] = "port_opts" -> port_post_parse(set)
                   [] sections[i] = "ctohex" -> ctohex_post_parse(set)
                   [] sections[i] = "outfmt" -> outfmt_post_parse(set)
       /\ sections' = SubSeq(sections, i + 1, Len(sections))
  /\ UNCHANGED <<stage, todo, btree, positionals, line, itr, loop>>

opt_parse_args_returns ==
  /\ stage = "post" /\ (\A i \in DOMAIN sections : sections[i] \notin PostParsers)
  /\ stage' = "done"
  /\ UNCHANGED <<todo, sections, btree, positionals, line, itr, set, loop>>

Next ==
  \/ opt_init_cb_addtobtree \/ main \/ no_more_args \/ bad_arg \/ opt_conf_parse_val
  \/ group_loop \/ post_parse \/ opt_parse_args_returns

Spec == Init /\ [][Next]_vars

-----------------------------------------------------------------------------
(* The reference: line.sets has, for each option of a command line, the    *)
(* settings it is meant to change.                                         *)

About(d) == SelectSeq(line.sets, LAMBDA s : d \in DOMAIN s)

(* The last one counts; a few settings add up. *)
Meant(d) ==
  LET about == About(d)
      values == [i \in DOMAIN about |-> about[i][d]]
  IN  IF about = <<>> THEN Defaults[d]
      ELSE CASE d = "verbose" -> Len(about)
             [] d = "opq_oo" -> FlattenSeq(values)
             [] d \in {"charmap_tx", "charmap_rx"} ->
                  [on |-> TRUE, map |-> FoldLeft(LAMBDA m, v : v.map @@ m, <<>>, values)]
             [] OTHER -> Last(values)

MeantEol(own) ==
  IF About(own) # <<>> THEN Meant(own)
  ELSE IF About("eol_txrx") # <<>> THEN Meant("eol_txrx") ELSE DefaultEol

(* Two ends of line that match the same: the second byte may be an old one. *)
SameEol(a, b) == a.match = b.match /\ a.c_a = b.c_a /\ (a.match # "a" => a.c_b = b.c_b)

(* The settings that are what the command line says and nothing else. *)
Direct == DOMAIN Defaults \ {"wait", "eol_txrx", "eol_tx", "eol_rx", "eol_tx_used", "eol_rx_used",
                             "colors_remapped", "ctohex_table"}

Errors == {"ENOENT", "EINVAL", "assert", "failed"}

(* A map that names a group of characters. *)
NamesGroup == \E t \in TokensOf(line.argv), word \in ToSet(group_words) : Upper(t) = Upper(word)

(* How much of the command line is left: elements, and tokens of this one. *)
Left ==
  LET rest == SubSeq(line.argv, itr.argi + 1, Len(line.argv))
  IN  Len(itr.sp) + Len(rest) + Len(FlattenSeq(rest))

-----------------------------------------------------------------------------
(* Properties.                                                             *)

(* Every variable has its type: the iterator stays on the command line,    *)
(* the numbers of the port are those the port has or are not set, the loop *)
(* over the characters counts in a byte (opt_argviter.c, port_opts.c,      *)
(* charmap.c).                                                             *)
TypeOK ==
  /\ stage \in {"init", "args", "post", "looping", "exit", "done"} \cup Errors
  /\ itr.argi \in (1..Len(line.argv)) \cup {1} /\ itr.dashes \in 0..2
  /\ positionals.last \in 0..Len(positionals.conf)
  /\ DOMAIN set = DOMAIN Defaults
  /\ set.baudrate \in (Nat \ {0}) \cup {Unset} /\ set.databits \in (5..9) \cup {Unset}
  /\ set.stopbits \in (1..2) \cup {Unset} /\ set.verbose \in Nat
  /\ set.wait \in BOOLEAN /\ set.stay \in BOOLEAN
  /\ DOMAIN set.charmap_tx.map \subseteq 0..UCHAR_MAX
  /\ DOMAIN set.charmap_rx.map \subseteq 0..UCHAR_MAX
  /\ loop.at.c \in 0..UCHAR_MAX

(* Whatever the order of the sections and however far the tree has been    *)
(* built: an option is found by each of its names, and by nothing else,    *)
(* not even the beginning of one (btree_add_node(), btree_find()).         *)
LookupIsExact ==
  stage = "init" =>
    LET added == Confs \ ToSet(todo)
        starts == UNION {{SubSeq(n, 1, i) : i \in 1..Len(n)} : n \in AllNames}
    IN  \A name \in starts :
          LET has == {conf \in added : name \in ToSet(conf.names)}
          IN  IF has = {} THEN opt_lookup(name) = NoConf ELSE opt_lookup(name) \in has

(* However the options of a command line are spelled, joined and ordered,  *)
(* parsing ends with exactly the settings they mean, the last one of a     *)
(* kind counting; a command line with something wrong in it is refused     *)
(* (opt_parse_args(), opt_argviter.c).                                     *)
ParsedAsMeant ==
  /\ stage = "done" =>
       /\ ~line.bad
       /\ \A d \in Direct : set[d] = Meant(d)
       /\ set.wait = (Meant("wait") \/ Meant("stay"))
       /\ set.colors_remapped = Meant("color")
  /\ stage \in Errors => line.bad

(* --eol-tx and --eol-rx count for their direction and --eol for what they *)
(* leave, wherever they stand (eol_opt_post_parse()).                      *)
SpecificEolWins ==
  stage = "done" => /\ SameEol(set.eol_tx_used, MeantEol("eol_tx"))
                    /\ SameEol(set.eol_rx_used, MeantEol("eol_rx"))

(* What Port assumes: --stay never comes without --wait                    *)
(* (port_opts_post_parse()).                                               *)
StayImpliesWait == stage = "done" => (set.stay => set.wait)

(* A value that is refused leaves the speed, the data bits and the stop    *)
(* bits as they were, however much of it was right ("result params only    *)
(* set on valid string format", port_opts.c).                              *)
AllOrNothing ==
  [][stage' = "failed" => \A d \in {"baudrate", "databits", "stopbits"} : set'[d] = set[d]]_vars

(* Parsing ends: every option takes something off the command line, and    *)
(* only a map that names a group of characters starts a loop               *)
(* (opt_argviter.c, charmap_set_group_repr()).                             *)
ParsingAdvances ==
  [][(stage = "args" /\ stage' = "args" => Left' < Left) /\ (stage' = "looping" => NamesGroup')]_vars

-----------------------------------------------------------------------------
(* The end of line that port_init() takes from the settings.               *)

(* eol_seq_cpy() *)
eol_seq_cpy(es) == IF es.match = "ab" THEN <<es.c_a, es.c_a>> ELSE <<es.c_a>>

(* The end of line that is sent is the one the options name ("the trailing *)
(* eol (as specified by `--eol`)", cmd.c).                                 *)
SendsTheEolNamed ==
  stage = "done" => LET es == MeantEol("eol_tx")
                    IN  eol_seq_cpy(set.eol_tx_used)
                          = IF es.match = "ab" THEN <<es.c_a, es.c_b>> ELSE <<es.c_a>>
=============================================================================
