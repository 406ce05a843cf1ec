----------------------------- MODULE MCOptions -----------------------------
(* Command lines for TLC: every option and every pair of options in every  *)
(* spelling of their names and values, some of three and more, and lines   *)
(* with something wrong in them.                                           *)
EXTENDS Options, Spelling

(* The tokens of names, in the order of strcmp(). *)
TokenOrder ==
  <<"-rx", "-timeout", "-tx", "C", "a", "ait", "anonical", "ap-", "arity", "atabits", "aud",
    "b", "c", "cho", "control", "d", "e", "echo", "elp", "erbose", "ersion", "evice", "exf", "f",
    "file", "h", "har-delay", "ilent", "imeout", "imestamp", "ind", "ist", "l", "level", "low",
    "m", "md", "mt", "og", "ol", "olor", "ooked", "ormat", "ort", "p", "rate", "rompt", "rxc",
    "s", "t", "tay", "ticky", "topbits", "txc", "utocomplete", "v", "w", "x">>

DecimalValues == [t \in {"9600", "300", "5", "8", "1", "2", "0", "3", "10", "99999999999"} |->
  CASE t = "9600" -> 9600 [] t = "300" -> 300 [] t = "5" -> 5 [] t = "8" -> 8 [] t = "1" -> 1
    [] t = "2" -> 2 [] t = "0" -> 0 [] t = "3" -> 3 [] t = "10" -> 10 [] OTHER -> -1]

HexValues == [t \in {"a", "ff", "0d", "0a", "100"} |->
  CASE t = "a" -> 10 [] t = "ff" -> 255 [] t = "0d" -> 13 [] t = "0a" -> 10 [] OTHER -> 256]

Uppercase ==
  ("lf" :> "LF" @@ "cr" :> "CR" @@ "bel" :> "BEL" @@ "bs" :> "BS" @@ "del" :> "DEL" @@ "e" :> "E"
    @@ "n" :> "N" @@ "hex" :> "HEX" @@ "none" :> "NONE" @@ "ctrl" :> "CTRL" @@ "cntrl" :> "CNTRL"
    @@ "rtscts" :> "RTSCTS")

TwoOrders ==
  LET cmake == <<"main_opts", "charmap", "cmd", "ctohex", "eol", "log", "outfmt", "port_opts",
                 "shell", "shell_mode_cooked", "keybind", "timeout">>
  IN  {cmake, Reverse(cmake)}

Formats == {<<"0x", "%", "02x">>}

-----------------------------------------------------------------------------
(* An option in words: its names, the text of its value, what it sets.     *)

Word(names, short, text, sets) == [names |-> names, short |-> short, text |-> text, sets |-> sets]
Flag(names, short, dest) == Word(names, short, <<>>, dest :> TRUE)

A == [match |-> "a", c_a |-> 13, c_b |-> 0]
CrLf == [match |-> "ab", c_a |-> 13, c_b |-> 10]
LfOrCr == [match |-> "a_or_b", c_a |-> 10, c_b |-> 13]
Mapped(m) == [on |-> TRUE, map |-> m]

Speed == Word({<<"b", "aud", "rate">>, <<"b", "aud">>}, "b", <<"9600">>, "baudrate" :> 9600)
Slow == Word({<<"b", "aud">>}, "b", <<"300">>, "baudrate" :> 300)
Verbose == Word({<<"v", "erbose">>}, "v", <<>>, "verbose" :> 1)
List == Flag({<<"l", "ist">>}, "l", "show_list")
Stay == Flag({<<"s", "tay">>}, "", "stay")
Wait == Flag({<<"w", "ait">>}, "", "wait")
EolBoth == Word({<<"e", "ol">>}, "", <<"cr", "lf">>, "eol_txrx" :> CrLf)
EolTx == Word({<<"e", "ol", "-tx">>}, "", <<"cr">>, "eol_tx" :> A)
EolRx == Word({<<"e", "ol", "-rx">>}, "", <<"lf", "|", "0x", "0d">>, "eol_rx" :> LfOrCr)
MapRx == Word({<<"m", "ap-", "rxc">>}, "", <<"bel", ":", "hex", ",", "0x", "ff", ":", "0x", "a">>,
              "charmap_rx" :> Mapped(7 :> CHARMAP_REPR_HEX @@ 255 :> 10))
MapRx2 == Word({<<"m", "ap-", "rxc">>}, "", <<"bel", ":", "bs">>, "charmap_rx" :> Mapped(7 :> 8))
Drain == Word({<<"c", "md">>}, "c", <<"drain">>, "opq_oo" :> <<"DRAIN">>)

(* Options of which there is more to say than that they are found. *)
Central == {Speed, Slow, Verbose, List, Stay, Wait, EolBoth, EolTx, EolRx, MapRx, MapRx2, Drain}

Others == {
  Word({<<"p", "ort">>, <<"d", "evice">>}, "", <<"/dev/tty">>, "name" :> <<"/dev/tty">>),
  Word({<<"d", "atabits">>}, "d", <<"5">>, "databits" :> 5),
  Word({<<"s", "topbits">>}, "s", <<"2">>, "stopbits" :> 2),
  Word({<<"f", "low">>, <<"f", "low", "control">>}, "f", <<"rtscts">>, "flowcontrol" :> "RTSCTS"),
  Word({<<"p", "arity">>}, "p", <<"e">>, "parity" :> "E"),
  Word({<<"c", "har-delay">>}, "", <<"-", "5">>, "chardelay" :> -5),
  Flag({<<"h", "elp">>}, "h", "show_help"), Flag({<<"v", "ersion">>}, "", "show_version"),
  Flag({<<"c", "ooked">>, <<"c", "anonical">>}, "C", "cooked"),
  Flag({<<"e", "cho">>, <<"l", "echo">>}, "", "local_echo"),
  Flag({<<"s", "ticky">>}, "", "sticky"), Flag({<<"s", "ilent">>}, "", "silent"),
  Flag({<<"t", "imestamp">>}, "", "timestamp"), Flag({<<"c", "olor">>}, "", "color"),
  Word({<<"p", "rompt">>}, "", <<"x">>, "prompt" :> <<"x">>),
  Word({<<"l", "og", "level">>}, "", <<"0x", "a">>, "level" :> 10),
  Word({<<"l", "og", "file">>}, "", <<"x">>, "file" :> <<"x">>),
  Word({<<"e", "ol", "-rx", "-timeout">>}, "", <<"3">>, "eol_rx_timeout" :> 3),
  Word({<<"t", "imeout">>}, "", <<"10">>, "timeout" :> 10),
  Word({<<"h", "exf", "ormat">>, <<"h", "exf", "mt">>}, "", <<"0x", "%", "02x">>,
       "hexfmt" :> <<"0x", "%", "02x">>),
  Word({<<"m", "ap-", "txc">>}, "", <<"cr", ":", "none">>, "charmap_tx" :> Mapped(13 :> CHARMAP_REPR_IGNORE)),
  Word({<<"c", "md">>}, "c", <<"send", " ", "-n", " ", "x">>, "opq_oo" :> <<>>),
  Word({<<"c", "md">>}, "c", <<"\"", "send", "\"", " ", "\"", "x", " ", "x", "\"">>,
       "opq_oo" :> <<"PUT_EOL">>)}

(* One option as elements of the command line: a short name may follow two *)
(* dashes too, and the "=" and value of a flag are dropped.                *)
Spellings(w) ==
  LET short == IF w.short = "" THEN {} ELSE {<<w.short>>}
      long == {<<"-", "-">> \o name : name \in w.names \cup short}
  IN  IF w.text = <<>>
      THEN {<<n>> : n \in long} \cup {<<<<"-">> \o s>> : s \in short}
      ELSE {<<n \o <<"=">> \o w.text>> : n \in long} \cup {<<n, w.text>> : n \in long}
             \cup {<<<<"-">> \o s \o w.text>> : s \in short} \cup {<<<<"-">> \o s, w.text>> : s \in short}

Good(args, sets) == [argv |-> args, sets |-> sets, bad |-> FALSE]
Bad(args) == [argv |-> args, sets |-> <<>>, bad |-> TRUE]

Words == Central \cup Others

Spelled == UNION {{[args |-> a, sets |-> w.sets] : a \in Spellings(w)} : w \in Words}

Single == {Good(w.args, <<w.sets>>) : w \in Spelled}
Pairs == {Good(v.args \o w.args, <<v.sets, w.sets>>) : v \in Spelled, w \in Spelled}

(* -vl, -vlb 9600, -vlb9600 and then another option *)
Joined(w) ==
  LET flags == <<Verbose.sets, List.sets>>
      baud == Append(flags, Speed.sets)
  IN  {Good(<<<<"-", "v", "l">>>> \o b, flags \o <<w.sets>>) : b \in Spellings(w)} \cup
      {Good(<<<<"-", "v", "l", "b", "9600">>>> \o b, baud \o <<w.sets>>) : b \in Spellings(w)} \cup
      {Good(<<<<"-", "v", "l", "b">>, <<"9600">>>> \o b, baud \o <<w.sets>>) : b \in Spellings(w)}

Triples ==
  {Good(a \o b \o c, <<EolTx.sets, Stay.sets, EolBoth.sets>>) :
     a \in Spellings(EolTx), b \in Spellings(Stay), c \in Spellings(EolBoth)}

Dev == <<"/dev/tty">>
Dps(bits) == <<"9600", "/", bits, "n", "1">>
DpsSets == "baudrate" :> 9600 @@ "databits" :> 8 @@ "parity" :> "N" @@ "stopbits" :> 1

Positionals(w) ==
  UNION {{Good(<<Dev>> \o b \o <<Dps("8")>>, <<"name" :> Dev, w.sets, DpsSets>>),
          Good(b \o <<Dev, Dps("8")>>, <<w.sets, "name" :> Dev, DpsSets>>),
          Good(<<Dev, Dps("8")>> \o b, <<"name" :> Dev, DpsSets, w.sets>>),
          Good(<<Dev, <<"9600">>, <<"-", "-">>>> \o b, <<"name" :> Dev, "baudrate" :> 9600>>)}
           : b \in Spellings(w)}

(* What is wrong: no option, an unknown one, no value, a value of no use,  *)
(* a third positional; first, last, or joined to a flag.                   *)
Wrong == {
  <<<<"-">>>>, <<<<>>>>, <<<<"-", "-", "-", "x">>>>, <<<<"-", "x">>>>, <<<<"-", "-", "e">>>>,
  <<<<"-", "-", "e", "ol", "-rx", "x">>>>, <<<<"-", "v", "-">>>>, <<<<"-", "v", "=", "1">>>>,
  <<<<"-", "-", "b", "aud", "=", "0">>>>, <<<<"-", "-", "b", "aud", "=", "9600", "x">>>>,
  <<<<"-", "-", "b", "aud", "=">>>>, <<<<"-", "b", "-", "5">>>>, <<<<"-", "b", "99999999999">>>>,
  <<<<"-", "-", "b", "aud", "=", "9600", " ">>>>, <<<<"-", "-", "c", "har-delay", "=", "-", " ", "5">>>>,
  <<<<"-", "d", "3">>>>, <<<<"-", "s", "3">>>>, <<<<"-", "p", "x">>>>, <<<<"-", "p", "e", "x">>>>,
  <<<<"-", "f", "x">>>>, <<Dev, Dps("3")>>, <<Dev, <<"9600", "/", "8", "x">>>>,
  <<Dev, <<"9600", "x">>>>, <<Dev, Dps("8"), Dev>>, <<<<"-", "-", "b", "ind", "=", "x">>>>,
  <<<<"-", "-", "e", "ol", "=", "x">>>>, <<<<"-", "-", "e", "ol", "=", "cr", ",">>>>,
  <<<<"-", "-", "e", "ol", "=", "cr", "lf", "x">>>>, <<<<"-", "-", "e", "ol", "=", "0x", "100">>>>,
  <<<<"-", "-", "m", "ap-", "txc", "=", "bel", ":", "bs", ",", "bel">>>>,
  <<<<"-", "-", "h", "exf", "mt", "=", "%", "%">>>>,
  <<<<"-", "-", "h", "exf", "mt", "=", "*">>>>, <<<<"-", "-", "t", "imeout", "=", "3", "x">>>>,
  <<<<"-", "c">>, <<"x">>>>, <<<<"-", "c">>, <<"send">>>>, <<<<"-", "c">>, <<"send", " ", "-e", " ", "-x", " ", "x">>>>}

NoValue == {<<<<"-", "b">>>>, <<<<"-", "-", "b", "aud">>>>, <<<<"-", "v", "b">>>>}

Refused ==
  NoValue \cup Wrong \cup UNION {{a \o b : a \in Spellings(w)} : b \in Wrong \cup NoValue, w \in {Speed, Stay}}
          \cup UNION {{b \o a : a \in Spellings(w)} : b \in Wrong, w \in {Speed, Verbose}}

(* A map of a group of characters; two ways to leave while parsing; blanks *)
(* around a number, which strtol() skips and strto.c lets follow it.       *)
Apart == {
  Good(<<<<"-", "-", "b", "aud", "=", " ", "9600">>>>, <<Speed.sets>>),
  Good(<<<<"-", "-", "t", "imeout", "=", " ", "10", " ">>>>, <<"timeout" :> 10>>),
  Good(<<<<"-", "-", "m", "ap-", "rxc", "=", "cntrl", ":", "hex">>>>, <<>>),
  Good(<<<<"-", "-", "w", "ait", "=", "0">>>>, <<"wait" :> TRUE>>),
  Good(<<<<"-", "-", "a", "utocomplete", "=", "b", "aud">>>>, <<>>),
  Good(<<<<"-", "c">>, <<"exit">>>>, <<>>), Good(<<>>, <<>>)}

(* The first element is the name of the program. *)
AllLines ==
  {[l EXCEPT !.argv = <<<<"spcom">>>> \o @] :
     l \in Single \cup Pairs \cup Triples \cup Apart \cup {Bad(a) : a \in Refused}
            \cup UNION {Joined(w) \cup Positionals(w) : w \in Central}}
=============================================================================
