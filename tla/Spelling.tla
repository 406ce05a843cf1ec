------------------------------ MODULE Spelling ------------------------------
(***************************************************************************)
(* The command line as its user writes it: a row of words, each an option  *)
(* with its value or a positional, in one of the spellings the iterator of *)
(* opt_argviter.c knows.  Nothing here steps through the elements; the     *)
(* theorems of OptionsProofs compare what opt_parse_args() reads with it.  *)
(***************************************************************************)
EXTENDS Options

(* A word: what it stands for, the name it is called by, and its value; of *)
(* a flag the text behind the "=" that is dropped.                         *)
WordsOf(T) == [conf : Confs, key : Seq(T), val : Seq(T)]

(* What is left of a command line: the letters of an element that has been *)
(* begun, the elements behind it, and the last positional that was given.  *)
LeftOvers(T) == [sp : Seq(T), rest : Seq(Seq(T)), last : Nat]

Ahead(argv, i) == SubSeq(argv, i + 1, Len(argv))

(* The first element is the name of the program. *)
Start(argv) == [sp |-> <<>>, rest |-> Ahead(argv, 1), last |-> 0]

(* What the iterator p has left. *)
LeftBy(p, argv, last) ==
  [sp |-> IF p.dashes = 1 THEN p.sp ELSE <<>>, rest |-> Ahead(argv, p.argi), last |-> last]

(* --key, --key=val and --key val *)
SpellsLong(w, b, a) ==
  LET long == <<"-", "-">> \o w.key
  IN  /\ b.sp = <<>> /\ a.sp = <<>>
      /\ w.key # <<>> /\ w.key[1] # "-" /\ "=" \notin ToSet(w.key)
      /\ \/ b.rest = <<long \o <<"=">> \o w.val>> \o a.rest
         \/ opt_conf_has_val(w.conf) /\ b.rest = <<long>> \o (<<w.val>> \o a.rest)
         \/ ~opt_conf_has_val(w.conf) /\ b.rest = <<long>> \o a.rest

(* Letters joined to the ones before them, or the first behind a dash. *)
Joins(letters, rest, b) ==
  \/ b.sp = letters /\ b.rest = rest
  \/ b.sp = <<>> /\ b.rest = <<<<"-">> \o letters>> \o rest

(* -k with more letters behind it, -kval and -k val *)
SpellsShort(w, b, a) ==
  /\ Len(w.key) = 1 /\ w.key[1] \notin Punctuation
  /\ \/ ~opt_conf_has_val(w.conf) /\ Joins(w.key \o a.sp, a.rest, b)
     \/ /\ opt_conf_has_val(w.conf) /\ a.sp = <<>> /\ w.val # <<>>
        /\ Joins(w.key \o w.val, a.rest, b) \/ Joins(w.key, <<w.val>> \o a.rest, b)

(* The positionals are given in the order of their numbers. *)
SpellsPositional(w, b, a) ==
  /\ b.sp = <<>> /\ a.sp = <<>> /\ w.val # <<>> /\ w.val[1] # "-"
  /\ b.rest = <<w.val>> \o a.rest
  /\ w.conf.positional = b.last + 1

(* With the word w, b is left before it and a behind it. *)
Spells(w, b, a) ==
  IF w.conf.positional # 0 THEN SpellsPositional(w, b, a) /\ a.last = w.conf.positional
  ELSE (SpellsLong(w, b, a) \/ SpellsShort(w, b, a)) /\ a.last = b.last

(* No word is left: the end of the command line, or "--". *)
NothingLeft(b) == b.sp = <<>> /\ (b.rest = <<>> \/ b.rest[1] = <<"-", "-">>)

(* An option is called by one of its names; a blank ends a name as well.   *)
Calls(w) == w.conf.positional = 0 => w.key \in ToSet(w.conf.names)
CallsLoosely(w) ==
  w.conf.positional = 0 =>
    \E name \in ToSet(w.conf.names) :
      /\ IsPrefix(name, w.key)
      /\ Len(name) = Len(w.key) \/ w.key[Len(name) + 1] \in {" ", "\n"}

(* The word that is made of the option conf, the key q and its value g.    *)
WordOf(conf, q, g) ==
  [conf |-> conf, key |-> IF q.dashes = 0 THEN <<>> ELSE q.name,
   val |-> IF q.dashes = 0 THEN q.name
           ELSE IF opt_conf_has_val(conf) THEN g.val ELSE IF q.eq THEN q.sp ELSE <<>>]

(* What the program has left, and the word it has found there. *)
Now == LeftBy(itr, line.argv, positionals.last)
ThisWord == WordOf(Conf, Key, Given)

(* Every option that is parsed is the word that comes next on the command  *)
(* line, and called by its name; what is left is what stands behind it     *)
(* (opt_parse_args(), opt_argviter.c).                                     *)
ReadsAWord ==
  [][stage = "args" /\ stage' \in Stops \cup {"args"}
       => Spells(ThisWord, Now, Now') /\ CallsLoosely(ThisWord)]_vars

-----------------------------------------------------------------------------
(* All of a command line.                                                  *)

(* How a word can end the reading of a command line. *)
Leaves == {"exit", "looping"}

(* A reading of a command line: words from its start on, what is left      *)
(* behind each, and the settings after each.  Every value is accepted, and *)
(* only the last can leave the program, or the parser in its loop.         *)
AnswerTo(r, i) == parse(r.words[i].conf, r.words[i].val, r.set[i - 1])

Reading(r, argv) ==
  LET n == Len(r.words)
      T == TokensOf(argv)
  IN  /\ r.words \in Seq(WordsOf(T))
      /\ r.left \in [0..n -> LeftOvers(T)] /\ r.left[0] = Start(argv) /\ r.set[0] = Defaults
      /\ \A i \in 1..n :
           /\ Spells(r.words[i], r.left[i - 1], r.left[i])
           /\ r.set[i] = AnswerTo(r, i).set
           /\ AnswerTo(r, i).st \notin Stops \/ (i = n /\ AnswerTo(r, i).st \in Leaves)

Remains(r) == r.left[Len(r.words)]
SetBy(r) == r.set[Len(r.words)]

(* How it ends. *)
Ending(r) ==
  LET n == Len(r.words)
  IN  IF n # 0 /\ AnswerTo(r, n).st \in Leaves THEN AnswerTo(r, n).st ELSE "done"

(* All of the command line is read. *)
WholeReading(r, argv) == Reading(r, argv) /\ (Ending(r) = "done" => NothingLeft(Remains(r)))

(* Every option is called by its name; by a name with something behind it. *)
CalledByName(r) == \A i \in 1..Len(r.words) : Calls(r.words[i])
CalledSomehow(r) == \A i \in 1..Len(r.words) : CallsLoosely(r.words[i])

(* What the sections make of the settings, in whatever order they finish.  *)
Finished(s) == outfmt_post_parse(ctohex_post_parse(port_post_parse(eol_post_parse(s))))

(* A command line in words, in any spelling, is never refused: it ends     *)
(* with the settings of the words, or as the last one says                 *)
(* (opt_parse_args()).                                                     *)
WordsAreRead ==
  \A r : WholeReading(r, line.argv) /\ CalledByName(r) =>
          /\ stage \notin Errors
          /\ stage \in Leaves \cup {"done"} => stage = Ending(r)
          /\ stage = "done" => set = Finished(SetBy(r))

(* Parsing comes to its end only with a command line in words, and with    *)
(* the settings of these words (opt_parse_args()).                         *)
OnlyWordsAreRead ==
  stage = "done" =>
    \E r : /\ WholeReading(r, line.argv) /\ CalledSomehow(r) /\ Ending(r) = "done"
           /\ set = Finished(SetBy(r))

(* The settings s are those the command line is meant to set. *)
Fits(s) ==
  /\ \A d \in Direct : s[d] = Meant(d)
  /\ s.wait = (Meant("wait") \/ Meant("stay"))
  /\ s.colors_remapped = Meant("color")
  /\ SameEol(s.eol_tx_used, MeantEol("eol_tx")) /\ SameEol(s.eol_rx_used, MeantEol("eol_rx"))

(* The words of the command line set what it is meant to set; one with     *)
(* something wrong in it is not made of words.                             *)
LineIsMeant ==
  IF line.bad THEN ~\E r : WholeReading(r, line.argv) /\ CalledSomehow(r) /\ Ending(r) = "done"
  ELSE \E r : /\ WholeReading(r, line.argv) /\ CalledByName(r)
              /\ Ending(r) = "done" => Fits(Finished(SetBy(r)))

=============================================================================
