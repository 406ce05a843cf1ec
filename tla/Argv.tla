-------------------------------- MODULE Argv --------------------------------
(***************************************************************************)
(* opt_argviter.c: the iterator over the elements of a command line.  An   *)
(* element is a sequence of tokens: a dash, a "=", the letter of a short   *)
(* option, the pieces of a long name or of a value.                        *)
(***************************************************************************)
EXTENDS Naturals, Sequences, SequencesExt

(* Tokens to_shortstr() has no string for. *)
Punctuation == {"-", "=", ",", ":", "/", "|", " ", "\""}

(* opt_argviter_init(): the position, what is left of the element (sp), how *)
(* many dashes it began with, whether a "=" was met, and what was found.    *)
opt_argviter_init ==
  [argi |-> 1, sp |-> <<>>, dashes |-> 0, eq |-> FALSE,
   status |-> "ok", name |-> <<>>, val |-> <<>>]

parse_error(p) == [p EXCEPT !.status = "EINVAL"]

LastElement(p, argv) == p.argi >= Len(argv)

load_next_argv(p, argv) == [p EXCEPT !.argi = @ + 1, !.sp = argv[p.argi + 1]]

(* The next letter of -abc; to_shortstr() asserts that it is one. *)
parse_short_key(p) ==
  [p EXCEPT !.name = <<Head(p.sp)>>, !.sp = Tail(p.sp),
            !.status = IF Head(p.sp) \in Punctuation THEN "assert" ELSE "ok"]

(* Up to "=" or the end of the element. *)
parse_long_key(p) ==
  LET at == SelectInSeq(p.sp, LAMBDA t : t = "=")
  IN  IF at = 0 THEN [p EXCEPT !.name = p.sp]
      ELSE [p EXCEPT !.name = SubSeq(p.sp, 1, at - 1), !.sp = SubSeq(p.sp, at + 1, Len(p.sp)),
                     !.eq = TRUE]

(* parse_dashes() *)
Dashes(e) == SelectInSeq(Append(e, "end"), LAMBDA t : t # "-") - 1

(* Regression: reset_tmp_states() leaves the value of the last long name. *)
NextElement_KeepVal(p, argv) ==
  LET q == load_next_argv([p EXCEPT !.dashes = 0, !.name = <<>>], argv)
      n == Dashes(q.sp)
      r == [q EXCEPT !.dashes = n, !.sp = SubSeq(q.sp, n + 1, Len(q.sp))]
  IN  IF r.sp = <<>> THEN IF n = 2 THEN [r EXCEPT !.status = "DONE"] ELSE parse_error(r)
      ELSE CASE n = 0 -> [r EXCEPT !.name = r.sp]
             [] n = 1 -> parse_short_key(r)
             [] n = 2 -> parse_long_key(r)
             [] OTHER -> parse_error(r)

(* opt_argviter_getkey() at a new element. *)
NextElement(p, argv) ==
  LET q == load_next_argv([p EXCEPT !.dashes = 0, !.eq = FALSE, !.name = <<>>], argv)
      n == Dashes(q.sp)
      r == [q EXCEPT !.dashes = n, !.sp = SubSeq(q.sp, n + 1, Len(q.sp))]
  IN  IF r.sp = <<>> THEN IF n = 2 THEN [r EXCEPT !.status = "DONE"] ELSE parse_error(r)
      ELSE CASE n = 0 -> [r EXCEPT !.name = r.sp]
             [] n = 1 -> parse_short_key(r)
             [] n = 2 -> parse_long_key(r)
             [] OTHER -> parse_error(r)

(* opt_argviter_getkey(): another letter of the same element, or a new one. *)
opt_argviter_getkey(p, argv) ==
  IF p.dashes = 1 /\ p.sp # <<>> THEN parse_short_key(p)
  ELSE IF LastElement(p, argv) THEN [p EXCEPT !.status = "DONE"]
  ELSE NextElement(p, argv)

(* opt_argviter_getval(): the rest of the element, or all of the next one. *)
(* An empty one is accepted after a long name, and an assertion after a    *)
(* short one.                                                              *)
opt_argviter_getval(p, argv) ==
  LET own == p.eq \/ (p.dashes = 1 /\ p.sp # <<>>)
      q == IF own THEN p ELSE load_next_argv(p, argv)
  IN  IF ~own /\ LastElement(p, argv) THEN parse_error(p)
      ELSE IF p.dashes = 1 /\ q.sp = <<>> THEN [q EXCEPT !.status = "assert"]
      ELSE [q EXCEPT !.val = q.sp, !.dashes = 0]
=============================================================================
