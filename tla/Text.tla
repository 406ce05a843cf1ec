-------------------------------- MODULE Text --------------------------------
(***************************************************************************)
(* strto.c, str.c and str_split_quoted.c: numbers, words and lists in the  *)
(* text of an option.  A text is a sequence of tokens: a run of digits, a  *)
(* word, or one character.  What reads one returns an error or a value,    *)
(* and where it stopped.                                                   *)
(***************************************************************************)
EXTENDS Integers, Sequences, SequencesExt

CONSTANTS Decimal,      \* runs of digits and their value in base 10
          Hexadecimal,  \* and in base 16; -1 if no type has room for it
          LowerCase     \* words and letters in lower case, and the same in upper case

ASSUME NumbersAssumption ==
  Decimal \in [DOMAIN Decimal -> Int] /\ Hexadecimal \in [DOMAIN Hexadecimal -> Int]

Error(why) == [err |-> why, val |-> 0, ep |-> <<>>]
Value(v, ep) == [err |-> "", val |-> v, ep |-> ep]
Failed(r) == r.err # ""

Upper(t) == IF t \in DOMAIN LowerCase THEN LowerCase[t] ELSE t

At(s, t) == s # <<>> /\ s[1] = t

(* s without the blanks it begins with. *)
Trimmed(s) ==
  LET n == SelectInSeq(s, LAMBDA t : t # " ") IN IF n = 0 THEN <<>> ELSE SubSeq(s, n, Len(s))

-----------------------------------------------------------------------------
(* strto.c                                                                 *)

(* strtol() and strtoul() behind the blanks, and the errors of             *)
(* _post_check(): no digits, or a number that is too large.                *)
Digits(s, base) ==
  LET neg == At(s, "-")
      t == IF neg THEN Tail(s) ELSE s
      hex == base # 10 /\ At(t, "0x")
      u == IF hex THEN Tail(t) ELSE t
      digits == IF hex \/ base = 16 THEN Hexadecimal ELSE Decimal
  IN  IF u = <<>> \/ u[1] \notin DOMAIN digits THEN Error("ECANCELED")
      ELSE IF digits[u[1]] < 0 THEN Error("ERANGE")
      ELSE Value(IF neg THEN 0 - digits[u[1]] ELSE digits[u[1]], Tail(u))

(* strtol() and strtoul() skip blanks. *)
Number(s, base) == Digits(Trimmed(s), base)

(* _post_check() without an ep: only a blank may follow. *)
Ended(r) == IF ~Failed(r) /\ r.ep # <<>> /\ ~At(r.ep, " ") THEN Error("ENOTSUP") ELSE r

InRange(r, min, max) ==
  IF ~Failed(r) /\ (r.val < min \/ r.val > max) THEN Error("ERANGE") ELSE r

(* strto_i(); what is above INT_MAX is -1 in Decimal. *)
strto_i(s, base) == Number(s, base)

(* strto_uc(), strto_u8(): strto_ul() refuses a sign. *)
strto_u8(s) == IF At(Trimmed(s), "-") THEN Error("ERANGE") ELSE InRange(Number(s, 16), 0, 255)

-----------------------------------------------------------------------------
(* str.c and str_split_quoted.c                                            *)

(* strsep() on one delimiter, without the empty pieces. *)
Pieces(s, delim) ==
  LET upto[i \in 0..Len(s)] ==
        IF i = 0 THEN <<>>
        ELSE IF s[i] = delim THEN upto[i - 1]
        ELSE IF i = 1 \/ s[i - 1] = delim THEN Append(upto[i - 1], <<s[i]>>)
        ELSE [upto[i - 1] EXCEPT ![Len(upto[i - 1])] = Append(@, s[i])]
  IN  upto[Len(s)]

(* str_strip() *)
Stripped(s) ==
  LET text == {i \in DOMAIN s : s[i] # " "}
  IN  IF text = {} THEN <<>>
      ELSE SubSeq(s, CHOOSE i \in text : \A j \in text : i <= j,
                     CHOOSE i \in text : \A j \in text : j <= i)

(* str_list_indexof(), str_map_lookup(): 0 if there is none. *)
IndexOf(s, list) ==
  SelectInSeq(list, LAMBDA word : s # <<>> /\ Len(s) = 1 /\ Upper(word) = Upper(s[1]))

(* str_split_kv(): <<>> is its error. *)
str_split_kv(s) ==
  LET toks == Pieces(s, ":")
  IN  IF Len(toks) # 2 THEN <<>> ELSE <<Stripped(toks[1]), Stripped(toks[2])>>

Unescaped(s) ==
  LET kept == SelectSeq([i \in 1..Len(s) |-> i],
                        LAMBDA i : ~(s[i] = "\\" /\ i < Len(s) /\ s[i + 1] = "\""))
  IN  [j \in 1..Len(kept) |-> s[kept[j]]]

(* Where a token ends: at a quote that is not escaped, or at a blank. *)
TokenEnd(body, quoted) ==
  SelectInSeq([i \in 1..Len(body) |-> i],
              LAMBDA i : IF quoted THEN body[i] = "\"" /\ (i = 1 \/ body[i - 1] # "\\") ELSE body[i] = " ")

(* What comes before the end, and the rest behind it. *)
Cut(body, end) ==
  [tok |-> IF end = 0 THEN body ELSE SubSeq(body, 1, end - 1),
   next |-> IF end = 0 THEN <<>> ELSE Trimmed(SubSeq(body, end + 1, Len(body)))]

Token(s) ==
  IF At(s, "\"") THEN [Cut(Tail(s), TokenEnd(Tail(s), TRUE)) EXCEPT !.tok = Unescaped(@)]
  ELSE Cut(s, TokenEnd(s, FALSE))

(* qtok(): quotes keep blanks together, and \" is a quote inside of them.  *)
qtok(text) == Token(Trimmed(text))

(* str_split_quoted(): what is left is always an end of the text. *)
str_split_quoted(s) ==
  LET args[n \in 0..Len(s)] ==
        IF n = 0 THEN <<>>
        ELSE LET q == qtok(SubSeq(s, Len(s) - n + 1, Len(s))) IN <<q.tok>> \o args[Len(q.next)]
  IN  args[Len(s)]

=============================================================================
