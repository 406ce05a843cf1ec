------------------------------ MODULE MCOutfmt ------------------------------
(* An instance of the output formatter for TLC.                              *)
EXTENDS Outfmt

x == 120
High == -56           \* 0xC8, a character of more than 7 bits

Eol(m, a, b) == [match_func |-> m, c_a |-> a, c_b |-> b]

(* The default, CR LF, LF or x, x LF. *)
AllEols == {Eol("a", LF, 0), Eol("ab", CR, LF), Eol("a_or_b", LF, x), Eol("ab", x, LF)}

Map(m) == [on |-> TRUE, map |-> m]

(* No map; every character set; every one but the high character. *)
AllMaps == {[on |-> FALSE, map |-> <<>>],
            Map(LF :> CHARMAP_REPR_HEX @@ Byte(High) :> x @@ x :> x @@ CR :> CR),
            Map(x :> CHARMAP_REPR_IGNORE @@ CR :> CHARMAP_REPR_HEX @@ LF :> LF)}

Chars == {LF, CR, x, High}
AllChunks == {<<a>> : a \in Chars} \cup (Chars \X Chars) \cup (Chars \X Chars \X Chars)
=============================================================================
