---------------------------- MODULE OutfmtProofs ----------------------------
(***************************************************************************)
(* Proofs about the output formatter: whatever the device sends, however   *)
(* the reads cut it, whatever the options and however small the buffer.    *)
(* The argument follows the code from the inside out.  What has been shown *)
(* is the terminal and the buffer behind it (Out); a flush does not change *)
(* it, every other helper adds a string to it (Extends), one character     *)
(* adds what the reference says (WriteCharKeeps), and the loop of          *)
(* outfmt_write() adds a whole chunk, by induction over its characters.    *)
(***************************************************************************)
EXTENDS Outfmt, Recursion

(* The options have the values they are given at the start. *)
OptionsOK ==
  /\ eol_rx \in EolOpts /\ charmap_rx \in Charmaps
  /\ timestamp \in BOOLEAN /\ color \in BOOLEAN

(* Only the colors are written behind the end of the buffer. *)
Overruns == {b \in BOOLEAN : b => color}

(* What the helpers work on. *)
FmtState ==
  [buf : [0..(BufSize - 1) -> OutChar], len : 0..BufSize, overrun : Overruns,
   prev_c : -128..127, had_eol : BOOLEAN,
   last_c_flushed : OutChar \cup {BEYOND}, term : Seq(OutChar)]

(* What has been shown: what is on the terminal and what is in the buffer. *)
Out(s) == s.term \o [k \in 1..s.len |-> s.buf[k - 1]]

(* A step from s to t shows str and leaves the rest alone. *)
Extends(t, s, str) ==
  /\ t \in FmtState /\ str \in Seq(OutChar)
  /\ Out(t) = Out(s) \o str
  /\ t.prev_c = s.prev_c /\ t.had_eol = s.had_eol

LEMMA OutType ==
  ASSUME NEW s \in FmtState
  PROVE  Out(s) \in Seq(OutChar)
<1>1. [k \in 1..s.len |-> s.buf[k - 1]] \in Seq(OutChar)
  <2>1. s.len \in Nat
    BY OutfmtAssumption DEF FmtState
  <2>2. \A k \in 1..s.len : s.buf[k - 1] \in OutChar
    BY OutfmtAssumption DEF FmtState
  <2> QED  BY <2>1, <2>2
<1> QED  BY <1>1 DEF Out, FmtState

LEMMA ExtendsNot ==
  ASSUME NEW s \in FmtState
  PROVE  Extends(s, s, <<>>)
<1>1. Out(s) \in Seq(OutChar)
  BY OutType
<1> QED  BY <1>1 DEF Extends

LEMMA ExtendsTwice ==
  ASSUME NEW s \in FmtState, NEW t, NEW u, NEW str1, NEW str2,
         Extends(t, s, str1), Extends(u, t, str2)
  PROVE  Extends(u, s, str1 \o str2)
<1>1. Out(s) \in Seq(OutChar)
  BY OutType
<1>2. str1 \in Seq(OutChar) /\ str2 \in Seq(OutChar)
  BY DEF Extends
<1>3. Out(u) = (Out(s) \o str1) \o str2
  BY DEF Extends
<1> QED  BY <1>1, <1>2, <1>3 DEF Extends

(* outfmt_strbuf_flush() moves, and shows nothing new. *)
LEMMA FlushShows ==
  ASSUME NEW s \in FmtState
  PROVE  Extends(flush(s), s, <<>>) /\ flush(s).len = 0 /\ flush(s).term = Out(s)
<1> DEFINE t == flush(s)
           d == [k \in 1..s.len |-> s.buf[k - 1]]
<1>1. s.len \in 0..BufSize /\ BufSize \in Nat
  BY OutfmtAssumption DEF FmtState
<1>2. [k \in 1..s.len |-> IF k <= BufSize THEN s.buf[k - 1] ELSE BEYOND] = d
  BY <1>1
<1>3. t.term = Out(s) /\ t.len = 0 /\ t.prev_c = s.prev_c /\ t.had_eol = s.had_eol
  BY <1>2 DEF flush, Out, FmtState
<1>4. Out(s) \in Seq(OutChar)
  BY OutType
<1>5. t \in FmtState
  <2>1. (IF s.len < BufSize THEN s.buf[s.len] ELSE BEYOND) \in OutChar \cup {BEYOND}
    BY <1>1 DEF FmtState
  <2>2. t = [s EXCEPT !.term = Out(s), !.len = 0,
                      !.last_c_flushed = IF s.len < BufSize THEN s.buf[s.len] ELSE BEYOND]
    BY <1>2 DEF flush, Out
  <2>3. 0 \in 0..BufSize
    BY <1>1
  <2> QED  BY <1>4, <2>1, <2>2, <2>3 DEF FmtState
<1>6. Out(t) = Out(s) \o <<>>
  <2>1. [k \in 1..t.len |-> t.buf[k - 1]] = <<>>
    BY <1>3
  <2> HIDE DEF t
  <2> QED  BY <1>3, <1>4, <2>1 DEF Out
<1> HIDE DEF t
<1> QED  BY <1>3, <1>5, <1>6 DEF Extends, t

LEMMA BufferSet ==
  ASSUME NEW s \in FmtState, NEW b \in [0..(BufSize - 1) -> OutChar], NEW n \in 0..BufSize,
         NEW v \in Overruns
  PROVE  [s EXCEPT !.buf = b, !.len = n, !.overrun = v] \in FmtState
BY DEF FmtState

LEMMA OverrunType ==
  ASSUME NEW a \in Overruns, NEW b \in BOOLEAN, color \/ ~b
  PROVE  (a \/ b) \in Overruns
BY DEF Overruns

LEMMA TermSet ==
  ASSUME NEW s \in FmtState, NEW str \in Seq(OutChar), NEW c \in OutChar
  PROVE  [s EXCEPT !.term = str, !.last_c_flushed = c] \in FmtState
BY DEF FmtState

(* The buffer with the first m characters of str copied to its end; the    *)
(* others may go behind it if there are colors.                            *)
LEMMA CopyShows ==
  ASSUME NEW s \in FmtState, NEW str \in Seq(OutChar), NEW m \in 0..Len(str), s.len + m <= BufSize,
         color \/ s.len + Len(str) <= BufSize
  PROVE  LET t == [copy(s, str) EXCEPT !.len = s.len + m]
         IN  Extends(t, s, SubSeq(str, 1, m)) /\ t.len = s.len + m
<1> DEFINE t == [copy(s, str) EXCEPT !.len = s.len + m]
           b == [i \in 0..(BufSize - 1) |-> IF i - s.len + 1 \in 1..Len(str)
                                            THEN str[i - s.len + 1] ELSE s.buf[i]]
           v == (s.overrun \/ s.len + Len(str) > BufSize)
           d == [k \in 1..s.len |-> s.buf[k - 1]]
           e == [k \in 1..(s.len + m) |-> b[k - 1]]
           part == SubSeq(str, 1, m)
<1>1. /\ s.len \in 0..BufSize /\ BufSize \in Nat /\ s.len + m \in 0..BufSize
      /\ Len(str) \in Nat /\ m \in Nat /\ DOMAIN str = 1..Len(str)
      /\ s.buf \in [0..(BufSize - 1) -> OutChar]
  BY OutfmtAssumption DEF FmtState
<1>2. b \in [0..(BufSize - 1) -> OutChar]
  BY <1>1
<1>3. t = [s EXCEPT !.buf = b, !.len = s.len + m, !.overrun = v]
  <2>1. DOMAIN s.buf = 0..(BufSize - 1)
    BY <1>1
  <2>2. copy(s, str) = [s EXCEPT !.buf = b, !.overrun = v]
    BY <1>1, <2>1 DEF copy
  <2> HIDE DEF b, v
  <2> QED  BY <2>2 DEF FmtState
<1>4. d \in Seq(OutChar) /\ Len(d) = s.len
  <2>1. s.len \in Nat
    BY <1>1
  <2>2. \A k \in 1..s.len : s.buf[k - 1] \in OutChar
    BY <1>1
  <2> QED  BY <2>1, <2>2
<1>5. part \in Seq(OutChar) /\ Len(part) = m
  OBVIOUS
<1>6. e \in Seq(OutChar) /\ Len(e) = s.len + m
  <2> HIDE DEF b
  <2>1. ASSUME NEW k \in 1..(s.len + m) PROVE b[k - 1] \in OutChar
    <3>1. k - 1 \in 0..(BufSize - 1)
      BY <1>1
    <3> QED  BY <1>2, <3>1
  <2>2. s.len + m \in Nat
    BY <1>1
  <2> QED  BY <2>1, <2>2
<1>7. e = d \o part
  <2>1. ASSUME NEW k \in 1..(s.len + m) PROVE e[k] = (d \o part)[k]
    <3>1. k - 1 \in 0..(BufSize - 1) /\ e[k] = b[k - 1]
      BY <1>1
    <3>2. CASE k <= s.len
      <4>1. b[k - 1] = s.buf[k - 1] /\ d[k] = s.buf[k - 1]
        BY <1>1, <3>1, <3>2
      <4>2. (d \o part)[k] = d[k]
        BY <1>4, <1>5, <3>2, <1>1
      <4> QED  BY <3>1, <4>1, <4>2
    <3>3. CASE k > s.len
      <4>1. b[k - 1] = str[k - s.len] /\ k - s.len \in 1..m
        BY <1>1, <3>1, <3>3
      <4>2. part[k - s.len] = str[k - s.len]
        BY <4>1
      <4> HIDE DEF d, e, b, part
      <4>3. (d \o part)[k] = part[k - s.len]
        <5>1. s.len + (k - s.len) = k /\ k - s.len \in 1..Len(part)
          BY <1>1, <1>5, <4>1
        <5>2. (d \o part)[Len(d) + (k - s.len)] = part[k - s.len]
          BY <1>4, <1>5, <5>1, CatProperties
        <5> QED  BY <1>4, <5>1, <5>2
      <4> QED  BY <3>1, <4>1, <4>2, <4>3
    <3>4. k <= s.len \/ k > s.len
      BY <1>1
    <3> QED  BY <3>2, <3>3, <3>4
  <2> HIDE DEF d, e, part
  <2>2. d \in Seq(OutChar) /\ part \in Seq(OutChar)
    BY <1>4, <1>5
  <2>3. d \o part \in Seq(OutChar) /\ Len(d \o part) = Len(d) + Len(part)
    BY <2>2, CatProperties
  <2>4. e \in Seq(OutChar) /\ Len(e) = Len(d \o part) /\ \A k \in 1..Len(e) : e[k] = (d \o part)[k]
    BY <1>4, <1>5, <1>6, <2>1, <2>3
  <2> DEFINE f == d \o part
  <2> HIDE DEF f
  <2>5. e \in Seq(OutChar) /\ f \in Seq(OutChar) /\ Len(e) = Len(f)
        /\ \A k \in 1..Len(e) : e[k] = f[k]
    BY <2>3, <2>4 DEF f
  <2>6. e = f
    BY <2>5, SameElements
  <2> QED  BY <2>6 DEF f
<1>8. t \in FmtState
  <2>1. v \in Overruns
    <3>1. s.overrun \in Overruns /\ (s.len + Len(str) > BufSize) \in BOOLEAN
      BY DEF FmtState
    <3>2. color \/ ~(s.len + Len(str) > BufSize)
      BY <1>1
    <3> QED  BY <3>1, <3>2, OverrunType
  <2> HIDE DEF b, v, t
  <2> QED  BY <1>1, <1>2, <1>3, <2>1, BufferSet
<1>9. /\ t.len = s.len + m /\ t.buf = b /\ t.term = s.term
      /\ t.prev_c = s.prev_c /\ t.had_eol = s.had_eol
  <2> HIDE DEF b, v, t
  <2> QED  BY <1>3 DEF FmtState
<1>10. Out(t) = Out(s) \o part
  <2>1. Out(t) = s.term \o e
    <3> HIDE DEF t, b
    <3> QED  BY <1>9 DEF Out
  <2> DEFINE a == s.term
  <2>2. Out(s) = a \o d /\ a \in Seq(OutChar) /\ Out(t) = a \o e
    BY <2>1 DEF Out, FmtState
  <2> HIDE DEF t, d, e, part, a
  <2>3. (a \o d) \o part = a \o (d \o part)
    <3>1. a \in Seq(OutChar) /\ d \in Seq(OutChar) /\ part \in Seq(OutChar)
      BY <1>4, <1>5, <2>2
    <3> QED  BY <3>1, CatAssociative
  <2> QED  BY <1>7, <2>2, <2>3
<1> HIDE DEF t
<1>11. Extends(t, s, part) /\ t.len = s.len + m
  BY <1>5, <1>8, <1>9, <1>10 DEF Extends
<1> QED  BY <1>11 DEF t

(* Where there is room, append shows the string. *)
LEMMA AppendShows ==
  ASSUME NEW s \in FmtState, NEW str \in Seq(OutChar), s.len + Len(str) <= BufSize
  PROVE  Extends(append(s, str), s, str) /\ append(s, str).len = s.len + Len(str)
<1>1. Len(str) \in 0..Len(str) /\ SubSeq(str, 1, Len(str)) = str
  OBVIOUS
<1>2. append(s, str) = [copy(s, str) EXCEPT !.len = s.len + Len(str)]
  BY DEF append, copy, FmtState
<1> QED  BY <1>1, <1>2, CopyShows

LEMMA OutChars ==
  /\ 0 \in OutChar /\ LF \in OutChar /\ STAMP \in OutChar /\ MESSAGE \in OutChar
  /\ (-128..127) \subseteq OutChar
BY DEF OutChar, LF

(* There is room for the string and its NUL. *)
LEMMA PrintShows ==
  ASSUME NEW s \in FmtState, NEW str \in Seq(OutChar), s.len + Len(str) < BufSize
  PROVE  Extends(print(s, str), s, str)
<1> DEFINE nul == Append(str, 0)
<1>1. /\ nul \in Seq(OutChar) /\ Len(nul) = Len(str) + 1 /\ Len(str) \in 0..Len(nul)
      /\ SubSeq(nul, 1, Len(str)) = str
  <2>1. 0 \in OutChar
    BY OutChars
  <2>2. /\ nul \in Seq(OutChar) /\ Len(nul) = Len(str) + 1 /\ Len(str) \in 0..Len(nul)
        /\ \A k \in 1..Len(str) : nul[k] = str[k]
    BY <2>1
  <2> HIDE DEF nul
  <2>3. SubSeq(nul, 1, Len(str)) \in Seq(OutChar) /\ Len(SubSeq(nul, 1, Len(str))) = Len(str)
    BY <2>2
  <2>4. \A k \in 1..Len(str) : SubSeq(nul, 1, Len(str))[k] = str[k]
    BY <2>2
  <2> QED  BY <2>2, <2>3, <2>4, SameElements
<1>2. s.len \in Nat /\ BufSize \in Nat /\ s.len + Len(str) <= BufSize
  BY OutfmtAssumption DEF FmtState
<1>3. print(s, str) = [copy(s, nul) EXCEPT !.len = s.len + Len(str)]
  <2> HIDE DEF nul
  <2>1. (s.len + Len(nul)) - 1 = s.len + Len(str)
    BY <1>1, <1>2
  <2>2. print(s, str) = [copy(s, nul) EXCEPT !.len = (s.len + Len(nul)) - 1]
    BY DEF print, append, copy, FmtState, nul
  <2> QED  BY <2>1, <2>2
<1>4. s.len + Len(nul) <= BufSize
  <2> HIDE DEF nul
  <2> QED  BY <1>1, <1>2, OutfmtAssumption DEF FmtState
<1> HIDE DEF nul
<1>5. /\ Extends([copy(s, nul) EXCEPT !.len = s.len + Len(str)], s, SubSeq(nul, 1, Len(str)))
  BY <1>1, <1>2, <1>4, CopyShows
<1> QED  BY <1>1, <1>3, <1>5

(* After make_space() there is room, and nothing is lost for it. *)
LEMMA MakeSpaceShows ==
  ASSUME NEW s \in FmtState, NEW size \in 1..BufSize
  PROVE  /\ Extends(make_space(s, size), s, <<>>)
         /\ make_space(s, size).len + size <= BufSize
<1>1. s.len \in 0..BufSize /\ BufSize \in Nat
  BY OutfmtAssumption DEF FmtState
<1>2. CASE BufSize - s.len < size /\ s.len > 0
  BY <1>1, <1>2, FlushShows DEF make_space
<1>3. CASE ~(BufSize - s.len < size /\ s.len > 0)
  BY <1>1, <1>3, ExtendsNot DEF make_space
<1> QED  BY <1>2, <1>3

LEMMA PutcShows ==
  ASSUME NEW s \in FmtState, NEW c \in OutChar, BufSize > 0
  PROVE  Extends(strbuf_putc(s, c), s, <<c>>)
<1> DEFINE t == make_space(s, 1)
<1>1. 1 \in 1..BufSize
  BY OutfmtAssumption
<1>2. Extends(t, s, <<>>) /\ t.len + 1 <= BufSize
  BY <1>1, MakeSpaceShows
<1>3. t \in FmtState /\ <<c>> \in Seq(OutChar) /\ Len(<<c>>) = 1 /\ <<>> \o <<c>> = <<c>>
  BY <1>2 DEF Extends
<1> HIDE DEF t
<1>4. Extends(append(t, <<c>>), t, <<c>>)
  BY <1>2, <1>3, AppendShows
<1>5. Extends(append(t, <<c>>), s, <<c>>)
  BY <1>2, <1>3, <1>4, ExtendsTwice
<1> QED  BY <1>5 DEF strbuf_putc, t

(* Also when a flush is needed between its two parts. *)
LEMMA StrbufWriteShows ==
  ASSUME NEW s \in FmtState, NEW str \in Seq(OutChar), Len(str) <= BufSize, color
  PROVE  Extends(strbuf_write(s, str), s, str)
<1> DEFINE m == BufSize - s.len
<1>1. s.len \in 0..BufSize /\ BufSize \in Nat /\ Len(str) \in Nat /\ m \in 0..BufSize
  BY OutfmtAssumption DEF FmtState
<1>2. CASE Len(str) <= m
  BY <1>1, <1>2, AppendShows DEF strbuf_write
<1>3. CASE ~(Len(str) <= m)
  <2> DEFINE chunk == SubSeq(str, 1, m)
             rest == SubSeq(str, m + 1, Len(str))
             t == [copy(s, str) EXCEPT !.len = s.len + m]
             u == flush(t)
  <2>1. /\ m \in 0..Len(str) /\ chunk \in Seq(OutChar) /\ Len(chunk) = m
        /\ rest \in Seq(OutChar) /\ Len(rest) = Len(str) - m /\ chunk \o rest = str
    <3>1. m \in 0..Len(str)
      BY <1>1, <1>3
    <3> HIDE DEF m
    <3> QED  BY <3>1, SplitSeq
  <2>2. strbuf_write(s, str) = append(u, rest)
    <3>1. [copy(s, str) EXCEPT !.len = @ + Len(chunk)] = t
      BY <2>1 DEF copy, FmtState
    <3> QED  BY <1>3, <3>1 DEF strbuf_write
  <2>3. Extends(t, s, chunk)
    <3>1. s.len + m <= BufSize
      BY <1>1
    <3> HIDE DEF m
    <3> QED  BY <2>1, <3>1, CopyShows
  <2> HIDE DEF m, chunk, rest, t
  <2>4. t \in FmtState
    BY <2>3 DEF Extends
  <2>5. Extends(u, t, <<>>) /\ u.len = 0
    BY <2>4, FlushShows
  <2> HIDE DEF u
  <2>6. u \in FmtState
    BY <2>5 DEF Extends
  <2>7. Extends(append(u, rest), u, rest)
    BY <1>1, <2>1, <2>5, <2>6, AppendShows
  <2>8. Extends(u, s, chunk \o <<>>)
    BY <2>3, <2>5, ExtendsTwice
  <2>9. chunk \o <<>> = chunk
    BY <2>1
  <2>10. Extends(append(u, rest), s, chunk \o rest)
    BY <2>7, <2>8, <2>9, ExtendsTwice
  <2> QED  BY <2>1, <2>2, <2>10
<1> QED  BY <1>2, <1>3

-----------------------------------------------------------------------------
(* One character.                                                          *)

(* print_timestamp() shows a timestamp if they are on: it fits. *)
LEMMA StampShows ==
  ASSUME OptionsOK, NEW s \in FmtState
  PROVE  Extends(print_timestamp(s), s, Stamp)
<1>1. CASE ~timestamp
  BY <1>1, ExtendsNot DEF print_timestamp, Stamp
<1>2. CASE timestamp
  <2> DEFINE t == make_space(s, StampSize)
             str == [k \in 1..StampLen |-> STAMP]
  <2>1. StampSize \in 1..BufSize /\ StampLen \in Nat /\ StampLen < StampSize /\ BufSize \in Nat
    BY OutfmtAssumption
  <2>2. Extends(t, s, <<>>) /\ t.len + StampSize <= BufSize
    BY <2>1, MakeSpaceShows
  <2>3. str \in Seq(OutChar) /\ Len(str) = StampLen
    BY <2>1, OutChars
  <2> HIDE DEF t, str
  <2>4. t \in FmtState /\ t.len \in Nat
    BY <2>2, OutfmtAssumption DEF Extends, FmtState
  <2>5. t.len + Len(str) < BufSize
    BY <2>1, <2>2, <2>3, <2>4
  <2>6. Extends(print(t, str), t, str)
    BY <2>3, <2>4, <2>5, PrintShows
  <2>7. Extends(print(t, str), s, <<>> \o str)
    BY <2>2, <2>6, ExtendsTwice
  <2>8. <<>> \o str = str
    BY <2>3
  <2> QED  BY <1>2, <2>7, <2>8 DEF print_timestamp, Stamp, t, str
<1> QED  BY <1>1, <1>2 DEF OptionsOK

(* The colors fit into the buffer, and no character of them looks like one *)
(* of a timestamp.                                                         *)
Plain == OutChar \ {STAMP}

LEMMA ColorTypes ==
  /\ VT_COLOR_RED \in Seq(Plain) /\ Len(VT_COLOR_RED) <= BufSize
  /\ VT_COLOR_OFF \in Seq(Plain) /\ Len(VT_COLOR_OFF) <= BufSize
<1>1. RedLen \in 1..BufSize /\ OffLen \in 1..BufSize /\ BufSize \in Nat
  BY OutfmtAssumption
<1>2. VT_COLOR_RED \in Seq(Plain) /\ Len(VT_COLOR_RED) <= BufSize
  <2> DEFINE n == RedLen
  <2>1. n \in Nat /\ n <= BufSize
    BY <1>1
  <2>2. VT_COLOR_RED = [k \in 1..n |-> 1100 + k]
    BY DEF VT_COLOR_RED
  <2>3. ASSUME NEW k \in 1..n PROVE VT_COLOR_RED[k] \in Plain
    <3>1. VT_COLOR_RED[k] = 1100 + k /\ k \in DOMAIN VT_COLOR_RED
      BY <2>2
    <3>2. VT_COLOR_RED[k] \in ToSet(VT_COLOR_RED)
      BY <3>1 DEF ToSet
    <3>3. VT_COLOR_RED[k] # STAMP
      BY <3>1 DEF STAMP
    <3> QED  BY <3>2, <3>3 DEF Plain, OutChar
  <2> HIDE DEF n
  <2> QED  BY <2>1, <2>2, <2>3
<1>3. VT_COLOR_OFF \in Seq(Plain) /\ Len(VT_COLOR_OFF) <= BufSize
  <2> DEFINE n == OffLen
  <2>1. n \in Nat /\ n <= BufSize
    BY <1>1
  <2>2. VT_COLOR_OFF = [k \in 1..n |-> 1200 + k]
    BY DEF VT_COLOR_OFF
  <2>3. ASSUME NEW k \in 1..n PROVE VT_COLOR_OFF[k] \in Plain
    <3>1. VT_COLOR_OFF[k] = 1200 + k /\ k \in DOMAIN VT_COLOR_OFF
      BY <2>2
    <3>2. VT_COLOR_OFF[k] \in ToSet(VT_COLOR_OFF)
      BY <3>1 DEF ToSet
    <3>3. VT_COLOR_OFF[k] # STAMP
      BY <3>1 DEF STAMP
    <3> QED  BY <3>2, <3>3 DEF Plain, OutChar
  <2> HIDE DEF n
  <2> QED  BY <2>1, <2>2, <2>3
<1> QED  BY <1>2, <1>3

LEMMA PlainIsOut ==
  ASSUME NEW str \in Seq(Plain)
  PROVE  str \in Seq(OutChar)
BY DEF Plain

LEMMA InColorShows ==
  ASSUME OptionsOK, NEW s \in FmtState, NEW vt \in Seq(OutChar), Len(vt) <= BufSize
  PROVE  Extends(in_color(s, vt), s, IF color THEN vt ELSE <<>>)
<1>1. CASE color
  BY <1>1, StrbufWriteShows DEF in_color
<1>2. CASE ~color
  BY <1>2, ExtendsNot DEF in_color
<1> QED  BY <1>1, <1>2 DEF OptionsOK

CharIn == -128..127

(* The numbers of the map are those of charmap.c, and a digit is a digit.  *)
LEMMA MapTypes ==
  ASSUME OptionsOK, NEW c \in CharIn
  PROVE  /\ Byte(c) \in 0..UCHAR_MAX
         /\ ReprId(c) \in (0..UCHAR_MAX) \cup {CHARMAP_REPR_IGNORE, CHARMAP_REPR_HEX}
         /\ \A b \in 0..UCHAR_MAX : Char(b) \in CharIn
         /\ ctohex(c) \in Seq(CharIn) /\ Len(ctohex(c)) = 4
         /\ charmap_rx.on \in BOOLEAN
<1>1. Byte(c) \in 0..UCHAR_MAX
  BY DEF Byte, CharIn, UCHAR_MAX
<1>2. ReprId(c) \in (0..UCHAR_MAX) \cup {CHARMAP_REPR_IGNORE, CHARMAP_REPR_HEX}
  BY OutfmtAssumption DEF ReprId, OptionsOK, UCHAR_MAX
<1>3. ASSUME NEW b \in 0..UCHAR_MAX PROVE Char(b) \in CharIn
  BY DEF Char, CharIn, UCHAR_MAX
<1>4. ctohex(c) \in Seq(CharIn) /\ Len(ctohex(c)) = 4
  <2>1. Byte(c) \div 16 \in 0..15 /\ Byte(c) % 16 \in 0..15
    BY <1>1 DEF UCHAR_MAX
  <2>2. \A n \in 0..15 : HexDigit(n) \in CharIn
    BY DEF HexDigit, CharIn
  <2>3. HexDigit(Byte(c) \div 16) \in CharIn /\ HexDigit(Byte(c) % 16) \in CharIn
    BY <2>1, <2>2
  <2>4. 92 \in CharIn /\ 120 \in CharIn
    BY DEF CharIn
  <2> QED  BY <2>3, <2>4 DEF ctohex
<1>5. charmap_rx.on \in BOOLEAN
  BY OutfmtAssumption DEF OptionsOK
<1> QED  BY <1>1, <1>2, <1>3, <1>4, <1>5

LEMMA CharInTypes ==
  /\ CharIn \subseteq Plain /\ CharIn \subseteq OutChar
  /\ \A str \in Seq(CharIn) : str \in Seq(Plain) /\ str \in Seq(OutChar)
<1>1. CharIn \subseteq Plain /\ CharIn \subseteq OutChar
  BY DEF CharIn, Plain, OutChar, STAMP
<1> QED  BY <1>1

(* What charmap_remap() returns fits into CHARMAP_REPR_BUF_SIZE.           *)
LEMMA RemapType ==
  ASSUME OptionsOK, NEW c \in CharIn
  PROVE  charmap_remap(c) \in Seq(CharIn) /\ Len(charmap_remap(c)) < ReprSize
<1>1. ReprSize \in Nat /\ 4 < ReprSize
  BY OutfmtAssumption
<1>2. CASE ReprId(c) <= UCHAR_MAX
  <2>1. ReprId(c) \in 0..UCHAR_MAX
    <3>1. ReprId(c) \in (0..UCHAR_MAX) \cup {CHARMAP_REPR_IGNORE, CHARMAP_REPR_HEX}
      BY MapTypes
    <3> QED  BY <1>2, <3>1 DEF UCHAR_MAX, CHARMAP_REPR_IGNORE, CHARMAP_REPR_HEX
  <2>2. Char(ReprId(c)) \in CharIn
    BY <2>1, MapTypes
  <2> QED  BY <1>1, <1>2, <2>2 DEF charmap_remap
<1>3. CASE ~(ReprId(c) <= UCHAR_MAX) /\ ReprId(c) = CHARMAP_REPR_HEX
  BY <1>1, <1>3, MapTypes DEF charmap_remap
<1>4. CASE ~(ReprId(c) <= UCHAR_MAX) /\ ReprId(c) # CHARMAP_REPR_HEX
  BY <1>1, <1>4 DEF charmap_remap
<1> QED  BY <1>2, <1>3, <1>4

LEMMA ColoredType ==
  ASSUME OptionsOK, NEW str \in Seq(CharIn)
  PROVE  Colored(str) \in Seq(Plain)
<1>1. str \in Seq(Plain)
  BY CharInTypes
<1>2. CASE color
  <2>1. VT_COLOR_RED \in Seq(Plain) /\ VT_COLOR_OFF \in Seq(Plain)
    BY ColorTypes
  <2> QED  BY <1>1, <1>2, <2>1 DEF Colored
<1>3. CASE ~color
  BY <1>1, <1>3 DEF Colored
<1> QED  BY <1>2, <1>3 DEF OptionsOK

(* What the code shows of a character.                                     *)
Drawn(c) == IF charmap_repr_type(c) = "NONE" THEN <<c>>
            ELSE IF charmap_repr_type(c) = "IGNORE" THEN <<>>
            ELSE Colored(charmap_remap(c))

(* The numbers of the representations are no characters.                   *)
LEMMA ReprNumbers ==
  /\ \A c \in CharIn : c # CHARMAP_REPR_IGNORE /\ c # CHARMAP_REPR_HEX
  /\ \A c \in CharIn : c >= 0 => Byte(c) = c
  /\ \A c \in CharIn : c < 0 => \A b \in 0..UCHAR_MAX : b # c
  /\ CHARMAP_REPR_IGNORE # CHARMAP_REPR_HEX
  /\ \A b \in 0..UCHAR_MAX : b # CHARMAP_REPR_IGNORE /\ b # CHARMAP_REPR_HEX
BY DEF CharIn, Byte, UCHAR_MAX, CHARMAP_REPR_IGNORE, CHARMAP_REPR_HEX

(* charmap.c does what it says with a character, unless the character is   *)
(* one of those for which it does not.                                     *)
LEMMA ShownIs ==
  ASSUME OptionsOK, NEW c \in CharIn, MappedAsSaid(c)
  PROVE  Shown(c) = Drawn(c)
<1>1. charmap_rx.on \in BOOLEAN /\ c \in -128..127
  BY MapTypes DEF CharIn
<1>2. CASE ~charmap_rx.on
  BY <1>2 DEF Shown, Drawn, charmap_repr_type
<1>3. CASE charmap_rx.on /\ Byte(c) \notin DOMAIN charmap_rx.map
  <2>1. c = 0 /\ ReprId(c) = 0 /\ Byte(c) = 0
    BY <1>3, ReprNumbers DEF ReprId, MappedAsSaid
  <2>2. charmap_repr_type(c) = "NONE"
    BY <2>1 DEF charmap_repr_type
  <2> QED  BY <1>3, <2>2 DEF Shown, Drawn
<1>4. CASE charmap_rx.on /\ Byte(c) \in DOMAIN charmap_rx.map
  <2> DEFINE repr == charmap_rx.map[Byte(c)]
  <2>1. ReprId(c) = repr
    BY <1>4 DEF ReprId
  <2>2. repr \in (0..UCHAR_MAX) \cup {CHARMAP_REPR_IGNORE, CHARMAP_REPR_HEX}
    BY <2>1, MapTypes
  <2>3. Shown(c) = IF repr = Byte(c) THEN <<c>>
                   ELSE IF repr = CHARMAP_REPR_IGNORE THEN <<>>
                   ELSE IF repr = CHARMAP_REPR_HEX THEN Colored(ctohex(c))
                   ELSE Colored(<<Char(repr)>>)
    BY <1>4 DEF Shown
  <2>4. c = 0 \/ c >= 0 \/ repr # Byte(c)
    BY <1>4 DEF MappedAsSaid
  <2> HIDE DEF repr
  <2>5. repr = Byte(c) <=> repr = c
    <3>1. CASE c >= 0
      BY <3>1, ReprNumbers
    <3>2. CASE ~(c >= 0)
      BY <1>1, <2>2, <2>4, <3>2, ReprNumbers
    <3> QED  BY <3>1, <3>2
  <2>6. charmap_repr_type(c) = IF repr = c THEN "NONE"
                               ELSE IF repr = CHARMAP_REPR_IGNORE THEN "IGNORE"
                               ELSE IF repr = CHARMAP_REPR_HEX THEN "HEX" ELSE "BASE"
    BY <1>4, <2>1 DEF charmap_repr_type
  <2>7. charmap_remap(c) = IF repr = CHARMAP_REPR_IGNORE THEN <<>>
                           ELSE IF repr = CHARMAP_REPR_HEX THEN ctohex(c) ELSE <<Char(repr)>>
    BY <2>1, <2>2 DEF charmap_remap, UCHAR_MAX, CHARMAP_REPR_IGNORE, CHARMAP_REPR_HEX
  <2> QED  BY <2>3, <2>5, <2>6, <2>7 DEF Drawn
<1> QED  BY <1>1, <1>2, <1>3, <1>4

LEMMA DrawnType ==
  ASSUME OptionsOK, NEW c \in CharIn
  PROVE  Drawn(c) \in Seq(Plain)
<1>1. charmap_remap(c) \in Seq(CharIn)
  BY RemapType
<1>2. Colored(charmap_remap(c)) \in Seq(Plain)
  BY <1>1, ColoredType
<1>3. <<c>> \in Seq(Plain) /\ <<>> \in Seq(Plain)
  BY CharInTypes
<1> QED  BY <1>2, <1>3 DEF Drawn

LEMMA ShownType ==
  ASSUME OptionsOK, NEW c \in CharIn
  PROVE  Shown(c) \in Seq(Plain)
<1> DEFINE repr == IF Byte(c) \in DOMAIN charmap_rx.map THEN charmap_rx.map[Byte(c)] ELSE Byte(c)
<1>1. repr \in (0..UCHAR_MAX) \cup {CHARMAP_REPR_IGNORE, CHARMAP_REPR_HEX}
  BY MapTypes, OutfmtAssumption DEF OptionsOK
<1>2. Shown(c) = IF ~charmap_rx.on \/ repr = Byte(c) THEN <<c>>
                 ELSE IF repr = CHARMAP_REPR_IGNORE THEN <<>>
                 ELSE IF repr = CHARMAP_REPR_HEX THEN Colored(ctohex(c))
                 ELSE Colored(<<Char(repr)>>)
  BY DEF Shown
<1> HIDE DEF repr
<1>3. <<c>> \in Seq(Plain) /\ <<>> \in Seq(Plain)
  BY CharInTypes
<1>4. Colored(ctohex(c)) \in Seq(Plain)
  BY MapTypes, ColoredType
<1>5. ASSUME repr \in 0..UCHAR_MAX PROVE Colored(<<Char(repr)>>) \in Seq(Plain)
  <2>1. Char(repr) \in CharIn
    BY <1>5, MapTypes
  <2>2. <<Char(repr)>> \in Seq(CharIn)
    BY <2>1
  <2> QED  BY <2>2, ColoredType
<1> QED  BY <1>1, <1>2, <1>3, <1>4, <1>5

(* sb_remap_putc() shows a character with its colors. *)
LEMMA RemapShows ==
  ASSUME OptionsOK, NEW s \in FmtState, NEW c \in CharIn
  PROVE  Extends(sb_remap_putc(s, c), s, Drawn(c))
<1> DEFINE type == charmap_repr_type(c)
<1>1. CASE type = "NONE"
  <2>1. c \in OutChar /\ BufSize > 0
    BY CharInTypes, OutfmtAssumption
  <2> QED  BY <1>1, <2>1, PutcShows DEF Drawn, sb_remap_putc
<1>2. CASE type = "IGNORE"
  BY <1>2, ExtendsNot DEF Drawn, sb_remap_putc
<1>3. CASE type \notin {"NONE", "IGNORE"}
  <2> DEFINE str == charmap_remap(c)
             on == IF color THEN VT_COLOR_RED ELSE <<>>
             off == IF color THEN VT_COLOR_OFF ELSE <<>>
             t == in_color(s, VT_COLOR_RED)
             u == make_space(t, ReprSize)
             v == print(u, str)
             w == in_color(v, VT_COLOR_OFF)
  <2>1. sb_remap_putc(s, c) = w /\ Drawn(c) = Colored(str)
    BY <1>3 DEF Drawn, sb_remap_putc
  <2>2. str \in Seq(OutChar) /\ Len(str) < ReprSize /\ Len(str) \in Nat
    BY RemapType, CharInTypes
  <2>3. ReprSize \in 1..BufSize /\ BufSize \in Nat
    BY OutfmtAssumption
  <2>4. /\ VT_COLOR_RED \in Seq(OutChar) /\ Len(VT_COLOR_RED) <= BufSize
        /\ VT_COLOR_OFF \in Seq(OutChar) /\ Len(VT_COLOR_OFF) <= BufSize
    BY ColorTypes, PlainIsOut
  <2>5. Extends(t, s, on)
    BY <2>4, InColorShows
  <2>6. on \in Seq(OutChar) /\ off \in Seq(OutChar)
    BY <2>4
  <2>7. Colored(str) = (on \o str) \o off
    <3>1. CASE color
      BY <3>1 DEF Colored
    <3>2. CASE ~color
      BY <2>2, <3>2 DEF Colored
    <3> QED  BY <3>1, <3>2
  <2> HIDE DEF str, on, off, t
  <2>8. t \in FmtState
    BY <2>5 DEF Extends
  <2>9. Extends(u, t, <<>>) /\ u.len + ReprSize <= BufSize
    BY <2>3, <2>8, MakeSpaceShows
  <2> HIDE DEF u
  <2>10. u \in FmtState /\ u.len \in Nat
    BY <2>9, OutfmtAssumption DEF Extends, FmtState
  <2>11. u.len + Len(str) < BufSize
    BY <2>2, <2>3, <2>9, <2>10
  <2>12. Extends(v, u, str)
    BY <2>2, <2>10, <2>11, PrintShows
  <2> HIDE DEF v
  <2>13. v \in FmtState
    BY <2>12 DEF Extends
  <2>14. Extends(w, v, off)
    BY <2>4, <2>13, InColorShows DEF off
  <2> HIDE DEF w
  <2>15. Extends(u, s, on \o <<>>)
    BY <2>5, <2>9, ExtendsTwice
  <2>16. Extends(u, s, on)
    BY <2>6, <2>15
  <2>17. Extends(v, s, on \o str)
    BY <2>12, <2>16, ExtendsTwice
  <2>18. Extends(w, s, (on \o str) \o off)
    BY <2>14, <2>17, ExtendsTwice
  <2> QED  BY <2>1, <2>7, <2>18
<1> QED  BY <1>1, <1>2, <1>3

-----------------------------------------------------------------------------
(* outfmt_write(), a character at a time.                                  *)

(* What is shown of c, and of prev, the one before it.                     *)
Echo(prev, c) ==
  LET m == eol_match(eol_rx, prev, c)
  IN  IF m = "NOMATCH" THEN Drawn(c)
      ELSE IF m = "MATCH" THEN <<LF>>
      ELSE IF m = "POP" THEN Drawn(prev) \o Drawn(c)
      ELSE IF m = "POP_AND_STASH" THEN Drawn(prev)
      ELSE <<>>

LEMMA EchoType ==
  ASSUME OptionsOK, NEW prev \in CharIn, NEW c \in CharIn
  PROVE  Echo(prev, c) \in Seq(Plain)
<1>1. Drawn(c) \in Seq(Plain) /\ Drawn(prev) \in Seq(Plain)
  BY DrawnType
<1>2. <<LF>> \in Seq(Plain) /\ <<>> \in Seq(Plain)
  BY OutChars DEF Plain, LF, STAMP
<1>3. Drawn(prev) \o Drawn(c) \in Seq(Plain)
  BY <1>1
<1> QED  BY <1>1, <1>2, <1>3 DEF Echo

(* The body of the loop of outfmt_write(): a timestamp if a line begins,   *)
(* then the character.                                                     *)
LEMMA WriteCharShows ==
  ASSUME OptionsOK, NEW s \in FmtState, NEW c \in CharIn
  PROVE  LET t == write_char(s, c)
             str == (IF s.had_eol THEN Stamp ELSE <<>>) \o Echo(s.prev_c, c)
         IN  /\ t \in FmtState /\ str \in Seq(OutChar) /\ Out(t) = Out(s) \o str
             /\ t.prev_c = c
             /\ t.had_eol <=> eol_match(eol_rx, s.prev_c, c) = "MATCH"
<1> DEFINE m == eol_match(eol_rx, s.prev_c, c)
           stamp == IF s.had_eol THEN Stamp ELSE <<>>
           p == print_timestamp(s)
           t == IF s.had_eol THEN [p EXCEPT !.had_eol = FALSE] ELSE s
           u == IF m = "NOMATCH" THEN sb_remap_putc(t, c)
                ELSE IF m = "MATCH" THEN strbuf_putc([t EXCEPT !.had_eol = TRUE], LF)
                ELSE IF m = "POP" THEN sb_remap_putc(sb_remap_putc(t, s.prev_c), c)
                ELSE IF m = "POP_AND_STASH" THEN sb_remap_putc(t, s.prev_c)
                ELSE t
           w == [u EXCEPT !.prev_c = c]
<1>1. write_char(s, c) = w
  BY DEF write_char
<1>2. s.prev_c \in CharIn /\ s.had_eol \in BOOLEAN
  BY DEF FmtState, CharIn
<1>3. t \in FmtState /\ stamp \in Seq(OutChar) /\ Out(t) = Out(s) \o stamp
      /\ t.prev_c = s.prev_c /\ t.had_eol = FALSE
  <2>1. CASE s.had_eol
    <3>1. Extends(p, s, Stamp)
      BY StampShows
    <3> HIDE DEF p
    <3>2. /\ p \in FmtState /\ Stamp \in Seq(OutChar)
          /\ Out(p) = Out(s) \o Stamp /\ p.prev_c = s.prev_c
      BY <3>1 DEF Extends
    <3>3. t = [p EXCEPT !.had_eol = FALSE]
      BY <2>1
    <3>4. t \in FmtState /\ Out(t) = Out(p) /\ t.prev_c = p.prev_c /\ t.had_eol = FALSE
      BY <3>2, <3>3 DEF FmtState, Out
    <3> HIDE DEF t
    <3> QED  BY <2>1, <3>2, <3>4
  <2>2. CASE ~s.had_eol
    <3>1. t = s /\ stamp = <<>> /\ Out(s) \in Seq(OutChar)
      BY <2>2, OutType
    <3> HIDE DEF t, stamp
    <3>2. Out(s) \o <<>> = Out(s)
      BY <3>1
    <3>3. <<>> \in Seq(OutChar)
      OBVIOUS
    <3> QED  BY <1>2, <2>2, <3>1, <3>2, <3>3
  <2> QED  BY <2>1, <2>2
<1> HIDE DEF t, stamp
<1>4. u \in FmtState /\ Out(u) = Out(t) \o Echo(s.prev_c, c) /\ (u.had_eol <=> m = "MATCH")
  <2>1. CASE m = "MATCH"
    <3> DEFINE a == [t EXCEPT !.had_eol = TRUE]
    <3>1. a \in FmtState /\ Out(a) = Out(t) /\ a.had_eol = TRUE
      BY <1>3 DEF FmtState, Out
    <3>2. u = strbuf_putc(a, LF) /\ Echo(s.prev_c, c) = <<LF>>
      BY <2>1 DEF Echo
    <3> HIDE DEF a, u
    <3>3. BufSize > 0 /\ LF \in OutChar
      BY OutChars, OutfmtAssumption
    <3>4. Extends(u, a, <<LF>>)
      BY <3>1, <3>2, <3>3, PutcShows
    <3> QED  BY <2>1, <3>1, <3>2, <3>4 DEF Extends
  <2>2. ASSUME m # "MATCH", Extends(u, t, Echo(s.prev_c, c))
        PROVE  u \in FmtState /\ Out(u) = Out(t) \o Echo(s.prev_c, c) /\ (u.had_eol <=> m = "MATCH")
    <3> HIDE DEF u
    <3> QED  BY <1>3, <2>2 DEF Extends
  <2>3. CASE m = "NOMATCH"
    <3>1. Extends(u, t, Echo(s.prev_c, c))
      BY <1>3, <2>3, RemapShows DEF Echo
    <3> QED  BY <2>2, <2>3, <3>1
  <2>4. CASE m = "POP"
    <3> DEFINE a == sb_remap_putc(t, s.prev_c)
    <3>1. u = sb_remap_putc(a, c) /\ Echo(s.prev_c, c) = Drawn(s.prev_c) \o Drawn(c)
      BY <2>4 DEF Echo
    <3>2. Extends(a, t, Drawn(s.prev_c))
      BY <1>2, <1>3, RemapShows
    <3> HIDE DEF a, u
    <3>3. a \in FmtState
      BY <3>2 DEF Extends
    <3>4. Extends(u, a, Drawn(c))
      BY <3>1, <3>3, RemapShows
    <3>5. Extends(u, t, Echo(s.prev_c, c))
      BY <1>3, <3>1, <3>2, <3>4, ExtendsTwice
    <3> QED  BY <2>2, <2>4, <3>5
  <2>5. CASE m = "POP_AND_STASH"
    <3>1. Extends(u, t, Echo(s.prev_c, c))
      BY <1>2, <1>3, <2>5, RemapShows DEF Echo
    <3> QED  BY <2>2, <2>5, <3>1
  <2>6. CASE m \notin {"MATCH", "NOMATCH", "POP", "POP_AND_STASH"}
    <3>1. u = t /\ Echo(s.prev_c, c) = <<>>
      BY <2>6 DEF Echo
    <3>2. Extends(u, t, Echo(s.prev_c, c))
      BY <1>3, <3>1, ExtendsNot
    <3> QED  BY <2>2, <2>6, <3>2
  <2> QED  BY <2>1, <2>3, <2>4, <2>5, <2>6
<1> HIDE DEF u, m
<1>5. w \in FmtState /\ Out(w) = Out(u) /\ w.prev_c = c /\ w.had_eol = u.had_eol
  <2>1. c \in -128..127
    BY DEF CharIn
  <2> QED  BY <1>4, <2>1 DEF FmtState, Out
<1> DEFINE e == Echo(s.prev_c, c)
           a == Out(s)
<1>6. e \in Seq(OutChar) /\ a \in Seq(OutChar)
  BY <1>2, EchoType, PlainIsOut, OutType
<1>7. Out(t) = a \o stamp /\ Out(u) = Out(t) \o e
  BY <1>3, <1>4
<1> HIDE DEF a, e, w
<1>8. stamp \o e \in Seq(OutChar) /\ (a \o stamp) \o e = a \o (stamp \o e)
  <2>1. a \in Seq(OutChar) /\ stamp \in Seq(OutChar) /\ e \in Seq(OutChar)
    BY <1>3, <1>6
  <2>2. stamp \o e \in Seq(OutChar)
    BY <2>1, CatProperties
  <2> QED  BY <2>1, <2>2, CatAssociative
<1>9. Out(w) = a \o (stamp \o e)
  BY <1>5, <1>7, <1>8
<1>10. w.had_eol <=> m = "MATCH"
  BY <1>4, <1>5
<1> QED  BY <1>1, <1>5, <1>8, <1>9, <1>10 DEF a, e, stamp, m

(* s is where the formatter is when it has read in.                        *)
Follows(s, in) ==
  /\ s.prev_c = IF in = <<>> THEN -1 ELSE in[Len(in)]
  /\ s.had_eol <=> in # <<>> /\ EndsLine(in, Len(in))

(* eol.c looks at two characters; the reference looks at the input.        *)
LEMMA EchoIsDisplayed ==
  ASSUME OptionsOK, NEW in \in Seq(CharIn), NEW c \in CharIn, NEW prev,
         prev = IF in = <<>> THEN -1 ELSE in[Len(in)]
  PROVE  LET in2 == Append(in, c)
             n == Len(in) + 1
         IN  /\ AllMappedAsSaid(in2) => Echo(prev, c) = Displayed(in2, n)
             /\ eol_match(eol_rx, prev, c) = "MATCH" <=> EndsLine(in2, n)
<1> DEFINE in2 == Append(in, c)
           n == Len(in) + 1
           fn == eol_rx.match_func
           a == eol_rx.c_a
           b == eol_rx.c_b
           ab == fn = "ab" /\ prev = a
           ends == c # CR /\ (\/ fn = "a" /\ c = a
                              \/ fn = "a_or_b" /\ c \in {a, b}
                              \/ c = b /\ ab)
           m == eol_match(eol_rx, prev, c)
<1>1. n \in Nat /\ in2[n] = c /\ (in = <<>> <=> n = 1) /\ n >= 1
  OBVIOUS
<1>2. n > 1 => in2[n - 1] = prev
  OBVIOUS
<1>3. fn \in {"a", "ab", "a_or_b"} /\ a \in 0..255 /\ b \in 0..255
  BY OutfmtAssumption DEF OptionsOK
<1>4. n = 1 => ~ab
  <2>1. n = 1 => prev = -1
    BY <1>1
  <2> HIDE DEF n, fn, a, b
  <2>2. a \in Int /\ 0 <= a
    BY <1>3
  <2>3. prev = -1 => prev # a
    BY <2>2
  <2> QED  BY <2>1, <2>3
<1> HIDE DEF in2, n
<1>5. EndsLine(in2, n) <=> ends
  BY <1>1, <1>2, <1>4 DEF EndsLine
<1>6. (n > 1 /\ Held(in2, n - 1)) <=> ab
  BY <1>1, <1>2, <1>4 DEF Held
<1>7. Held(in2, n) <=> fn = "ab" /\ c = a
  BY <1>1 DEF Held
<1>8. Displayed(in2, n) =
        IF ends THEN <<LF>>
        ELSE (IF ab /\ c # CR THEN Shown(prev) ELSE <<>>)
          \o (IF (fn = "ab" /\ c = a) \/ c = CR THEN <<>> ELSE Shown(c))
  <2>1. ab => n > 1 /\ in2[n - 1] = prev
    BY <1>2, <1>6
  <2> HIDE DEF ends, ab
  <2> QED  BY <1>1, <1>5, <1>6, <1>7, <2>1 DEF Displayed
<1>9. m = IF c = CR THEN "IGNORE"
          ELSE IF ends THEN "MATCH"
          ELSE IF fn # "ab" THEN "NOMATCH"
          ELSE IF ab THEN IF c = a THEN "POP_AND_STASH" ELSE "POP"
          ELSE IF c = a THEN "STASH" ELSE "NOMATCH"
  BY <1>3 DEF eol_match, eol_match_a, eol_match_ab, eol_match_a_or_b
<1>10. m = "MATCH" <=> ends
  BY <1>9
<1>11. Shown(c) \in Seq(Plain)
  BY ShownType
<1>12. ab => Shown(prev) \in Seq(Plain)
  <2>1. ab => prev \in CharIn
    BY <1>3, <1>4, <1>1
  <2> QED  BY <2>1, ShownType
<1> HIDE DEF m
<1> DEFINE dc == Drawn(c)
           dp == Drawn(prev)
<1>13. Echo(prev, c) = IF m = "NOMATCH" THEN dc
                       ELSE IF m = "MATCH" THEN <<LF>>
                       ELSE IF m = "POP" THEN dp \o dc
                       ELSE IF m = "POP_AND_STASH" THEN dp
                       ELSE <<>>
  BY DEF Echo, m
<1> HIDE DEF dc, dp
<1>14. ASSUME AllMappedAsSaid(in2) PROVE Echo(prev, c) = Displayed(in2, n)
  <2>0. dc = Shown(c) /\ (ab => dp = Shown(prev))
    <3>1. n \in 1..Len(in2) /\ (n > 1 => n - 1 \in 1..Len(in2))
      BY DEF in2, n
    <3>2. MappedAsSaid(c) /\ (n > 1 => MappedAsSaid(prev))
      BY <1>1, <1>2, <1>14, <3>1 DEF AllMappedAsSaid
    <3>3. ab => n > 1 /\ prev \in CharIn
      BY <1>1, <1>3, <1>4
    <3> HIDE DEF ab
    <3> QED  BY <3>2, <3>3, ShownIs DEF dc, dp
  <2> HIDE DEF ends, ab, fn, a, b
  <2>1. CASE ends
    BY <1>8, <1>9, <1>13, <2>1 DEF ends
  <2>2. CASE ~ends /\ c = CR
    BY <1>8, <1>9, <1>13, <2>2
  <2>3. CASE ~ends /\ c # CR /\ ab
    <3>1. fn = "ab" /\ Shown(prev) \in Seq(Plain) /\ Shown(prev) \o <<>> = Shown(prev)
      BY <1>12, <2>3 DEF ab
    <3>2. CASE c = a
      BY <1>8, <1>9, <1>13, <2>0, <2>3, <3>1, <3>2
    <3>3. CASE c # a
      BY <1>8, <1>9, <1>13, <2>0, <2>3, <3>1, <3>3
    <3> QED  BY <3>2, <3>3
  <2>4. CASE ~ends /\ c # CR /\ ~ab
    BY <1>8, <1>9, <1>11, <1>13, <2>0, <2>4
  <2> QED  BY <2>1, <2>2, <2>3, <2>4
<1> QED  BY <1>5, <1>10, <1>14 DEF m, in2, n

-----------------------------------------------------------------------------
(* The reference grows with the input.                                     *)

LEMMA DisplayedType ==
  ASSUME OptionsOK, NEW in \in Seq(CharIn), NEW k \in 1..Len(in)
  PROVE  Displayed(in, k) \in Seq(Plain)
<1>1. in[k] \in CharIn /\ Shown(in[k]) \in Seq(Plain)
  BY ShownType
<1>2. k > 1 => Shown(in[k - 1]) \in Seq(Plain)
  <2>1. k > 1 => in[k - 1] \in CharIn
    OBVIOUS
  <2> QED  BY <2>1, ShownType
<1>3. <<LF>> \in Seq(Plain) /\ <<>> \in Seq(Plain)
  BY OutChars DEF Plain, LF, STAMP
<1> DEFINE a == IF k > 1 /\ Held(in, k - 1) /\ in[k] # CR THEN Shown(in[k - 1]) ELSE <<>>
           b == IF Held(in, k) \/ in[k] = CR THEN <<>> ELSE Shown(in[k])
<1>4. a \in Seq(Plain) /\ b \in Seq(Plain)
  BY <1>1, <1>2, <1>3
<1>5. Displayed(in, k) = IF EndsLine(in, k) THEN <<LF>> ELSE a \o b
  BY DEF Displayed
<1> HIDE DEF a, b
<1>6. a \o b \in Seq(Plain)
  BY <1>4
<1> QED  BY <1>3, <1>5, <1>6

LEMMA StampAtType ==
  ASSUME OptionsOK, NEW in, NEW k
  PROVE  StampAt(in, k) \in Seq({STAMP}) /\ Stamp \in Seq({STAMP})
BY OutfmtAssumption DEF StampAt, Stamp, OptionsOK

LEMMA StampIsOut ==
  ASSUME NEW str \in Seq({STAMP})
  PROVE  str \in Seq(OutChar)
<1>1. {STAMP} \subseteq OutChar
  BY OutChars
<1>2. \A k \in 1..Len(str) : str[k] \in OutChar
  BY <1>1
<1> QED  BY <1>2

(* What is shown of a character does not depend on what comes later.       *)
LEMMA DisplayedSame ==
  ASSUME NEW in \in Seq(CharIn), NEW c \in CharIn, NEW k \in 1..Len(in)
  PROVE  /\ Displayed(Append(in, c), k) = Displayed(in, k)
         /\ EndsLine(Append(in, c), k) <=> EndsLine(in, k)
         /\ StampAt(Append(in, c), k) = StampAt(in, k)
<1> DEFINE in2 == Append(in, c)
<1>1. in2[k] = in[k] /\ (k > 1 => in2[k - 1] = in[k - 1]) /\ (k > 2 => in2[k - 2] = in[k - 2])
  OBVIOUS
<1>2. k \in Nat /\ k >= 1
  OBVIOUS
<1> HIDE DEF in2
<1>3. EndsLine(in2, k) <=> EndsLine(in, k)
  BY <1>1 DEF EndsLine
<1>4. k > 1 => (EndsLine(in2, k - 1) <=> EndsLine(in, k - 1))
  <2>1. k - 1 > 1 => in2[(k - 1) - 1] = in[(k - 1) - 1]
    BY <1>1, <1>2
  <2> QED  BY <1>1, <2>1 DEF EndsLine
<1>5. Displayed(in2, k) = Displayed(in, k)
  <2>1. (Held(in2, k) <=> Held(in, k)) /\ (k > 1 => (Held(in2, k - 1) <=> Held(in, k - 1)))
    BY <1>1 DEF Held
  <2> QED  BY <1>1, <1>3, <2>1 DEF Displayed
<1>6. StampAt(in2, k) = StampAt(in, k)
  BY <1>2, <1>4 DEF StampAt
<1> QED  BY <1>3, <1>5, <1>6 DEF in2

(* One character more of input is one piece more of screen. *)
LEMMA ScreenGrows ==
  ASSUME OptionsOK, NEW in \in Seq(CharIn), NEW c \in CharIn
  PROVE  LET in2 == Append(in, c)
             n == Len(in) + 1
         IN  /\ Screen(in) \in Seq(Plain) /\ StampedScreen(in) \in Seq(OutChar)
             /\ Displayed(in2, n) \in Seq(Plain)
             /\ StampAt(in2, n) \in Seq(OutChar)
             /\ Screen(in2) = Screen(in) \o Displayed(in2, n)
             /\ StampedScreen(in2) = StampedScreen(in) \o (StampAt(in2, n) \o Displayed(in2, n))
<1> DEFINE in2 == Append(in, c)
           n == Len(in) + 1
           e(k) == StampAt(in, k) \o Displayed(in, k)
           e2(k) == StampAt(in2, k) \o Displayed(in2, k)
           ss == [k \in 1..Len(in) |-> Displayed(in, k)]
           tt == [k \in 1..Len(in) |-> e(k)]
           ss2 == [k \in 1..Len(in2) |-> Displayed(in2, k)]
           tt2 == [k \in 1..Len(in2) |-> e2(k)]
<1>1. in2 \in Seq(CharIn) /\ Len(in2) = n /\ n \in 1..Len(in2) /\ Len(in) \in Nat
  OBVIOUS
<1>2. \A k \in 1..Len(in) : Displayed(in, k) \in Seq(Plain)
  BY DisplayedType
<1>3. Displayed(in2, n) \in Seq(Plain)
  <2> HIDE DEF in2, n
  <2> QED  BY <1>1, DisplayedType
<1>4. \A k : StampAt(in, k) \in Seq(OutChar) /\ StampAt(in2, k) \in Seq(OutChar)
  <2>1. \A k : StampAt(in, k) \in Seq({STAMP}) /\ StampAt(in2, k) \in Seq({STAMP})
    BY StampAtType
  <2> QED  BY <2>1, StampIsOut
<1>5. \A str \in Seq(Plain) : str \in Seq(OutChar)
  BY PlainIsOut
<1>6. \A k \in 1..Len(in) : e(k) \in Seq(OutChar)
  BY <1>2, <1>4, <1>5
<1>7. e2(n) \in Seq(OutChar)
  BY <1>3, <1>4, <1>5
<1>8. ss \in Seq(Seq(Plain)) /\ tt \in Seq(Seq(OutChar)) /\ Len(ss) = Len(in) /\ Len(tt) = Len(in)
  <2> HIDE DEF e
  <2> QED  BY <1>1, <1>2, <1>6
<1>9. \A k \in 1..Len(in) : Displayed(in2, k) = Displayed(in, k) /\ e2(k) = e(k)
  BY DisplayedSame
<1>10. ss2 = Append(ss, Displayed(in2, n)) /\ tt2 = Append(tt, e2(n))
  <2> DEFINE d(k) == Displayed(in, k)
             d2(k) == Displayed(in2, k)
  <2>1. \A k \in 1..Len(in) : d2(k) = d(k) /\ e2(k) = e(k)
    BY <1>9
  <2>2. /\ ss = [k \in 1..Len(in) |-> d(k)]
        /\ ss2 = [k \in 1..n |-> d2(k)] /\ tt2 = [k \in 1..n |-> e2(k)]
    BY <1>1
  <2> HIDE DEF e, e2, d, d2, in2
  <2>3. [k \in 1..n |-> d2(k)] = Append([k \in 1..Len(in) |-> d(k)], d2(n))
    BY <1>1, <2>1
  <2>4. [k \in 1..n |-> e2(k)] = Append([k \in 1..Len(in) |-> e(k)], e2(n))
    BY <1>1, <2>1
  <2> QED  BY <2>2, <2>3, <2>4 DEF d2
<1> HIDE DEF ss, tt, ss2, tt2, e, e2, in2, n
<1>11. FlattenSeq(ss2) = FlattenSeq(ss) \o Displayed(in2, n) /\ FlattenSeq(ss) \in Seq(Plain)
  BY <1>3, <1>8, <1>10, FlattenAppend, FlattenType
<1>12. FlattenSeq(tt2) = FlattenSeq(tt) \o e2(n) /\ FlattenSeq(tt) \in Seq(OutChar)
  BY <1>7, <1>8, <1>10, FlattenAppend, FlattenType
<1>13. /\ Screen(in) = FlattenSeq(ss) /\ Screen(in2) = FlattenSeq(ss2)
       /\ StampedScreen(in) = FlattenSeq(tt) /\ StampedScreen(in2) = FlattenSeq(tt2)
  BY DEF Screen, StampedScreen, ss, tt, ss2, tt2, e, e2
<1> QED  BY <1>3, <1>4, <1>11, <1>12, <1>13 DEF e2, in2, n

-----------------------------------------------------------------------------
(* The screen without its timestamps.                                      *)

LEMMA WithoutStampsCat ==
  ASSUME NEW s \in Seq(OutChar), NEW t \in Seq(OutChar)
  PROVE  WithoutStamps(s \o t) = WithoutStamps(s) \o WithoutStamps(t)
<1> DEFINE e(x) == IF x = STAMP THEN <<>> ELSE <<x>>
           ss == [k \in 1..Len(s) |-> e(s[k])]
           tt == [k \in 1..Len(t) |-> e(t[k])]
           st == s \o t
           uu == [k \in 1..Len(st) |-> e(st[k])]
<1>1. /\ st \in Seq(OutChar) /\ Len(st) = Len(s) + Len(t) /\ Len(s) \in Nat /\ Len(t) \in Nat
      /\ \A k \in 1..Len(s) : st[k] = s[k] /\ s[k] \in OutChar
      /\ \A k \in 1..Len(t) : st[Len(s) + k] = t[k] /\ t[k] \in OutChar
  BY CatProperties
<1>2. \A x \in OutChar : e(x) \in Seq(OutChar)
  OBVIOUS
<1> HIDE DEF st, e
<1>3. ss \in Seq(Seq(OutChar)) /\ Len(ss) = Len(s) /\ \A k \in 1..Len(s) : ss[k] = e(s[k])
  BY <1>1, <1>2
<1>4. tt \in Seq(Seq(OutChar)) /\ Len(tt) = Len(t) /\ \A k \in 1..Len(t) : tt[k] = e(t[k])
  BY <1>1, <1>2
<1>5. uu \in Seq(Seq(OutChar)) /\ Len(uu) = Len(st) /\ \A k \in 1..Len(st) : uu[k] = e(st[k])
  BY <1>1, <1>2
<1> DEFINE cat == ss \o tt
<1> HIDE DEF ss, tt, uu
<1>6. /\ cat \in Seq(Seq(OutChar)) /\ Len(cat) = Len(st)
      /\ \A k \in 1..Len(s) : cat[k] = ss[k]
      /\ \A k \in 1..Len(t) : cat[Len(s) + k] = tt[k]
  <2> DEFINE V == Seq(OutChar)
  <2>1. ss \in Seq(V) /\ tt \in Seq(V)
    BY <1>3, <1>4
  <2> HIDE DEF V
  <2>2. /\ cat \in Seq(V) /\ Len(cat) = Len(ss) + Len(tt)
        /\ \A k \in 1..Len(ss) : cat[k] = ss[k]
        /\ \A k \in 1..Len(tt) : cat[Len(ss) + k] = tt[k]
    BY <2>1, CatProperties
  <2> HIDE DEF cat
  <2> QED  BY <1>1, <1>3, <1>4, <2>2 DEF V
<1> HIDE DEF cat
<1>7. uu = cat
  <2>1. ASSUME NEW k \in 1..Len(uu) PROVE uu[k] = cat[k]
    <3>1. CASE k <= Len(s)
      BY <1>1, <1>3, <1>5, <1>6, <3>1
    <3>2. CASE ~(k <= Len(s))
      <4>1. k - Len(s) \in 1..Len(t) /\ Len(s) + (k - Len(s)) = k
        BY <1>1, <1>5, <3>2
      <4>2. st[k] = t[k - Len(s)] /\ cat[k] = tt[k - Len(s)]
        BY <1>1, <1>6, <4>1
      <4> QED  BY <1>4, <1>5, <4>1, <4>2
    <3> QED  BY <3>1, <3>2
  <2> QED  BY <1>5, <1>6, <2>1, SameElements
<1>8. FlattenSeq(uu) = FlattenSeq(ss) \o FlattenSeq(tt)
  BY <1>3, <1>4, <1>7, FlattenCat DEF cat
<1>9. WithoutStamps(s) = FlattenSeq(ss) /\ WithoutStamps(t) = FlattenSeq(tt)
  BY DEF WithoutStamps, ss, tt, e
<1>10. WithoutStamps(s \o t) = FlattenSeq(uu)
  BY DEF WithoutStamps, uu, st, e
<1> QED  BY <1>8, <1>9, <1>10

LEMMA WithoutStampsOne ==
  /\ WithoutStamps(<<>>) = <<>>
  /\ \A x \in OutChar : WithoutStamps(<<x>>) = IF x = STAMP THEN <<>> ELSE <<x>>
<1>1. WithoutStamps(<<>>) = FlattenSeq(<<>>)
  BY DEF WithoutStamps
<1>2. ASSUME NEW x \in OutChar PROVE WithoutStamps(<<x>>) = IF x = STAMP THEN <<>> ELSE <<x>>
  <2> DEFINE d == IF x = STAMP THEN <<>> ELSE <<x>>
  <2>1. [k \in 1..Len(<<x>>) |-> IF <<x>>[k] = STAMP THEN <<>> ELSE <<<<x>>[k]>>] = <<d>>
    OBVIOUS
  <2>2. d \in Seq(OutChar)
    OBVIOUS
  <2> HIDE DEF d
  <2>3. FlattenSeq(<<d>>) = d
    BY <2>2, FlattenSingle
  <2>4. WithoutStamps(<<x>>) = FlattenSeq(<<d>>)
    BY <2>1 DEF WithoutStamps
  <2> QED  BY <2>3, <2>4 DEF d
<1> QED  BY <1>1, <1>2, FlattenEmpty

LEMMA WithoutStampsPlain ==
  ASSUME NEW s \in Seq(Plain)
  PROVE  WithoutStamps(s) = s
<1> DEFINE T == {t \in Seq(Plain) : WithoutStamps(t) = t}
<1>1. <<>> \in T
  BY WithoutStampsOne
<1>2. ASSUME NEW t \in Seq(Plain), NEW x \in Plain, t \in T PROVE Append(t, x) \in T
  <2>1. t \in Seq(OutChar) /\ <<x>> \in Seq(OutChar) /\ x \in OutChar /\ x # STAMP
    BY PlainIsOut DEF Plain
  <2>2. WithoutStamps(t \o <<x>>) = t \o <<x>>
    BY <1>2, <2>1, WithoutStampsCat, WithoutStampsOne
  <2>3. Append(t, x) = t \o <<x>> /\ Append(t, x) \in Seq(Plain)
    OBVIOUS
  <2> QED  BY <2>2, <2>3
<1> HIDE DEF T
<1>3. Seq(Plain) \subseteq T
  BY <1>1, <1>2, SeqInduction
<1> QED  BY <1>3 DEF T

LEMMA WithoutStampsStamps ==
  ASSUME NEW s \in Seq({STAMP})
  PROVE  WithoutStamps(s) = <<>>
<1> DEFINE T == {t \in Seq({STAMP}) : WithoutStamps(t) = <<>>}
<1>1. <<>> \in T
  BY WithoutStampsOne
<1>2. ASSUME NEW t \in Seq({STAMP}), NEW x \in {STAMP}, t \in T PROVE Append(t, x) \in T
  <2>1. t \in Seq(OutChar) /\ <<x>> \in Seq(OutChar) /\ x \in OutChar /\ x = STAMP
    <3>1. x \in OutChar /\ x = STAMP
      BY OutChars
    <3> QED  BY <3>1, StampIsOut
  <2>2. WithoutStamps(t \o <<x>>) = WithoutStamps(t) \o WithoutStamps(<<x>>)
    BY <2>1, WithoutStampsCat
  <2>3. WithoutStamps(<<x>>) = <<>> /\ WithoutStamps(t) = <<>>
    BY <1>2, <2>1, WithoutStampsOne
  <2>4. Append(t, x) = t \o <<x>> /\ Append(t, x) \in Seq({STAMP})
    OBVIOUS
  <2> QED  BY <2>2, <2>3, <2>4
<1> HIDE DEF T
<1>3. Seq({STAMP}) \subseteq T
  BY <1>1, <1>2, SeqInduction
<1> QED  BY <1>3 DEF T

-----------------------------------------------------------------------------
(* The loop.                                                               *)

SevenBit(in) == \A k \in 1..Len(in) : in[k] >= 0

(* What has been shown when in has been read.                              *)
Shows(s, in) ==
  /\ s \in FmtState /\ in \in Seq(CharIn) /\ Follows(s, in)
  /\ AllMappedAsSaid(in) =>
       /\ WithoutStamps(Out(s)) = Screen(in)
       /\ SevenBit(in) => Out(s) = IF in = <<>> THEN Stamp ELSE StampedScreen(in)

LEMMA ScreenType ==
  ASSUME OptionsOK, NEW in \in Seq(CharIn)
  PROVE  Screen(in) \in Seq(Plain)
<1>1. 0 \in CharIn
  BY DEF CharIn
<1> QED  BY <1>1, ScreenGrows

LEMMA ScreenEmpty == Screen(<<>>) = <<>> /\ StampedScreen(<<>>) = <<>>
BY FlattenEmpty DEF Screen, StampedScreen

(* One character more is shown. *)
LEMMA WriteCharKeeps ==
  ASSUME OptionsOK, NEW s, NEW in, Shows(s, in), NEW c \in CharIn
  PROVE  Shows(write_char(s, c), Append(in, c))
<1> DEFINE t == write_char(s, c)
           in2 == Append(in, c)
           n == Len(in) + 1
           e == Echo(s.prev_c, c)
           st == IF s.had_eol THEN Stamp ELSE <<>>
           d == Displayed(in2, n)
<1>1. s \in FmtState /\ in \in Seq(CharIn) /\ Follows(s, in)
  BY DEF Shows
<1>2. /\ t \in FmtState /\ st \o e \in Seq(OutChar) /\ Out(t) = Out(s) \o (st \o e)
      /\ t.prev_c = c /\ (t.had_eol <=> eol_match(eol_rx, s.prev_c, c) = "MATCH")
  BY <1>1, WriteCharShows
<1>3. (AllMappedAsSaid(in2) => e = d)
      /\ (eol_match(eol_rx, s.prev_c, c) = "MATCH" <=> EndsLine(in2, n))
  BY <1>1, EchoIsDisplayed DEF Follows
<1>4. /\ in2 \in Seq(CharIn) /\ Len(in2) = n /\ in2[n] = c /\ in2 # <<>> /\ n \in Nat
      /\ (n = 1 <=> in = <<>>) /\ \A k \in 1..Len(in) : in2[k] = in[k]
  BY <1>1
<1>5. /\ Screen(in) \in Seq(Plain) /\ StampedScreen(in) \in Seq(OutChar)
      /\ d \in Seq(Plain)
      /\ StampAt(in2, n) \in Seq(OutChar)
      /\ Screen(in2) = Screen(in) \o d
      /\ StampedScreen(in2) = StampedScreen(in) \o (StampAt(in2, n) \o d)
  BY <1>1, ScreenGrows
<1>6. Out(s) \in Seq(OutChar) /\ d \in Seq(OutChar)
  BY <1>1, <1>5, OutType, PlainIsOut
<1>7. st \in Seq({STAMP}) /\ Stamp \in Seq({STAMP}) /\ st \in Seq(OutChar) /\ Stamp \in Seq(OutChar)
  <2>1. Stamp \in Seq({STAMP}) /\ <<>> \in Seq({STAMP})
    BY StampAtType
  <2> QED  BY <2>1, StampIsOut
<1>8. Follows(t, in2)
  <2> HIDE DEF t, in2, n
  <2> QED  BY <1>2, <1>3, <1>4 DEF Follows
<1>9. st = IF in # <<>> /\ EndsLine(in, Len(in)) THEN Stamp ELSE <<>>
  BY <1>1 DEF Follows
<1>10. in # <<>> => st = StampAt(in2, n)
  <2> SUFFICES ASSUME in # <<>> PROVE st = StampAt(in2, n)
    OBVIOUS
  <2>1. Len(in) \in 1..Len(in) /\ n # 1 /\ n - 1 = Len(in)
    BY <1>1
  <2>2. EndsLine(in2, Len(in)) <=> EndsLine(in, Len(in))
    BY <1>1, <2>1, DisplayedSame
  <2> HIDE DEF st, in2, n
  <2> QED  BY <1>9, <2>1, <2>2 DEF StampAt
<1>11. in = <<>> => st = <<>> /\ StampAt(in2, n) = Stamp
  BY <1>4, <1>9 DEF StampAt
<1> HIDE DEF t, in2, n, e, st, d
<1>12. ASSUME AllMappedAsSaid(in2)
       PROVE  /\ Out(t) = Out(s) \o (st \o d) /\ st \o d \in Seq(OutChar)
              /\ WithoutStamps(Out(s)) = Screen(in)
              /\ SevenBit(in) => Out(s) = IF in = <<>> THEN Stamp ELSE StampedScreen(in)
  <2>1. \A k \in 1..Len(in) : k \in 1..Len(in2)
    BY <1>1, <1>4 DEF n
  <2>2. AllMappedAsSaid(in)
    BY <1>4, <1>12, <2>1 DEF AllMappedAsSaid
  <2> QED  BY <1>2, <1>3, <1>12, <2>2 DEF Shows
<1>13. ASSUME AllMappedAsSaid(in2) PROVE WithoutStamps(Out(t)) = Screen(in2)
  <2>1. WithoutStamps(st \o d) = WithoutStamps(st) \o WithoutStamps(d)
    BY <1>6, <1>7, WithoutStampsCat
  <2>2. WithoutStamps(st) = <<>> /\ WithoutStamps(d) = d
    BY <1>5, <1>7, WithoutStampsStamps, WithoutStampsPlain
  <2>3. WithoutStamps(st \o d) = d
    BY <1>6, <2>1, <2>2
  <2>4. st \o d \in Seq(OutChar)
    BY <1>12, <1>13
  <2>5. WithoutStamps(Out(t)) = WithoutStamps(Out(s)) \o WithoutStamps(st \o d)
    BY <1>6, <1>12, <1>13, <2>4, WithoutStampsCat
  <2> QED  BY <1>5, <1>12, <1>13, <2>3, <2>5
<1>14. ASSUME AllMappedAsSaid(in2), SevenBit(in2) PROVE Out(t) = StampedScreen(in2)
  <2>1. SevenBit(in)
    <3>1. \A k \in 1..Len(in) : k \in 1..Len(in2)
      BY <1>1, <1>4 DEF n
    <3> QED  BY <1>4, <1>14, <3>1 DEF SevenBit
  <2>2. CASE in = <<>>
    <3>1. Out(s) = Stamp /\ StampedScreen(in) = <<>> /\ st = <<>> /\ StampAt(in2, n) = Stamp
  BY <1>11, <1>12, <1>14, <2>1, <2>2, ScreenEmpty
    <3>2. <<>> \o d = d /\ Stamp \o d \in Seq(OutChar) /\ <<>> \o (Stamp \o d) = Stamp \o d
      BY <1>6, <1>7
    <3> QED  BY <1>5, <1>12, <1>14, <3>1, <3>2
  <2>3. CASE in # <<>>
    BY <1>1, <1>5, <1>10, <1>12, <1>14, <2>1, <2>3
  <2> QED  BY <2>2, <2>3
<1> QED  BY <1>2, <1>4, <1>8, <1>13, <1>14 DEF Shows, t, in2

(* The loop is a recursion that has a value for every character.           *)
LEMMA WriteCharsRecurs ==
  ASSUME OptionsOK, NEW first \in FmtState, NEW data \in Seq(CharIn)
  PROVE  \E f \in UpTo(Len(data), FmtState) :
           /\ \A k \in 0..Len(data) :
                f[k] = IF k = 0 THEN first ELSE write_char(f[k - 1], data[k])
           /\ write_chars(first, data) = f[Len(data)]
<1> DEFINE N == Len(data)
           step == [p \in FmtState \X (1..N) |-> write_char(p[1], data[p[2]])]
           Obeys(g) == g = [k \in 0..N |-> IF k = 0 THEN first
                                           ELSE write_char(g[k - 1], data[k])]
           after == CHOOSE g : Obeys(g)
<1>1. N \in Nat /\ \A k \in 1..N : data[k] \in CharIn
  OBVIOUS
<1>2. write_chars(first, data) = after[N]
  BY DEF write_chars
<1> HIDE DEF N
<1>3. \A v \in FmtState, k \in 1..N : write_char(v, data[k]) \in FmtState
  BY <1>1, WriteCharShows
<1>4. step \in Steps(N, FmtState) /\ \A v \in FmtState, k \in 1..N :
                                       step[<<v, k>>] = write_char(v, data[k])
  BY <1>3 DEF Steps
<1> HIDE DEF step
<1>5. PICK f \in UpTo(N, FmtState) : Recurs(f, N, first, step)
  BY <1>1, <1>4, RecursionExists
<1>6. ASSUME NEW k \in 0..N
      PROVE  f[k] = IF k = 0 THEN first ELSE write_char(f[k - 1], data[k])
  <2>1. k # 0 => k \in 1..N /\ f[k - 1] \in FmtState
    BY <1>1, <1>5 DEF UpTo
  <2> QED  BY <1>4, <1>5, <2>1 DEF Recurs
<1>7. Obeys(f)
  BY <1>5, <1>6 DEF UpTo
<1>8. Obeys(after)
  BY <1>7
<1> HIDE DEF after
<1>9. after[N] = f[N]
  <2> DEFINE T == {k \in 0..N : after[k] = f[k]}
  <2>1. \A k \in 0..N : after[k] = IF k = 0 THEN first ELSE write_char(after[k - 1], data[k])
    BY <1>8
  <2>2. 0 \in T
    BY <1>1, <1>6, <2>1
  <2>3. ASSUME NEW k \in 0..(N - 1), k \in T PROVE k + 1 \in T
    <3>1. k + 1 \in 0..N /\ k + 1 # 0 /\ (k + 1) - 1 = k
      BY <1>1
    <3> QED  BY <1>6, <2>1, <2>3, <3>1
  <2> HIDE DEF T
  <2>4. 0..N \subseteq T
    BY <1>1, <2>2, <2>3, InductionUpTo
  <2> QED  BY <1>1, <2>4 DEF T
<1> QED  BY <1>2, <1>5, <1>6, <1>9 DEF N

(* All the characters of a chunk are shown. *)
LEMMA WriteCharsKeeps ==
  ASSUME OptionsOK, NEW first, NEW in \in Seq(CharIn), Shows(first, in),
         NEW data \in Seq(CharIn)
  PROVE  Shows(write_chars(first, data), in \o data)
<1> DEFINE N == Len(data)
           read(k) == in \o SubSeq(data, 1, k)
<1>1. first \in FmtState
  BY DEF Shows
<1>2. PICK f \in UpTo(N, FmtState) :
        /\ \A k \in 0..N : f[k] = IF k = 0 THEN first ELSE write_char(f[k - 1], data[k])
        /\ write_chars(first, data) = f[N]
  BY <1>1, WriteCharsRecurs
<1> DEFINE T == {k \in 0..N : Shows(f[k], read(k))}
<1>3. N \in Nat
  OBVIOUS
<1>4. 0 \in T
  <2>1. SubSeq(data, 1, 0) = <<>> /\ in \o <<>> = in
    OBVIOUS
  <2>2. read(0) = in /\ 0 \in 0..N
    BY <1>3, <2>1
  <2>3. f[0] = first
    BY <1>2, <2>2
  <2> HIDE DEF N, read
  <2> QED  BY <2>2, <2>3
<1>5. ASSUME NEW k \in 0..(N - 1), k \in T PROVE k + 1 \in T
  <2>1. k + 1 \in 0..N /\ k + 1 # 0 /\ (k + 1) - 1 = k /\ data[k + 1] \in CharIn
    BY <1>3
  <2>2. f[k + 1] = write_char(f[k], data[k + 1])
    BY <1>2, <2>1
  <2>3. read(k + 1) = Append(read(k), data[k + 1])
    <3>1. SubSeq(data, 1, k + 1) = Append(SubSeq(data, 1, k), data[k + 1])
      OBVIOUS
    <3>2. SubSeq(data, 1, k) \in Seq(CharIn)
      OBVIOUS
    <3> DEFINE q == SubSeq(data, 1, k)
               x == data[k + 1]
    <3>3. q \in Seq(CharIn) /\ x \in CharIn
      BY <2>1, <3>2
    <3> HIDE DEF q, x
    <3>4. in \o Append(q, x) = Append(in \o q, x)
      BY <3>3
    <3> QED  BY <3>1, <3>4 DEF q, x
  <2> HIDE DEF N, read
  <2>4. Shows(f[k], read(k))
    BY <1>5
  <2>5. Shows(write_char(f[k], data[k + 1]), Append(read(k), data[k + 1]))
    BY <2>1, <2>4, WriteCharKeeps
  <2> QED  BY <2>1, <2>2, <2>3, <2>5
<1>6. read(N) = in \o data
  OBVIOUS
<1> HIDE DEF T, N, read
<1>7. 0..N \subseteq T
  BY <1>3, <1>4, <1>5, InductionUpTo
<1>8. Shows(f[N], read(N))
  BY <1>3, <1>7 DEF T
<1> QED  BY <1>2, <1>6, <1>8

-----------------------------------------------------------------------------
(* The invariant: between the calls everything read has been shown, and is *)
(* on the terminal; the formatter is where it is when it has read in.      *)

OutfmtInv ==
  /\ OptionsOK /\ exiting \in BOOLEAN
  /\ State \in FmtState /\ o.len = 0
  /\ ~exiting => input \in Seq(CharIn) /\ Follows(State, input)
  /\ ~exiting /\ AllMappedAsSaid(input) =>
       /\ WithoutStamps(term) = Screen(input)
       /\ SevenBit(input) => term = StampedScreen(input)

(* Nothing has been read, and nothing is shown. *)
LEMMA OutfmtInvInit == Init => OutfmtInv
<1> SUFFICES ASSUME Init PROVE OutfmtInv
  OBVIOUS
<1> USE DEF Init
<1>1. OptionsOK
  BY DEF OptionsOK
<1>2. BufSize \in Nat /\ 0 \in OutChar /\ -1 \in -128..127 /\ 0 \in 0..BufSize
  BY OutChars, OutfmtAssumption
<1>3. State \in FmtState
  <2>1. FALSE \in Overruns
    BY DEF Overruns
  <2>2. o.overrun \in Overruns /\ o.had_eol \in BOOLEAN
    <3>1. o.overrun = FALSE /\ o.had_eol = FALSE
      OBVIOUS
    <3> QED  BY <2>1, <3>1, Zenon
  <2>3. /\ o.buf \in [0..(BufSize - 1) -> OutChar] /\ o.len \in 0..BufSize
        /\ o.prev_c \in -128..127 /\ o.last_c_flushed \in OutChar /\ term \in Seq(OutChar)
    BY <1>2
  <2> HIDE DEF Init
  <2> QED  BY <2>2, <2>3 DEF State, FmtState
<1>4. Follows(State, input)
  BY DEF Follows, State
<1>5. WithoutStamps(term) = Screen(input) /\ term = StampedScreen(input)
  BY ScreenEmpty, WithoutStampsOne
<1>6. input \in Seq(CharIn)
  <2>1. input = <<>>
    OBVIOUS
  <2> QED  BY <2>1
<1>7. exiting \in BOOLEAN /\ o.len = 0
  OBVIOUS
<1> QED  BY <1>1, <1>3, <1>4, <1>5, <1>6, <1>7 DEF OutfmtInv

(* A character at the start of the output, or what is taken for it: one    *)
(* after a negative character.                                             *)
LEMMA FirstShows ==
  ASSUME OutfmtInv, ~exiting
  PROVE  Shows(IF o.prev_c < 0 THEN print_timestamp(State) ELSE State, input)
<1> DEFINE s == State
<1>1. /\ OptionsOK /\ s \in FmtState /\ s.len = 0 /\ s.term = term /\ s.prev_c = o.prev_c
      /\ input \in Seq(CharIn) /\ Follows(s, input)
      /\ AllMappedAsSaid(input) => /\ WithoutStamps(term) = Screen(input)
                                   /\ SevenBit(input) => term = StampedScreen(input)
  BY DEF OutfmtInv, State
<1> HIDE DEF s
<1>2. term \in Seq(OutChar) /\ Out(s) = term
  <2>1. term \in Seq(OutChar)
    BY <1>1 DEF FmtState
  <2>2. [k \in 1..s.len |-> s.buf[k - 1]] = <<>>
    BY <1>1
  <2> QED  BY <1>1, <2>1, <2>2 DEF Out
<1>3. CASE o.prev_c < 0
  <2> DEFINE t == print_timestamp(s)
  <2>1. Extends(t, s, Stamp)
    BY <1>1, StampShows
  <2> HIDE DEF t
  <2>2. /\ t \in FmtState /\ Stamp \in Seq(OutChar) /\ Out(t) = term \o Stamp
        /\ t.prev_c = s.prev_c /\ t.had_eol = s.had_eol
    BY <1>2, <2>1 DEF Extends
  <2>3. Follows(t, input)
    BY <1>1, <2>2 DEF Follows
  <2>4. AllMappedAsSaid(input) => WithoutStamps(Out(t)) = Screen(input)
    <3>1. WithoutStamps(Stamp) = <<>>
      BY <1>1, StampAtType, WithoutStampsStamps
    <3>2. WithoutStamps(Out(t)) = WithoutStamps(term) \o WithoutStamps(Stamp)
      BY <1>2, <2>2, WithoutStampsCat
    <3>3. Screen(input) \in Seq(Plain)
      BY <1>1, ScreenType
    <3>4. Screen(input) \o <<>> = Screen(input)
      BY <3>3
    <3> QED  BY <1>1, <3>1, <3>2, <3>4
  <2>5. SevenBit(input) => input = <<>>
    <3>1. input # <<>> => Len(input) \in 1..Len(input) /\ input[Len(input)] = o.prev_c
      BY <1>1 DEF Follows
    <3>2. o.prev_c \in Int
      <4>1. s.prev_c \in -128..127
        BY <1>1 DEF FmtState
      <4> QED  BY <1>1, <4>1
    <3> QED  BY <1>3, <3>1, <3>2 DEF SevenBit
  <2>6. AllMappedAsSaid(input) /\ SevenBit(input) => Out(t) = Stamp
    <3>1. <<>> \o Stamp = Stamp
      BY <2>2
    <3> SUFFICES ASSUME AllMappedAsSaid(input), SevenBit(input) PROVE Out(t) = Stamp
      OBVIOUS
    <3>2. input = <<>> /\ term = StampedScreen(input)
      BY <1>1, <2>5
    <3>3. term = <<>>
      BY <3>2, ScreenEmpty
    <3> QED  BY <2>2, <3>1, <3>3
  <2> QED  BY <1>1, <1>3, <2>2, <2>3, <2>4, <2>5, <2>6 DEF Shows, s, t
<1>4. CASE ~(o.prev_c < 0)
  <2>1. input # <<>>
    BY <1>1, <1>4 DEF Follows
  <2> QED  BY <1>1, <1>2, <1>4, <2>1 DEF Shows, s
<1> QED  BY <1>3, <1>4

(* The reference depends on the options alone. *)
LEMMA ReferenceSame ==
  ASSUME UNCHANGED options, NEW in, NEW s
  PROVE  /\ Screen(in)' = Screen(in) /\ StampedScreen(in)' = StampedScreen(in)
         /\ Follows(s, in)' <=> Follows(s, in)
         /\ AllMappedAsSaid(in)' <=> AllMappedAsSaid(in)
         /\ FmtState' = FmtState
<1>1. eol_rx' = eol_rx /\ charmap_rx' = charmap_rx /\ timestamp' = timestamp /\ color' = color
  BY DEF options
<1>2. \A k : EndsLine(in, k)' <=> EndsLine(in, k)
  BY <1>1 DEF EndsLine
<1>3. \A c : Shown(c)' = Shown(c)
  BY <1>1 DEF Shown, Colored
<1>4. \A k : Displayed(in, k)' = Displayed(in, k)
  BY <1>1, <1>2, <1>3 DEF Displayed, Held
<1>5. \A k : StampAt(in, k)' = StampAt(in, k)
  BY <1>1, <1>2 DEF StampAt, Stamp
<1>6. Follows(s, in)' <=> Follows(s, in)
  BY <1>2 DEF Follows
<1>7. AllMappedAsSaid(in)' <=> AllMappedAsSaid(in)
  BY <1>1 DEF AllMappedAsSaid, MappedAsSaid
<1>8. FmtState' = FmtState
  BY <1>1 DEF FmtState, Overruns
<1> QED  BY <1>4, <1>5, <1>6, <1>7, <1>8 DEF Screen, StampedScreen

LEMMA UpdateIs ==
  ASSUME NEW s \in FmtState, Update(s)
  PROVE  State' = s /\ o'.len = s.len /\ term' = s.term
BY DEF Update, State, FmtState

(* outfmt_write(): a timestamp at the start, the loop, and a flush. *)
LEMMA WriteKeeps ==
  ASSUME OutfmtInv, NEW data \in Chunks, outfmt_write(data)
  PROVE  OutfmtInv'
<1> DEFINE first == IF o.prev_c < 0 THEN print_timestamp(State) ELSE State
           s == write_chars(first, data)
           t == flush(s)
           in == input \o data
<1>1. /\ ~exiting /\ data # <<>> /\ Update(t) /\ input' = in
      /\ UNCHANGED <<options, exiting>>
  BY DEF outfmt_write
<1>2. OptionsOK /\ input \in Seq(CharIn) /\ data \in Seq(CharIn)
  <2>1. data \in Seq(-128..127)
    BY OutfmtAssumption
  <2> QED  BY <1>1, <2>1 DEF OutfmtInv, CharIn
<1>3. Shows(first, input)
  BY <1>1, FirstShows
<1> HIDE DEF first
<1>4. Shows(s, in)
  BY <1>2, <1>3, WriteCharsKeeps
<1> HIDE DEF s
<1>5. /\ s \in FmtState /\ in \in Seq(CharIn) /\ Follows(s, in)
      /\ AllMappedAsSaid(in) => /\ WithoutStamps(Out(s)) = Screen(in)
                                /\ SevenBit(in) => Out(s) = StampedScreen(in)
  <2>1. in # <<>>
    BY <1>1, <1>2
  <2> HIDE DEF in
  <2> QED  BY <1>4, <2>1 DEF Shows
<1>6. Extends(t, s, <<>>) /\ t.len = 0 /\ t.term = Out(s)
  BY <1>5, FlushShows
<1> HIDE DEF t, in
<1>7. t \in FmtState /\ Follows(t, in)
  BY <1>5, <1>6 DEF Extends, Follows
<1>8. State' = t /\ o'.len = 0 /\ term' = Out(s)
  BY <1>1, <1>6, <1>7, UpdateIs
<1>9. eol_rx' = eol_rx /\ charmap_rx' = charmap_rx /\ timestamp' = timestamp /\ color' = color
      /\ exiting' = exiting
  BY <1>1 DEF options
<1>10. OptionsOK' /\ exiting' \in BOOLEAN
  BY <1>1, <1>2, <1>9 DEF OptionsOK, OutfmtInv
<1>11. Follows(State, input)'
  BY <1>1, <1>7, <1>8, ReferenceSame
<1>12. (AllMappedAsSaid(input) => WithoutStamps(term) = Screen(input))'
  <2>1. AllMappedAsSaid(input)' <=> AllMappedAsSaid(in)
    BY <1>1, ReferenceSame
  <2>2. Screen(input)' = Screen(in)
    BY <1>1, ReferenceSame
  <2>3. AllMappedAsSaid(in) => WithoutStamps(Out(s)) = Screen(in)
    BY <1>5
  <2> QED  BY <1>8, <2>1, <2>2, <2>3
<1>13. (AllMappedAsSaid(input) /\ SevenBit(input) => term = StampedScreen(input))'
  <2>1. AllMappedAsSaid(input)' <=> AllMappedAsSaid(in)
    BY <1>1, ReferenceSame
  <2>2. StampedScreen(input)' = StampedScreen(in)
    BY <1>1, ReferenceSame
  <2>3. SevenBit(input)' <=> SevenBit(in)
    BY <1>1 DEF SevenBit
  <2>4. AllMappedAsSaid(in) /\ SevenBit(in) => Out(s) = StampedScreen(in)
    BY <1>5
  <2> QED  BY <1>8, <2>1, <2>2, <2>3, <2>4
<1>14. (State \in FmtState)'
  BY <1>1, <1>7, <1>8, ReferenceSame
<1> QED  BY <1>1, <1>5, <1>8, <1>10, <1>11, <1>12, <1>13, <1>14 DEF OutfmtInv

(* outfmt_endline() flushes and adds at most a newline. *)
LEMMA EndlineType ==
  ASSUME NEW s \in FmtState
  PROVE  outfmt_endline(s) \in FmtState /\ outfmt_endline(s).len = 0
<1> DEFINE t == flush(s)
           u == [t EXCEPT !.term = Append(@, LF), !.last_c_flushed = 0]
<1>1. t \in FmtState /\ t.len = 0
  BY FlushShows DEF Extends
<1>2. LF \in OutChar /\ 0 \in OutChar
  BY OutChars
<1>3. outfmt_endline(s) = IF t.last_c_flushed \in {0, LF} THEN t ELSE u
  BY DEF outfmt_endline
<1> HIDE DEF t
<1>4. u \in FmtState /\ u.len = 0
  <2>1. t.term \in Seq(OutChar)
    BY <1>1 DEF FmtState
  <2> DEFINE str == Append(t.term, LF)
  <2>2. str \in Seq(OutChar)
    BY <1>2, <2>1
  <2>3. u = [t EXCEPT !.term = str, !.last_c_flushed = 0] /\ u.len = t.len
    BY <1>1 DEF FmtState
  <2> HIDE DEF str, u
  <2> QED  BY <1>1, <1>2, <2>2, <2>3, TermSet
<1> QED  BY <1>1, <1>3, <1>4

(* spcom_exit(): the message is all that is added, and the buffer is empty. *)
LEMMA ExitKeeps ==
  ASSUME OutfmtInv, spcom_exit
  PROVE  OutfmtInv'
<1> DEFINE s == outfmt_endline(State)
           t == [s EXCEPT !.term = @ \o <<MESSAGE, LF>>]
           u == outfmt_endline(t)
<1>1. /\ OptionsOK /\ State \in FmtState /\ exiting' = TRUE
      /\ UNCHANGED <<options, input>> /\ Update(u)
  BY DEF OutfmtInv, spcom_exit
<1>2. s \in FmtState
  BY <1>1, EndlineType
<1> HIDE DEF s
<1>3. t \in FmtState
  <2>1. <<MESSAGE, LF>> \in Seq(OutChar)
    BY OutChars
  <2>2. s.term \in Seq(OutChar)
    BY <1>2 DEF FmtState
  <2>3. s.term \o <<MESSAGE, LF>> \in Seq(OutChar)
    BY <2>1, <2>2
  <2> QED  BY <1>2, <2>3 DEF FmtState
<1> HIDE DEF t
<1>4. u \in FmtState /\ u.len = 0
  BY <1>3, EndlineType
<1> HIDE DEF u
<1>5. State' = u /\ o'.len = 0
  BY <1>1, <1>4, UpdateIs
<1>6. OptionsOK'
  BY <1>1 DEF OptionsOK, options
<1>7. (State \in FmtState)'
  BY <1>1, <1>4, <1>5, ReferenceSame
<1> QED  BY <1>1, <1>5, <1>6, <1>7 DEF OutfmtInv

(* Every step preserves the invariant. *)
LEMMA OutfmtInvNext == OutfmtInv /\ [Next]_vars => OutfmtInv'
<1> SUFFICES ASSUME OutfmtInv, [Next]_vars PROVE OutfmtInv'
  OBVIOUS
<1>1. ASSUME NEW data \in Chunks, outfmt_write(data) PROVE OutfmtInv'
  BY <1>1, WriteKeeps
<1>2. CASE spcom_exit
  BY <1>2, ExitKeeps
<1>3. CASE UNCHANGED vars
  <2>1. /\ UNCHANGED options /\ input' = input /\ term' = term /\ o' = o /\ exiting' = exiting
        /\ State' = State
    BY <1>3 DEF vars, State
  <2>2. OptionsOK'
    BY <2>1 DEF OutfmtInv, OptionsOK, options
  <2>3. (Follows(State, input)' <=> Follows(State, input)) /\ Screen(input)' = Screen(input)
        /\ StampedScreen(input)' = StampedScreen(input)
        /\ (AllMappedAsSaid(input)' <=> AllMappedAsSaid(input)) /\ FmtState' = FmtState
    BY <2>1, ReferenceSame
  <2> QED  BY <2>1, <2>2, <2>3 DEF OutfmtInv, SevenBit
<1> QED  BY <1>1, <1>2, <1>3 DEF Next

(* The invariant of the formatter holds whenever no call of it is running. *)
THEOREM OutfmtInvariant == Spec => []OutfmtInv
BY OutfmtInvInit, OutfmtInvNext, PTL DEF Spec

-----------------------------------------------------------------------------
(* The properties of the run.                                              *)

(* Between the calls the strbuf is empty; no character that reached the    *)
(* terminal was read from behind its end, and without colors nothing is    *)
(* written there.                                                          *)
THEOREM OutfmtTypeOK == Spec => []TypeOK
<1>1. OutfmtInv => TypeOK
  BY DEF OutfmtInv, TypeOK, State, FmtState, Overruns
<1> QED  BY <1>1, OutfmtInvariant, PTL

(* outfmt_write() shows everything that was received in order and once, as *)
(* the options say, for every way the reads cut it and every buffer size;  *)
(* for input charmap.c maps as it says it does.                            *)
THEOREM OutfmtShowsEverything == Spec => []ShowsEverything
<1>1. OutfmtInv => ShowsEverything
  BY DEF OutfmtInv, ShowsEverything
<1> QED  BY <1>1, OutfmtInvariant, PTL

(* --timestamp puts a timestamp in front of every line and nowhere else,   *)
(* as long as the device sends 7 bit characters.                           *)
THEOREM OutfmtStampsEveryLine == Spec => []StampsEveryLine
<1>1. OutfmtInv => StampsEveryLine
  BY DEF OutfmtInv, StampsEveryLine, SevenBit
<1> QED  BY <1>1, OutfmtInvariant, PTL
=============================================================================
