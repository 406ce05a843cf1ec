---------------------------- MODULE ShellProofs ----------------------------
(***************************************************************************)
(* Proofs about the interactive shell, for any set of keys, any size of    *)
(* the queue and any number of keys and writes.                            *)
(***************************************************************************)
EXTENDS Shell, Integers, Recursion, SequenceTheorems, TLAPS

ExitKeys == {"C-c", "C-d"}

-----------------------------------------------------------------------------
(* keybind.c.                                                              *)

Entry(key, action) == [key |-> key, action |-> action]

(* The tables of struct keybind_map, of the keys and actions used in it.   *)
Names == {"C-a", "C-b", "C-c", "C-d", "c"}
Actions == {"EXIT", "TOG_CMD_MODE"}
Maps == [ckey_tbl : SUBSET Names, seq0_tbl : SUBSET Names, seq1_tbl : SUBSET Names,
         map : Seq([key : Names, action : Actions]),
         seq_map : Seq([key : Names \X Names, action : Actions])]

(* A key that leads no sequence is added behind the others.                *)
LEMMA Adds ==
  ASSUME NEW kbm \in Maps, NEW key \in Names, NEW action \in Actions,
         key \notin kbm.seq0_tbl, Len(kbm.map) # MaxBindings
  PROVE  LET new == kb_add_action(kbm, key, action)
             n == Len(kbm.map)
         IN  /\ new \in Maps
             /\ \A k : k \in new.ckey_tbl <=> k \in kbm.ckey_tbl \/ k = key
             /\ new.seq0_tbl = kbm.seq0_tbl
             /\ new.seq1_tbl = kbm.seq1_tbl /\ new.seq_map = kbm.seq_map
             /\ Len(new.map) = n + 1 /\ new.map[n + 1] = Entry(key, action)
             /\ \A i \in 1..n : new.map[i] = kbm.map[i]
<1> DEFINE new == kb_add_action(kbm, key, action)
           map == Append(kbm.map, Entry(key, action))
<1>1. new = [kbm EXCEPT !.map = map, !.ckey_tbl = @ \cup {key}]
  BY DEF kb_add_action, Entry
<1>2. /\ kbm.map \in Seq([key : Names, action : Actions])
      /\ Entry(key, action) \in [key : Names, action : Actions]
  BY DEF Maps, Entry
<1>3. /\ map \in Seq([key : Names, action : Actions]) /\ Len(map) = Len(kbm.map) + 1
      /\ map[Len(kbm.map) + 1] = Entry(key, action)
      /\ \A i \in 1..Len(kbm.map) : map[i] = kbm.map[i]
  BY <1>2, AppendProperties
<1> HIDE DEF map, new
<1>4. new \in Maps /\ new.map = map /\ new.ckey_tbl = kbm.ckey_tbl \cup {key}
      /\ new.seq0_tbl = kbm.seq0_tbl /\ new.seq1_tbl = kbm.seq1_tbl /\ new.seq_map = kbm.seq_map
  BY <1>1, <1>3 DEF Maps
<1>5. QED
  BY <1>3, <1>4 DEF new

(* What keybind_post_parse() puts into the tables.                         *)
LEMMA Tables ==
  /\ keybind_map.ckey_tbl = {"C-c", "C-d", "C-b", "C-a"}
  /\ keybind_map.seq0_tbl = {"C-a"} /\ keybind_map.seq1_tbl = {"c"}
  /\ LET map == keybind_map.map
     IN  /\ DOMAIN map = 1..3 /\ map[1] = Entry("C-c", "EXIT") /\ map[2] = Entry("C-d", "EXIT")
         /\ map[3] = Entry("C-b", "TOG_CMD_MODE")
  /\ LET map == keybind_map.seq_map
     IN  DOMAIN map = {1} /\ map[1] = Entry(<<"C-a", "c">>, "TOG_CMD_MODE")
<1> DEFINE One == kb_add_action(NoBindings, "C-c", "EXIT")
           Two == kb_add_action(One, "C-d", "EXIT")
           Three == kb_add_action(Two, "C-b", "TOG_CMD_MODE")
           pair == Entry(<<"C-a", "c">>, "TOG_CMD_MODE")
           pairs == Append(<<>>, pair)
<1>1. NoBindings \in Maps /\ Len(NoBindings.map) = 0 /\ NoBindings.seq0_tbl = {}
      /\ NoBindings.seq1_tbl = {} /\ NoBindings.seq_map = <<>> /\ NoBindings.ckey_tbl = {}
  BY DEF NoBindings, Maps
<1>2. One \in Maps /\ One.ckey_tbl = {"C-c"} /\ One.seq0_tbl = {} /\ One.seq1_tbl = {}
      /\ One.seq_map = <<>> /\ Len(One.map) = 1 /\ One.map[1] = Entry("C-c", "EXIT")
  <2>1. NoBindings \in Maps /\ "C-c" \notin NoBindings.seq0_tbl /\ Len(NoBindings.map) # MaxBindings
        /\ "C-c" \in Names /\ "EXIT" \in Actions
    BY <1>1 DEF MaxBindings, Names, Actions
  <2>2. /\ One \in Maps
        /\ \A k : k \in One.ckey_tbl <=> k \in NoBindings.ckey_tbl \/ k = "C-c"
        /\ One.seq0_tbl = NoBindings.seq0_tbl
        /\ One.seq1_tbl = NoBindings.seq1_tbl /\ One.seq_map = NoBindings.seq_map
        /\ Len(One.map) = Len(NoBindings.map) + 1
        /\ One.map[Len(NoBindings.map) + 1] = Entry("C-c", "EXIT")
        /\ \A i \in 1..Len(NoBindings.map) : One.map[i] = NoBindings.map[i]
    BY <2>1, Adds
  <2> HIDE DEF One
  <2>3. QED
    BY <1>1, <2>2
<1> HIDE DEF One
<1>3. Two \in Maps /\ Two.ckey_tbl = {"C-c", "C-d"} /\ Two.seq0_tbl = {} /\ Two.seq1_tbl = {}
      /\ Two.seq_map = <<>> /\ Len(Two.map) = 2 /\ Two.map[1] = Entry("C-c", "EXIT")
      /\ Two.map[2] = Entry("C-d", "EXIT")
  <2>1. One \in Maps /\ "C-d" \notin One.seq0_tbl /\ Len(One.map) # MaxBindings
        /\ "C-d" \in Names /\ "EXIT" \in Actions
    BY <1>2 DEF MaxBindings, Names, Actions
  <2>2. /\ Two \in Maps
        /\ \A k : k \in Two.ckey_tbl <=> k \in One.ckey_tbl \/ k = "C-d"
        /\ Two.seq0_tbl = One.seq0_tbl
        /\ Two.seq1_tbl = One.seq1_tbl /\ Two.seq_map = One.seq_map
        /\ Len(Two.map) = Len(One.map) + 1
        /\ Two.map[Len(One.map) + 1] = Entry("C-d", "EXIT")
        /\ \A i \in 1..Len(One.map) : Two.map[i] = One.map[i]
    BY <2>1, Adds
  <2> HIDE DEF Two
  <2>3. QED
    BY <1>2, <2>2
<1> HIDE DEF Two
<1>4. Three \in Maps /\ Three.ckey_tbl = {"C-c", "C-d", "C-b"} /\ Three.seq0_tbl = {}
      /\ Three.seq1_tbl = {} /\ Three.seq_map = <<>> /\ Len(Three.map) = 3
      /\ Three.map[1] = Entry("C-c", "EXIT") /\ Three.map[2] = Entry("C-d", "EXIT")
      /\ Three.map[3] = Entry("C-b", "TOG_CMD_MODE")
  <2>1. Two \in Maps /\ "C-b" \notin Two.seq0_tbl /\ Len(Two.map) # MaxBindings
        /\ "C-b" \in Names /\ "TOG_CMD_MODE" \in Actions
    BY <1>3 DEF MaxBindings, Names, Actions
  <2>2. /\ Three \in Maps
        /\ \A k : k \in Three.ckey_tbl <=> k \in Two.ckey_tbl \/ k = "C-b"
        /\ Three.seq0_tbl = Two.seq0_tbl
        /\ Three.seq1_tbl = Two.seq1_tbl /\ Three.seq_map = Two.seq_map
        /\ Len(Three.map) = Len(Two.map) + 1
        /\ Three.map[Len(Two.map) + 1] = Entry("C-b", "TOG_CMD_MODE")
        /\ \A i \in 1..Len(Two.map) : Three.map[i] = Two.map[i]
    BY <2>1, Adds
  <2> HIDE DEF Three
  <2>3. QED
    BY <1>3, <2>2
<1>5. keybind_map = kb_seq_add_action(Three, "C-a", "c", "TOG_CMD_MODE")
  BY DEF keybind_map, One, Two
<1> HIDE DEF Three
<1>6. Len(Three.seq_map) # MaxBindings
  BY <1>4 DEF MaxBindings
<1>7. DOMAIN pairs = {1} /\ pairs[1] = pair
  <2> DEFINE E == {pair}
  <2>1. <<>> \in Seq(E) /\ Len(<<>>) = 0
    OBVIOUS
  <2> HIDE DEF pair
  <2>2. pairs \in Seq(E) /\ Len(pairs) = 1 /\ pairs[1] = pair
    BY <2>1, AppendProperties
  <2> HIDE DEF pairs
  <2>3. QED
    BY <2>2, LenProperties
<1>8. keybind_map = [Three EXCEPT !.seq_map = pairs, !.ckey_tbl = @ \cup {"C-a"},
                                  !.seq0_tbl = @ \cup {"C-a"}, !.seq1_tbl = @ \cup {"c"}]
  BY <1>4, <1>5, <1>6 DEF kb_seq_add_action, Entry
<1> HIDE DEF pairs
<1>9. /\ keybind_map.ckey_tbl = Three.ckey_tbl \cup {"C-a"} /\ keybind_map.map = Three.map
      /\ keybind_map.seq0_tbl = Three.seq0_tbl \cup {"C-a"}
      /\ keybind_map.seq1_tbl = Three.seq1_tbl \cup {"c"} /\ keybind_map.seq_map = pairs
  BY <1>4, <1>8 DEF Maps
<1>10. DOMAIN Three.map = 1..3
  BY <1>4, LenProperties DEF Maps
<1>11. QED
  BY <1>4, <1>7, <1>9, <1>10

(* The action of the only entry for a key.                                 *)
LEMMA OnlyEntry ==
  ASSUME NEW table, NEW i \in DOMAIN table, i <= i,
         \A j \in DOMAIN table : j # i => table[j].key # table[i].key
  PROVE  ActionOf(table, table[i].key) = table[i].action
<1>1. {j \in DOMAIN table : table[j].key = table[i].key} = {i}
  OBVIOUS
<1>2. QED
  BY <1>1 DEF ActionOf

(* All that keybind_eval() can return.  Only the leader gets into _seq0,   *)
(* and whatever a single key does leaves it empty.                         *)
LEMMA Evaluates ==
  ASSUME NEW key
  PROVE  /\ keybind_eval(None, key) =
              IF key = "C-a" THEN [action |-> "CACHE", seq0 |-> key]
              ELSE IF key \in ExitKeys THEN [action |-> "EXIT", seq0 |-> None]
              ELSE IF key = "C-b" THEN [action |-> "TOG_CMD_MODE", seq0 |-> None]
              ELSE [action |-> "PUTC", seq0 |-> None]
         /\ keybind_eval("C-a", key) =
              IF key = "c" THEN [action |-> "TOG_CMD_MODE", seq0 |-> "C-a"]
              ELSE [action |-> "UNCACHE", seq0 |-> None]
<1> DEFINE table == keybind_map.map
           pairs == keybind_map.seq_map
<1>1. /\ DOMAIN table = 1..3 /\ table[1].key = "C-c" /\ table[2].key = "C-d" /\ table[3].key = "C-b"
      /\ table[1].action = "EXIT" /\ table[2].action = "EXIT" /\ table[3].action = "TOG_CMD_MODE"
  BY Tables DEF Entry
<1>2. DOMAIN pairs = {1} /\ pairs[1].key = <<"C-a", "c">> /\ pairs[1].action = "TOG_CMD_MODE"
  BY Tables DEF Entry
<1> HIDE DEF table, pairs
<1>3. ActionOf(table, "C-c") = "EXIT"
  BY <1>1, OnlyEntry, 1 \in DOMAIN table
<1>4. ActionOf(table, "C-d") = "EXIT"
  BY <1>1, OnlyEntry, 2 \in DOMAIN table
<1>5. ActionOf(table, "C-b") = "TOG_CMD_MODE"
  BY <1>1, OnlyEntry, 3 \in DOMAIN table
<1>6. ActionOf(pairs, <<"C-a", "c">>) = "TOG_CMD_MODE"
  BY <1>2, OnlyEntry, 1 \in DOMAIN pairs
<1>7. keybind_eval("C-a", key) =
        IF key = "c" THEN [action |-> "TOG_CMD_MODE", seq0 |-> "C-a"]
        ELSE [action |-> "UNCACHE", seq0 |-> None]
  BY <1>6, Tables DEF keybind_eval, None, pairs
<1>8. QED
  BY <1>3, <1>4, <1>5, <1>7, Tables DEF keybind_eval, table, ExitKeys
-----------------------------------------------------------------------------
(* The modes.                                                              *)

(* What a handler has done so far: the point stays in the line.            *)
Lines == {r \in [line : Seq(Keys), point : Nat] : r.point <= Len(r.line)}
Handled == [rl : Lines, ops : Seq(Ops), blocked : BOOLEAN]

LEMMA Inserted ==
  ASSUME NEW line \in Seq(Keys), NEW p \in 0..Len(line), NEW c \in Keys
  PROVE  /\ InsertAt(line, p + 1, c) \in Seq(Keys)
         /\ Len(InsertAt(line, p + 1, c)) = Len(line) + 1
<1> DEFINE before == SubSeq(line, 1, p)
           after == SubSeq(line, p + 1, Len(line))
<1>1. Len(line) \in Nat /\ \A i \in 1..Len(line) : line[i] \in Keys
  BY LenProperties
<1>2. before \in Seq(Keys) /\ Len(before) = p
  <2>1. \A i \in 1..p : line[i] \in Keys
    BY <1>1
  <2>2. QED
    BY <1>1, <2>1, SubSeqProperties
<1>3. after \in Seq(Keys) /\ Len(after) = Len(line) - p
  <2>1. \A i \in (p + 1)..Len(line) : line[i] \in Keys
    BY <1>1
  <2>2. p + 1 \in Int /\ Len(line) \in Int
    BY <1>1
  <2>3. after \in Seq(Keys)
        /\ Len(after) = IF p + 1 <= Len(line) THEN Len(line) - (p + 1) + 1 ELSE 0
    BY <2>1, <2>2, SubSeqProperties
  <2>4. QED
    BY <1>1, <2>3
<1>4. <<c>> \in Seq(Keys) /\ Len(<<c>>) = 1
  OBVIOUS
<1>5. InsertAt(line, p + 1, c) = (before \o <<c>>) \o after
  <2> DEFINE k == p + 1
  <2>1. k - 1 = p
    BY <1>1
  <2>2. InsertAt(line, k, c) = SubSeq(line, 1, k - 1) \o <<c>> \o SubSeq(line, k, Len(line))
    BY Zenon DEF InsertAt
  <2> HIDE DEF k
  <2>3. InsertAt(line, k, c) = SubSeq(line, 1, p) \o <<c>> \o SubSeq(line, k, Len(line))
    BY <2>1, <2>2, Zenon
  <2>4. QED
    BY <2>3, Zenon DEF k
<1> HIDE DEF before, after
<1> DEFINE head == before \o <<c>>
<1>6. head \in Seq(Keys) /\ Len(head) = p + 1
  BY <1>2, <1>4, ConcatProperties
<1> HIDE DEF head
<1>7. head \o after \in Seq(Keys) /\ Len(head \o after) = Len(head) + Len(after)
  BY <1>3, <1>6, ConcatProperties
<1>8. Len(head \o after) = Len(line) + 1
  BY <1>1, <1>3, <1>6, <1>7
<1>9. QED
  BY <1>5, <1>7, <1>8, Zenon DEF head

LEMMA Removed ==
  ASSUME NEW line \in Seq(Keys), NEW p \in 1..Len(line)
  PROVE  RemoveAt(line, p) \in Seq(Keys) /\ Len(RemoveAt(line, p)) = Len(line) - 1
<1> DEFINE before == SubSeq(line, 1, p - 1)
           after == SubSeq(line, p + 1, Len(line))
<1>1. Len(line) \in Nat /\ \A i \in 1..Len(line) : line[i] \in Keys
  BY LenProperties
<1>2. before \in Seq(Keys) /\ Len(before) = p - 1
  <2>1. \A i \in 1..(p - 1) : line[i] \in Keys
    BY <1>1
  <2>2. p - 1 \in Int
    BY <1>1
  <2>3. before \in Seq(Keys) /\ Len(before) = IF 1 <= p - 1 THEN p - 1 - 1 + 1 ELSE 0
    BY <2>1, <2>2, SubSeqProperties
  <2>4. QED
    BY <1>1, <2>3
<1>3. after \in Seq(Keys) /\ Len(after) = Len(line) - p
  <2>1. \A i \in (p + 1)..Len(line) : line[i] \in Keys
    BY <1>1
  <2>2. p + 1 \in Int /\ Len(line) \in Int
    BY <1>1
  <2>3. after \in Seq(Keys)
        /\ Len(after) = IF p + 1 <= Len(line) THEN Len(line) - (p + 1) + 1 ELSE 0
    BY <2>1, <2>2, SubSeqProperties
  <2>4. QED
    BY <1>1, <2>3
<1>4. RemoveAt(line, p) = before \o after
  BY DEF RemoveAt
<1> HIDE DEF before, after
<1>5. before \o after \in Seq(Keys) /\ Len(before \o after) = Len(before) + Len(after)
  BY <1>2, <1>3, ConcatProperties
<1>6. Len(before) + Len(after) = Len(line) - 1
  BY <1>1, <1>2, <1>3
<1>7. QED
  BY <1>4, <1>5, <1>6

(* _on_rl_line() enqueues what is in the line, then the end of line.       *)
LEMMA LineOps ==
  ASSUME NEW line \in Seq(Keys)
  PROVE  on_rl_line(line) \in Seq(Ops)
<1>1. <<>> \in Seq(Ops)
  OBVIOUS
<1>2. Op("WRITE", line) \in Ops /\ Op("PUT_EOL", 1) \in Ops
  BY DEF Ops, Op
<1>3. <<Op("WRITE", line)>> \in Seq(Ops) /\ <<Op("PUT_EOL", 1)>> \in Seq(Ops)
  BY <1>2
<1>4. (IF line = <<>> THEN <<>> ELSE <<Op("WRITE", line)>>) \in Seq(Ops)
  BY <1>1, <1>3
<1>5. QED
  BY <1>3, <1>4, ConcatProperties DEF on_rl_line

(* Readline keeps the point in the line, and never waits of its own accord. *)
LEMMA RlKey ==
  ASSUME NEW m \in Handled, NEW c \in Keys
  PROVE  rl_key(m, c) \in Handled /\ rl_key(m, c).blocked = m.blocked
<1> DEFINE line == m.rl.line
           point == m.rl.point
           ended == [m EXCEPT !.rl = [line |-> <<>>, point |-> 0], !.ops = @ \o on_rl_line(line)]
           moved(p) == [m EXCEPT !.rl.point = p]
           deleted(p) == [m EXCEPT !.rl = [line |-> RemoveAt(line, p), point |-> p - 1]]
           inserted == [m EXCEPT !.rl = [line |-> InsertAt(line, point + 1, c),
                                         point |-> point + 1]]
           Good(n) == n \in Handled /\ n.blocked = m.blocked
<1>1. m.rl \in Lines /\ m.ops \in Seq(Ops) /\ m.blocked \in BOOLEAN
  BY DEF Handled
<1>2. line \in Seq(Keys) /\ Len(line) \in Nat /\ point \in Nat /\ point \in 0..Len(line)
  BY <1>1, LenProperties DEF Lines
<1>3. Good(ended)
  <2>1. on_rl_line(line) \in Seq(Ops)
    BY <1>2, LineOps
  <2> DEFINE ops == m.ops \o on_rl_line(line)
             rl0 == [line |-> <<>>, point |-> 0]
  <2>2. ops \in Seq(Ops)
    BY <1>1, <2>1, ConcatProperties
  <2>3. rl0 \in Lines
    BY DEF Lines
  <2>4. ended = [m EXCEPT !.rl = rl0, !.ops = ops]
    OBVIOUS
  <2> HIDE DEF ops, rl0, ended
  <2>5. QED
    BY <1>1, <2>2, <2>3, <2>4 DEF Handled
<1>4. ASSUME NEW p \in 0..Len(line) PROVE Good(moved(p))
  <2> DEFINE to == [m.rl EXCEPT !.point = p]
  <2>1. to \in Lines
    BY <1>1, <1>2, <1>4 DEF Lines
  <2>2. moved(p) = [m EXCEPT !.rl = to]
    BY DEF Handled
  <2> HIDE DEF to, moved
  <2>3. QED
    BY <1>1, <2>1, <2>2 DEF Handled
<1>5. ASSUME NEW p \in 1..Len(line) PROVE Good(deleted(p))
  <2> DEFINE to == [line |-> RemoveAt(line, p), point |-> p - 1]
  <2>1. RemoveAt(line, p) \in Seq(Keys) /\ Len(RemoveAt(line, p)) = Len(line) - 1
    BY <1>2, <1>5, Removed
  <2>2. to \in Lines
    BY <1>2, <1>5, <2>1 DEF Lines
  <2>3. deleted(p) = [m EXCEPT !.rl = to]
    OBVIOUS
  <2> HIDE DEF to, deleted
  <2>4. QED
    BY <1>1, <2>2, <2>3 DEF Handled
<1>6. Good(inserted)
  <2> DEFINE to == [line |-> InsertAt(line, point + 1, c), point |-> point + 1]
  <2>1. /\ InsertAt(line, point + 1, c) \in Seq(Keys)
        /\ Len(InsertAt(line, point + 1, c)) = Len(line) + 1
    BY <1>2, Inserted
  <2>2. to \in Lines
    BY <1>2, <2>1 DEF Lines
  <2>3. inserted = [m EXCEPT !.rl = to]
    OBVIOUS
  <2> HIDE DEF to, inserted
  <2>4. QED
    BY <1>1, <2>2, <2>3 DEF Handled
<1>7. Good(m)
  OBVIOUS
<1>8. \/ rl_key(m, c) = ended \/ rl_key(m, c) = moved(0) \/ rl_key(m, c) = moved(Len(line))
      \/ (point > 0 /\ rl_key(m, c) = moved(point - 1)) \/ rl_key(m, c) = m
      \/ (point > 0 /\ rl_key(m, c) = deleted(point))
      \/ (point < Len(line) /\ rl_key(m, c) = deleted(point + 1))
      \/ rl_key(m, c) = inserted
  BY DEF rl_key
<1> HIDE DEF Good, ended, moved, deleted, inserted
<1>9. Good(rl_key(m, c))
  <2> HIDE DEF line, point
  <2>1. 0 \in 0..Len(line) /\ Len(line) \in 0..Len(line)
        /\ (point > 0 => point - 1 \in 0..Len(line) /\ point \in 1..Len(line))
        /\ (point < Len(line) => point + 1 \in 1..Len(line))
    BY <1>2
  <2>2. Good(moved(0)) /\ Good(moved(Len(line))) /\ (point > 0 => Good(moved(point - 1)))
    BY <1>4, <2>1
  <2>3. (point > 0 => Good(deleted(point))) /\ (point < Len(line) => Good(deleted(point + 1)))
    BY <1>5, <2>1
  <2>4. QED
    BY <1>3, <1>6, <1>7, <1>8, <2>2, <2>3, Zenon
<1>10. QED
  BY <1>9 DEF Good

(* A mode waits only when cooked mode is given a NUL.                      *)
LEMMA Insert ==
  ASSUME NEW m \in Handled, NEW c \in Keys, cooked \in BOOLEAN
  PROVE  /\ insert(m, c) \in Handled
         /\ insert(m, c).blocked => m.blocked \/ (cooked /\ c = "NUL")
<1>1. m.ops \in Seq(Ops)
  BY DEF Handled
<1>2. CASE cooked
  <2>1. CASE c = "NUL"
    <3>1. insert(m, c) = [m EXCEPT !.blocked = TRUE]
      BY <1>2, <2>1 DEF insert, sh_cooked_insertchar
    <3>2. insert(m, c) \in Handled
      BY <3>1 DEF Handled
    <3>3. QED
      BY <1>2, <2>1, <3>2
  <2>2. CASE c # "NUL"
    <3>1. insert(m, c) = rl_key(m, c)
      BY <1>2, <2>2 DEF insert, sh_cooked_insertchar
    <3>2. QED
      BY <3>1, RlKey
  <2>3. QED
    BY <2>1, <2>2
<1>3. CASE ~cooked
  <2> DEFINE ops == Append(m.ops, Op("PUTC", c))
  <2>1. insert(m, c) = [m EXCEPT !.ops = ops]
    BY <1>3 DEF insert, sh_raw_insertchar
  <2>2. Op("PUTC", c) \in Ops
    BY DEF Op, Ops
  <2>3. ops \in Seq(Ops)
    BY <1>1, <2>2, AppendProperties
  <2> HIDE DEF ops
  <2>4. QED
    BY <2>1, <2>3 DEF Handled
<1>4. QED
  BY <1>2, <1>3

-----------------------------------------------------------------------------
(* The invariant.                                                          *)

Exits == {"no", "user key", "signal", "stdin EOF", "stdin EBADF", "assert_full"}

Typing ==
  /\ cooked \in BOOLEAN /\ sticky \in BOOLEAN /\ blocked \in BOOLEAN /\ sigint \in BOOLEAN
  /\ kb_state \in [seq0 : {None, "C-a"}, cache : Keys \cup {None}]
  /\ SeqIsCached
  /\ rl \in Lines
  /\ queue \in Seq(Ops) /\ Len(queue) <= QueueSize /\ sent \in Seq(Ops)
  /\ exit \in Exits /\ typed \in Seq(Keys) /\ writes \in Nat

(* An exit key that did not end the program has at least ended a sequence. *)
NoSequence ==
  (NothingHidden /\ exit = "no" /\ typed # <<>> /\ typed[Len(typed)] \in ExitKeys)
    => kb_state.seq0 = None

Inv == Typing /\ StallsOnlyOnNul /\ NoSequence /\ TwoExitKeysExit

(* The queue never outgrows opq_rt.                                        *)
LEMMA Enqueued ==
  ASSUME Typing, exit = "no", NEW ops \in Seq(Ops), enqueue(ops)
  PROVE  queue' \in Seq(Ops) /\ Len(queue') <= QueueSize /\ exit' \in {"no", "assert_full"}
<1>1. /\ queue \in Seq(Ops) /\ Len(queue) \in Nat /\ Len(queue) <= QueueSize /\ QueueSize \in Nat
      /\ Len(ops) \in Nat /\ \A i \in 1..Len(ops) : ops[i] \in Ops
  BY LenProperties, ShellAssumption DEF Typing
<1>2. CASE Len(queue) + Len(ops) <= QueueSize
  <2>1. queue' = queue \o ops /\ exit' = exit
    BY <1>2 DEF enqueue
  <2>2. queue \o ops \in Seq(Ops) /\ Len(queue \o ops) = Len(queue) + Len(ops)
    BY <1>1, ConcatProperties
  <2>3. QED
    BY <1>2, <2>1, <2>2
<1>3. CASE ~(Len(queue) + Len(ops) <= QueueSize)
  <2> DEFINE room == QueueSize - Len(queue)
             fits == SubSeq(ops, 1, room)
  <2>1. queue' = queue \o fits /\ exit' = "assert_full"
    BY <1>3 DEF enqueue
  <2>2. room \in Int /\ room >= 0 /\ room <= Len(ops) /\ Len(queue) + room = QueueSize
    BY <1>1, <1>3
  <2> HIDE DEF room
  <2>3. fits \in Seq(Ops) /\ Len(fits) = IF 1 <= room THEN room - 1 + 1 ELSE 0
    <3>1. \A i \in 1..room : ops[i] \in Ops
      BY <1>1, <2>2
    <3>2. QED
      BY <2>2, <3>1, SubSeqProperties
  <2> HIDE DEF fits
  <2>4. Len(fits) = room
    BY <2>2, <2>3
  <2>5. queue \o fits \in Seq(Ops) /\ Len(queue \o fits) = Len(queue) + Len(fits)
    BY <1>1, <2>3, ConcatProperties
  <2>6. QED
    BY <1>1, <2>1, <2>2, <2>4, <2>5
<1>4. QED
  BY <1>2, <1>3

LEMMA Finished ==
  ASSUME Typing, exit = "no", NEW m \in Handled, Finish(m)
  PROVE  /\ rl' \in Lines /\ blocked' = m.blocked /\ blocked' \in BOOLEAN
         /\ queue' \in Seq(Ops) /\ Len(queue') <= QueueSize /\ exit' \in {"no", "assert_full"}
<1>1. m.rl \in Lines /\ m.blocked \in BOOLEAN /\ m.ops \in Seq(Ops)
  BY DEF Handled
<1>2. rl' = m.rl /\ blocked' = m.blocked /\ enqueue(m.ops)
  BY DEF Finish
<1>3. QED
  BY <1>1, <1>2, Enqueued

LEMMA StartHandled == Typing => Start \in Handled /\ ~Start.blocked
BY DEF Typing, Start, Handled

(* Nothing was typed before the program started.                           *)
LEMMA InitInv == Init => Inv
<1> SUFFICES ASSUME Init PROVE Inv
  OBVIOUS
<1>1. Typing
  <2>1. cooked \in BOOLEAN /\ sticky \in BOOLEAN /\ blocked \in BOOLEAN /\ sigint \in BOOLEAN
    BY DEF Init
  <2>2. kb_state \in [seq0 : {None, "C-a"}, cache : Keys \cup {None}] /\ SeqIsCached
    BY DEF Init, SeqIsCached
  <2>3. rl \in Lines
    <3>1. <<>> \in Seq(Keys) /\ Len(<<>>) = 0
      OBVIOUS
    <3>2. QED
      BY <3>1 DEF Init, Lines
  <2>4. queue \in Seq(Ops) /\ Len(queue) <= QueueSize /\ sent \in Seq(Ops)
    BY ShellAssumption DEF Init
  <2>5. exit \in Exits /\ typed \in Seq(Keys) /\ writes \in Nat
    BY DEF Init, Exits
  <2>6. QED
    BY <2>1, <2>2, <2>3, <2>4, <2>5 DEF Typing
<1>2. typed = <<>> /\ Len(typed) = 0
  BY DEF Init
<1>3. StallsOnlyOnNul /\ NoSequence /\ TwoExitKeysExit
  BY <1>2 DEF Init, StallsOnlyOnNul, NoSequence, TwoExitKeysExit
<1>4. QED
  BY <1>1, <1>3 DEF Inv

(* A new key is behind the others, which are what they were.               *)
LEMMA Typed ==
  ASSUME Typing, NEW c \in Keys, typed' = Append(typed, c), UNCHANGED cooked
  PROVE  /\ typed' \in Seq(Keys) /\ typed' # <<>>
         /\ Len(typed) \in Nat /\ Len(typed') = Len(typed) + 1
         /\ typed'[Len(typed')] = c /\ \A i \in 1..Len(typed) : typed'[i] = typed[i]
         /\ NothingHidden' => NothingHidden
<1>1. typed \in Seq(Keys) /\ Len(typed) \in Nat
  BY LenProperties DEF Typing
<1>2. /\ typed' \in Seq(Keys) /\ typed' # <<>> /\ Len(typed') = Len(typed) + 1
      /\ typed'[Len(typed) + 1] = c /\ \A i \in 1..Len(typed) : typed'[i] = typed[i]
  BY <1>1, AppendProperties
<1>3. NothingHidden' => NothingHidden
  BY <1>1, <1>2 DEF NothingHidden
<1>4. QED
  BY <1>1, <1>2, <1>3

-----------------------------------------------------------------------------
(* Steps.                                                                  *)

(* When no key is typed and the cache, the modes and readline's waiting    *)
(* stay as they are, what is said about the last key stays true.           *)
LEMMA NotTyped ==
  ASSUME Inv, Typing', UNCHANGED <<cooked, kb_state, blocked, typed>>, exit' = "no" => exit = "no"
  PROVE  Inv'
<1>1. NothingHidden' <=> NothingHidden
  BY DEF NothingHidden
<1>2. StallsOnlyOnNul' /\ NoSequence' /\ TwoExitKeysExit'
  BY <1>1 DEF Inv, StallsOnlyOnNul, NoSequence, TwoExitKeysExit
<1>3. QED
  BY <1>2 DEF Inv

LEMMA QuietSteps ==
  ASSUME Inv, stdin_ends \/ interrupt \/ on_signal \/ port_takes \/ shell_write
  PROVE  Inv'
<1>1. Typing
  BY DEF Inv
<1>2. CASE stdin_ends
  <2>1. exit' \in {"stdin EOF", "stdin EBADF"}
    BY <1>2 DEF stdin_ends, Leave
  <2>2. UNCHANGED <<options, kb_state, sigint, sent, typed, writes, rl, blocked, queue>>
    BY <1>2 DEF stdin_ends, Leave
  <2>3. Typing'
    BY <1>1, <2>1, <2>2 DEF Typing, options, Exits, SeqIsCached
  <2>4. QED
    BY <2>1, <2>2, <2>3, NotTyped DEF options
<1>3. CASE interrupt
  <2>1. Typing'
    BY <1>1, <1>3 DEF interrupt, Typing, options, SeqIsCached
  <2>2. QED
    BY <1>3, <2>1, NotTyped DEF interrupt, options
<1>4. CASE on_signal
  <2>1. Typing'
    BY <1>1, <1>4 DEF on_signal, Leave, Typing, options, Exits, SeqIsCached
  <2>2. QED
    BY <1>4, <2>1, NotTyped DEF on_signal, Leave, options
<1>5. CASE port_takes
  <2>1. queue' = Tail(queue) /\ sent' = Append(sent, Head(queue)) /\ queue # <<>>
        /\ UNCHANGED <<options, kb_state, rl, blocked, sigint, exit, typed, writes>>
    BY <1>5 DEF port_takes
  <2>2. queue \in Seq(Ops) /\ sent \in Seq(Ops) /\ Len(queue) <= QueueSize /\ Len(queue) \in Nat
    BY <1>1, LenProperties DEF Typing
  <2>3. Head(queue) \in Ops /\ Tail(queue) \in Seq(Ops) /\ Len(Tail(queue)) = Len(queue) - 1
    BY <2>1, <2>2, HeadTailProperties
  <2>4. queue' \in Seq(Ops) /\ Len(queue') <= QueueSize
    BY <2>1, <2>2, <2>3, ShellAssumption
  <2>5. sent' \in Seq(Ops)
    BY <2>1, <2>2, <2>3, AppendProperties
  <2>6. Typing'
    BY <1>1, <2>1, <2>4, <2>5 DEF Typing, options, SeqIsCached
  <2>7. QED
    BY <2>1, <2>6, NotTyped DEF options
<1>6. CASE shell_write
  <2>1. writes' = writes + 1
        /\ UNCHANGED <<options, kb_state, blocked, sigint, queue, sent, exit, typed>>
    BY <1>6 DEF shell_write
  <2>2. rl' \in Lines
    <3> DEFINE cleared == rl_replace_line(rl_replace_line(rl, <<>>), rl.line)
    <3>1. rl \in Lines /\ rl.line \in Seq(Keys) /\ rl.point \in Nat /\ rl.point <= Len(rl.line)
      BY <1>1 DEF Typing, Lines
    <3>2. [cleared EXCEPT !.point = rl.point] = [line |-> rl.line, point |-> rl.point]
      BY DEF rl_replace_line
    <3>3. [line |-> rl.line, point |-> rl.point] \in Lines
      BY <3>1 DEF Lines
    <3>4. sh_cooked_write(rl) \in Lines
      BY <3>1, <3>2, <3>3 DEF sh_cooked_write
    <3>5. QED
      BY <1>6, <3>1, <3>4 DEF shell_write
  <2>3. Typing'
    BY <1>1, <2>1, <2>2 DEF Typing, options, SeqIsCached
  <2>4. QED
    BY <2>1, <2>3, NotTyped DEF options
<1>7. QED
  BY <1>2, <1>3, <1>4, <1>5, <1>6

(* Readline waits only behind a NUL in cooked mode, and then there is      *)
(* nothing to show about the keys.                                         *)
LEMMA WaitingStep ==
  ASSUME Inv, NEW c \in Keys, rl_read_key(c)
  PROVE  Inv'
<1>1. Typing /\ StallsOnlyOnNul
  BY DEF Inv
<1>2. exit = "no" /\ blocked /\ typed' = Append(typed, c) /\ Finish(rl_key(Start, c))
      /\ UNCHANGED <<options, kb_state, sigint, sent, writes>>
  BY DEF rl_read_key, Running
<1>3. rl_key(Start, c) \in Handled /\ ~rl_key(Start, c).blocked
  BY <1>1, StartHandled, RlKey
<1>4. /\ rl' \in Lines /\ blocked' \in BOOLEAN /\ ~blocked'
      /\ queue' \in Seq(Ops) /\ Len(queue') <= QueueSize /\ exit' \in {"no", "assert_full"}
  BY <1>1, <1>2, <1>3, Finished
<1>5. UNCHANGED cooked
  BY <1>2 DEF options
<1>6. /\ typed' \in Seq(Keys) /\ Len(typed) \in Nat /\ Len(typed') = Len(typed) + 1
      /\ \A i \in 1..Len(typed) : typed'[i] = typed[i]
  BY <1>1, <1>2, <1>5, Typed
<1>7. cooked /\ typed # <<>> /\ typed[Len(typed)] = "NUL"
  BY <1>1, <1>2 DEF StallsOnlyOnNul
<1>8. Len(typed) \in 1..Len(typed)
  BY <1>1, <1>6, <1>7, EmptySeq DEF Typing
<1>9. ~NothingHidden'
  BY <1>5, <1>6, <1>7, <1>8 DEF NothingHidden
<1>10. Typing'
  BY <1>1, <1>2, <1>4, <1>6 DEF Typing, options, Exits, SeqIsCached
<1>11. StallsOnlyOnNul' /\ NoSequence' /\ TwoExitKeysExit'
  BY <1>4, <1>9 DEF StallsOnlyOnNul, NoSequence, TwoExitKeysExit
<1>12. QED
  BY <1>10, <1>11 DEF Inv

(* What _stdin_read_char() makes of a key: the types are kept, a NUL alone *)
(* makes readline wait, and an exit key either ends the program or ends a  *)
(* sequence.                                                               *)
LEMMA ReadChar ==
  ASSUME Typing, exit = "no", ~blocked, NEW c \in Keys, read_char(c)
  PROVE  /\ kb_state' \in [seq0 : {None, "C-a"}, cache : Keys \cup {None}] /\ SeqIsCached'
         /\ rl' \in Lines /\ blocked' \in BOOLEAN
         /\ queue' \in Seq(Ops) /\ Len(queue') <= QueueSize /\ exit' \in Exits
         /\ blocked' => cooked /\ c = "NUL"
         /\ c \in ExitKeys => kb_state'.seq0 = None /\ (kb_state.seq0 = None => exit' # "no")
<1> DEFINE e == keybind_eval(kb_state.seq0, c)
<1>1. kb_state.seq0 \in {None, "C-a"} /\ kb_state.cache \in Keys \cup {None}
      /\ (kb_state.seq0 = "C-a" => kb_state.cache = "C-a" /\ "C-a" \in Keys)
  BY DEF Typing, SeqIsCached, None
<1>2. \/ kb_state.seq0 = None /\ c = "C-a" /\ e = [action |-> "CACHE", seq0 |-> c]
      \/ kb_state.seq0 = None /\ c \in ExitKeys /\ e = [action |-> "EXIT", seq0 |-> None]
      \/ kb_state.seq0 = None /\ c = "C-b" /\ e = [action |-> "TOG_CMD_MODE", seq0 |-> None]
      \/ kb_state.seq0 = None /\ c \notin ExitKeys /\ e = [action |-> "PUTC", seq0 |-> None]
      \/ kb_state.seq0 = "C-a" /\ c = "c" /\ e = [action |-> "TOG_CMD_MODE", seq0 |-> "C-a"]
      \/ kb_state.seq0 = "C-a" /\ e = [action |-> "UNCACHE", seq0 |-> None]
  BY <1>1, Evaluates
<1>3. kb_state' = [seq0 |-> e.seq0, cache |-> IF e.action = "CACHE" THEN c ELSE kb_state.cache]
  BY DEF read_char
<1>4. \/ e.action = "PUTC" /\ Finish(insert(Start, c))
      \/ e.action = "UNCACHE" /\ Finish(insert(insert(Start, kb_state.cache), c))
      \/ e.action = "EXIT" /\ Leave("user key")
      \/ e.action \in {"CACHE", "TOG_CMD_MODE", "NONE"} /\ UNCHANGED <<rl, blocked, queue, exit>>
  BY DEF read_char
<1> HIDE DEF e
<1>5. kb_state' \in [seq0 : {None, "C-a"}, cache : Keys \cup {None}] /\ SeqIsCached'
  BY <1>1, <1>2, <1>3 DEF SeqIsCached
<1>6. c \in ExitKeys => kb_state'.seq0 = None
  BY <1>2, <1>3 DEF ExitKeys
<1> DEFINE Kept == /\ rl' \in Lines /\ blocked' \in BOOLEAN
                     /\ queue' \in Seq(Ops) /\ Len(queue') <= QueueSize /\ exit' \in Exits
<1>7. Start \in Handled /\ ~Start.blocked /\ cooked \in BOOLEAN
  BY StartHandled DEF Typing
<1>8. CASE e.action = "PUTC" /\ Finish(insert(Start, c))
  <2>1. insert(Start, c) \in Handled /\ (insert(Start, c).blocked => cooked /\ c = "NUL")
    BY <1>7, Insert
  <2>2. Kept /\ (blocked' => cooked /\ c = "NUL")
    BY <1>8, <2>1, Finished DEF Exits
  <2>3. kb_state.seq0 = None => c \notin ExitKeys
    BY <1>2, <1>8
  <2>4. QED
    BY <1>5, <1>6, <2>2, <2>3
<1>9. CASE e.action = "UNCACHE" /\ Finish(insert(insert(Start, kb_state.cache), c))
  <2>1. kb_state.seq0 = "C-a" /\ kb_state.cache = "C-a" /\ "C-a" \in Keys
    BY <1>1, <1>2, <1>9
  <2> DEFINE first == insert(Start, "C-a")
  <2>2. first \in Handled /\ ~first.blocked
    BY <1>7, <2>1, Insert
  <2> HIDE DEF first
  <2>3. insert(first, c) \in Handled /\ (insert(first, c).blocked => cooked /\ c = "NUL")
    BY <1>7, <2>2, Insert
  <2>4. Finish(insert(first, c))
    BY <1>9, <2>1 DEF first
  <2>5. Kept /\ (blocked' => cooked /\ c = "NUL")
    BY <2>3, <2>4, Finished DEF Exits
  <2>6. kb_state.seq0 # None
    BY <2>1 DEF None
  <2>7. QED
    BY <1>5, <1>6, <2>5, <2>6
<1>10. CASE e.action = "EXIT" /\ Leave("user key")
  <2>1. exit' = "user key" /\ UNCHANGED <<rl, blocked, queue>>
    BY <1>10 DEF Leave
  <2>2. QED
    BY <1>5, <1>6, <2>1 DEF Typing, Exits
<1>11. CASE e.action \in {"CACHE", "TOG_CMD_MODE", "NONE"} /\ UNCHANGED <<rl, blocked, queue, exit>>
  <2>1. kb_state.seq0 = None => c \notin ExitKeys
    BY <1>2, <1>11 DEF ExitKeys
  <2>2. QED
    BY <1>5, <1>6, <1>11, <2>1 DEF Typing
<1>12. QED
  BY <1>4, <1>8, <1>9, <1>10, <1>11

LEMMA KeyStep ==
  ASSUME Inv, NEW c \in Keys, stdin_read_char(c)
  PROVE  Inv'
<1>1. Typing /\ NoSequence
  BY DEF Inv
<1>2. exit = "no" /\ ~blocked /\ typed' = Append(typed, c)
      /\ UNCHANGED <<cooked, sticky, sigint, sent, writes>>
  BY DEF stdin_read_char, Running, options
<1>3. /\ kb_state' \in [seq0 : {None, "C-a"}, cache : Keys \cup {None}] /\ SeqIsCached'
      /\ rl' \in Lines /\ blocked' \in BOOLEAN
      /\ queue' \in Seq(Ops) /\ Len(queue') <= QueueSize /\ exit' \in Exits
      /\ blocked' => cooked /\ c = "NUL"
      /\ c \in ExitKeys => exit' # "no" \/ (kb_state'.seq0 = None /\ kb_state.seq0 # None)
  <2>1. CASE c = "0xFF" /\ ~cooked
    <3>1. exit' = "stdin EOF" /\ UNCHANGED <<rl, blocked, queue, kb_state>>
      BY <2>1 DEF stdin_read_char, Leave
    <3>2. QED
      BY <1>1, <1>2, <3>1 DEF Typing, Exits, SeqIsCached
  <2>2. CASE ~(c = "0xFF" /\ ~cooked)
    <3>1. read_char(c)
      BY <2>2 DEF stdin_read_char
    <3>2. QED
      BY <1>1, <1>2, <3>1, ReadChar
  <2>3. QED
    BY <2>1, <2>2
<1>4. /\ typed' \in Seq(Keys) /\ typed' # <<>>
      /\ Len(typed) \in Nat /\ Len(typed') = Len(typed) + 1
      /\ typed'[Len(typed')] = c /\ \A i \in 1..Len(typed) : typed'[i] = typed[i]
      /\ NothingHidden' => NothingHidden
  BY <1>1, <1>2, Typed
<1>5. Typing'
  BY <1>1, <1>2, <1>3, <1>4 DEF Typing
<1>6. StallsOnlyOnNul'
  BY <1>2, <1>3, <1>4 DEF StallsOnlyOnNul
<1>7. NoSequence'
  BY <1>3, <1>4 DEF NoSequence
<1>8. TwoExitKeysExit'
  <2> SUFFICES ASSUME NothingHidden', Len(typed') >= 2,
                      typed'[Len(typed')] = typed'[Len(typed') - 1],
                      typed'[Len(typed')] \in ExitKeys
               PROVE  exit' # "no"
    BY DEF TwoExitKeysExit, ExitKeys
  <2>1. Len(typed) \in 1..Len(typed) /\ Len(typed') - 1 = Len(typed)
    BY <1>4
  <2>2. typed[Len(typed)] = c /\ typed # <<>> /\ c \in ExitKeys
    BY <1>1, <1>4, <2>1, EmptySeq
  <2>3. kb_state.seq0 = None
    BY <1>1, <1>2, <1>4, <2>2 DEF NoSequence
  <2>4. QED
    BY <1>3, <2>2, <2>3
<1>9. QED
  BY <1>5, <1>6, <1>7, <1>8 DEF Inv

LEMMA NextInv == Inv /\ [Next]_vars => Inv'
<1> SUFFICES ASSUME Inv, [Next]_vars PROVE Inv'
  OBVIOUS
<1>1. CASE \E c \in Keys : stdin_read_char(c)
  BY <1>1, KeyStep
<1>2. CASE \E c \in Keys : rl_read_key(c)
  BY <1>2, WaitingStep
<1>3. CASE stdin_ends \/ interrupt \/ on_signal \/ port_takes \/ shell_write
  BY <1>3, QuietSteps
<1>4. CASE UNCHANGED vars
  <2>1. Typing'
    BY <1>4 DEF Inv, Typing, vars, options, SeqIsCached
  <2>2. QED
    BY <1>4, <2>1, NotTyped DEF vars, options
<1>5. QED
  BY <1>1, <1>2, <1>3, <1>4 DEF Next

(* The invariant always holds.                                             *)
LEMMA InvAlways == Spec => []Inv
BY InitInv, NextInv, PTL DEF Spec

-----------------------------------------------------------------------------
(* Types are kept: the point never leaves the line, whatever is edited or  *)
(* written over it, and the queue never outgrows opq_rt.                   *)
THEOREM ShellTypeOK == Spec => []TypeOK
<1>1. Inv => TypeOK
  <2> SUFFICES ASSUME Typing PROVE TypeOK
    BY DEF Inv
  <2>1. kb_state.seq0 \in Keys \cup {None} /\ kb_state.cache \in Keys \cup {None}
    BY DEF Typing, SeqIsCached
  <2>2. rl.line \in Seq(Keys) /\ rl.point \in 0..Len(rl.line)
    <3>1. rl.line \in Seq(Keys) /\ rl.point \in Nat /\ rl.point <= Len(rl.line)
      BY DEF Typing, Lines
    <3>2. QED
      BY <3>1, LenProperties
  <2>3. QED
    BY <2>1, <2>2 DEF Typing, TypeOK, Exits
<1>2. QED
  BY <1>1, InvAlways, PTL

(* The event loop stands still only in cooked mode and right behind a NUL  *)
(* (sh_cooked_insertchar()).                                               *)
THEOREM StallsNeedNul == Spec => []StallsOnlyOnNul
<1>1. Inv => StallsOnlyOnNul
  BY DEF Inv
<1>2. QED
  BY <1>1, InvAlways, PTL

(* However many sequences were started or left stale, the second of two    *)
(* equal exit keys in a row ends the program (keybind_eval()).             *)
THEOREM SecondExitKeyExits == Spec => []TwoExitKeysExit
<1>1. Inv => TwoExitKeysExit
  BY DEF Inv
<1>2. QED
  BY <1>1, InvAlways, PTL

(* The key that K_ACTION_UNCACHE flushes is the one that began the         *)
(* sequence (_stdin_read_char()).                                          *)
THEOREM FlushesTheLeader == Spec => []SeqIsCached
<1>1. Inv => SeqIsCached
  BY DEF Inv, Typing
<1>2. QED
  BY <1>1, InvAlways, PTL

-----------------------------------------------------------------------------
(* The reference, key by key.                                              *)

(* A key leads if it is a C-a that follows no leader.                      *)
LEMMA LeadsRecurs ==
  ASSUME NEW ks \in Seq(Keys)
  PROVE  /\ Leads(ks) \in UpTo(Len(ks), BOOLEAN) /\ ~Leads(ks)[0]
         /\ \A i \in 1..Len(ks) : Leads(ks)[i] <=> ks[i] = "C-a" /\ ~Leads(ks)[i - 1]
<1> DEFINE N == Len(ks)
           V == BOOLEAN
           step == [p \in V \X (1..N) |-> ks[p[2]] = "C-a" /\ ~p[1]]
           Obeys(g) == g = [i \in 0..N |-> i > 0 /\ ks[i] = "C-a" /\ ~g[i - 1]]
           leads == CHOOSE g : Obeys(g)
<1>1. N \in Nat
  OBVIOUS
<1>2. Leads(ks) = leads
  BY DEF Leads
<1> HIDE DEF N
<1>3. step \in Steps(N, V) /\ \A v \in V, k \in 1..N : step[<<v, k>>] = (ks[k] = "C-a" /\ ~v)
  BY DEF Steps
<1> HIDE DEF step
<1>4. FALSE \in V
  OBVIOUS
<1> HIDE DEF V
<1>5. PICK f \in UpTo(N, V) : Recurs(f, N, FALSE, step)
  BY <1>1, <1>3, <1>4, RecursionExists
<1>6. ASSUME NEW k \in 0..N PROVE f[k] = (k > 0 /\ ks[k] = "C-a" /\ ~f[k - 1])
  <2>1. CASE k = 0
    <3>1. f[k] = FALSE
      BY <1>1, <1>5, <2>1 DEF Recurs
    <3>2. (k > 0 /\ ks[k] = "C-a" /\ ~f[k - 1]) = FALSE
      BY <2>1
    <3> QED  BY <3>1, <3>2, Zenon
  <2>2. CASE k # 0
    <3>1. k \in 1..N /\ f[k - 1] \in V
      BY <1>1, <1>5, <2>2 DEF UpTo
    <3>2. f[k] = step[<<f[k - 1], k>>]
      BY <1>5, <2>2 DEF Recurs
    <3>3. f[k] = (ks[k] = "C-a" /\ ~f[k - 1])
      BY <1>3, <3>1, <3>2
    <3>4. k > 0
      BY <3>1
    <3> QED  BY <3>3, <3>4
  <2> QED  BY <2>1, <2>2
<1>7. Obeys(f)
  <2>1. f = [k \in 0..N |-> f[k]]
    BY <1>5 DEF UpTo
  <2> QED  BY <1>6, <2>1
<1>8. Obeys(leads)
  BY <1>7
<1> HIDE DEF leads
<1>9. \A i \in 0..N : leads[i] = (i > 0 /\ ks[i] = "C-a" /\ ~leads[i - 1])
  BY <1>8
<1>10. \A i \in 0..N : leads[i] \in BOOLEAN
  BY <1>9
<1>11. leads \in [0..N -> BOOLEAN]
  BY <1>8, <1>10
<1>12. ~leads[0]
  <2>1. 0 \in 0..N /\ ~(0 > 0)
    BY <1>1
  <2> QED  BY <1>9, <2>1
<1>13. ASSUME NEW i \in 1..N PROVE leads[i] <=> ks[i] = "C-a" /\ ~leads[i - 1]
  <2>1. i \in 0..N /\ i > 0
    BY <1>1
  <2> QED  BY <1>9, <2>1
<1> QED  BY <1>2, <1>11, <1>12, <1>13 DEF N, UpTo

(* A sequence and a key appended to it.                                    *)
LEMMA Longer ==
  ASSUME NEW ks \in Seq(Keys), NEW c \in Keys
  PROVE  /\ Append(ks, c) \in Seq(Keys) /\ Len(ks) \in Nat /\ Len(Append(ks, c)) = Len(ks) + 1
         /\ Append(ks, c)[Len(ks) + 1] = c
         /\ \A i \in 1..Len(ks) : Append(ks, c)[i] = ks[i]
BY LenProperties, AppendProperties

(* What leads does not depend on later keys.                               *)
LEMMA LeadsAppend ==
  ASSUME NEW ks \in Seq(Keys), NEW c \in Keys
  PROVE  /\ \A i \in 0..Len(ks) : Leads(Append(ks, c))[i] <=> Leads(ks)[i]
         /\ Leads(Append(ks, c))[Len(ks) + 1] <=> c = "C-a" /\ ~Leads(ks)[Len(ks)]
<1> DEFINE n == Len(ks)
           kc == Append(ks, c)
           T == {i \in 0..n : Leads(kc)[i] <=> Leads(ks)[i]}
<1>1. kc \in Seq(Keys) /\ n \in Nat /\ Len(kc) = n + 1 /\ kc[n + 1] = c
      /\ \A i \in 1..n : kc[i] = ks[i]
  BY Longer
<1> HIDE DEF kc, n
<1>2. ~Leads(ks)[0] /\ \A i \in 1..n : Leads(ks)[i] <=> ks[i] = "C-a" /\ ~Leads(ks)[i - 1]
  BY LeadsRecurs DEF n
<1>3. ~Leads(kc)[0] /\ \A i \in 1..(n + 1) : Leads(kc)[i] <=> kc[i] = "C-a" /\ ~Leads(kc)[i - 1]
  BY <1>1, LeadsRecurs
<1>4. 0 \in T
  <2>1. 0 \in 0..n
    BY <1>1
  <2> QED  BY <1>2, <1>3, <2>1
<1>5. ASSUME NEW i \in 0..(n - 1), i \in T PROVE i + 1 \in T
  <2>1. i + 1 \in 0..n /\ i + 1 \in 1..n /\ i + 1 \in 1..(n + 1) /\ (i + 1) - 1 = i
    BY <1>1
  <2>2. kc[i + 1] = ks[i + 1]
    BY <1>1, <2>1
  <2>3. Leads(kc)[i + 1] <=> kc[i + 1] = "C-a" /\ ~Leads(kc)[i]
    BY <1>3, <2>1
  <2>4. Leads(ks)[i + 1] <=> ks[i + 1] = "C-a" /\ ~Leads(ks)[i]
    BY <1>2, <2>1
  <2> QED  BY <1>5, <2>1, <2>2, <2>3, <2>4
<1> HIDE DEF T
<1>6. 0..n \subseteq T
  BY <1>1, <1>4, <1>5, InductionUpTo
<1>7. \A i \in 0..n : Leads(kc)[i] <=> Leads(ks)[i]
  BY <1>6 DEF T
<1>8. Leads(kc)[n + 1] <=> c = "C-a" /\ ~Leads(ks)[n]
  <2>1. n + 1 \in 1..(n + 1) /\ (n + 1) - 1 = n /\ n \in 0..n
    BY <1>1
  <2>2. Leads(kc)[n + 1] <=> kc[n + 1] = "C-a" /\ ~Leads(kc)[n]
    BY <1>3, <2>1
  <2> QED  BY <1>1, <1>7, <2>1, <2>2
<1> QED  BY <1>7, <1>8 DEF kc, n

(* What the last of ks and a key c gives to the mode.                      *)
GivenNext(ks, c) ==
  IF Leads(ks)[Len(ks)] THEN IF c = "c" THEN <<>> ELSE <<"C-a", c>>
  ELSE IF c \in {"C-a", "C-b", "C-c", "C-d"} THEN <<>> ELSE <<c>>

LEMMA GivenAppend ==
  ASSUME NEW ks \in Seq(Keys), NEW c \in Keys
  PROVE  /\ \A i \in 1..Len(ks) : Given(Append(ks, c), i) = Given(ks, i)
         /\ Given(Append(ks, c), Len(ks) + 1) = GivenNext(ks, c)
         /\ \A i \in 1..Len(ks) : Completes(Append(ks, c), i) <=> Completes(ks, i)
         /\ Completes(Append(ks, c), Len(ks) + 1) <=> Leads(ks)[Len(ks)] /\ c = "c"
<1> DEFINE n == Len(ks)
           kc == Append(ks, c)
<1>1. kc \in Seq(Keys) /\ n \in Nat /\ Len(kc) = n + 1 /\ kc[n + 1] = c
      /\ \A i \in 1..n : kc[i] = ks[i]
  BY Longer
<1>2. /\ \A i \in 0..n : Leads(kc)[i] <=> Leads(ks)[i]
      /\ Leads(kc)[n + 1] <=> c = "C-a" /\ ~Leads(ks)[n]
  BY LeadsAppend
<1>3. ~Leads(ks)[0] /\ \A i \in 1..n : Leads(ks)[i] <=> ks[i] = "C-a" /\ ~Leads(ks)[i - 1]
  BY LeadsRecurs
<1> HIDE DEF kc, n
<1>4. ASSUME NEW i \in 1..n
      PROVE  (Completes(kc, i) <=> Completes(ks, i)) /\ Given(kc, i) = Given(ks, i)
  <2>1. i \in 0..n /\ i - 1 \in 0..n /\ (i - 1 # 0 => i - 1 \in 1..n)
    BY <1>1
  <2>2. kc[i] = ks[i] /\ (i - 1 # 0 => kc[i - 1] = ks[i - 1])
    BY <1>1, <2>1
  <2>3. (Leads(kc)[i] <=> Leads(ks)[i]) /\ (Leads(kc)[i - 1] <=> Leads(ks)[i - 1])
    BY <1>2, <2>1
  <2>4. Completes(kc, i) <=> Completes(ks, i)
    BY <2>2, <2>3 DEF Completes
  <2>5. Leads(ks)[i - 1] => i - 1 # 0
    BY <1>3
  <2> QED  BY <2>2, <2>3, <2>4, <2>5 DEF Given
<1>5. (n + 1) - 1 = n /\ n \in 0..n
  BY <1>1
<1>6. Leads(kc)[(n + 1) - 1] <=> Leads(ks)[n]
  BY <1>2, <1>5
<1>7. Completes(kc, n + 1) <=> Leads(ks)[n] /\ c = "c"
  BY <1>1, <1>6 DEF Completes
<1>8. Given(kc, n + 1) = GivenNext(ks, c)
  <2>1. CASE Leads(ks)[n]
    <3>1. n # 0 /\ n \in 1..n
      BY <1>1, <1>3, <2>1
    <3>2. kc[(n + 1) - 1] = "C-a"
      BY <1>1, <1>3, <1>5, <2>1, <3>1
    <3> QED  BY <1>1, <1>2, <1>6, <1>7, <2>1, <3>2 DEF Given, GivenNext, n
  <2>2. CASE ~Leads(ks)[n]
    <3>1. ~Completes(kc, n + 1) /\ ~Leads(kc)[(n + 1) - 1] /\ (Leads(kc)[n + 1] <=> c = "C-a")
      BY <1>2, <1>6, <1>7, <2>2
    <3> QED  BY <1>1, <2>2, <3>1 DEF Given, GivenNext, n
  <2> QED  BY <2>1, <2>2
<1> QED  BY <1>4, <1>7, <1>8 DEF kc, n

(* The keys given to the mode are those given before and those the last    *)
(* one gives.                                                              *)
LEMMA PassedAppend ==
  ASSUME NEW ks \in Seq(Keys), NEW c \in Keys
  PROVE  Passed(ks) \in Seq(Keys) /\ Passed(Append(ks, c)) = Passed(ks) \o GivenNext(ks, c)
<1> DEFINE n == Len(ks)
           kc == Append(ks, c)
           V == Seq(Keys)
           old == [i \in 1..n |-> Given(ks, i)]
           new == [i \in 1..(n + 1) |-> Given(kc, i)]
<1>1. kc \in Seq(Keys) /\ n \in Nat /\ Len(kc) = n + 1
  BY Longer
<1>2. /\ \A i \in 1..n : Given(kc, i) = Given(ks, i)
      /\ Given(kc, n + 1) = GivenNext(ks, c)
  BY GivenAppend
<1>3. Passed(ks) = FlattenSeq(old) /\ Passed(kc) = FlattenSeq(new)
  BY <1>1 DEF Passed
<1>4. ASSUME NEW i \in 1..n PROVE Given(ks, i) \in V
  <2>1. ~Leads(ks)[0] /\ ks[i] \in Keys /\ (i - 1 # 0 => ks[i - 1] \in Keys)
    BY <1>1, LeadsRecurs
  <2>2. /\ <<>> \in Seq(Keys) /\ <<ks[i]>> \in Seq(Keys)
        /\ i - 1 # 0 => <<ks[i - 1], ks[i]>> \in Seq(Keys)
    BY <2>1
  <2>3. Leads(ks)[i - 1] => i - 1 # 0
    BY <2>1
  <2> QED  BY <2>2, <2>3 DEF Given
<1>5. GivenNext(ks, c) \in V
  <2>1. <<>> \in Seq(Keys) /\ <<c>> \in Seq(Keys)
    OBVIOUS
  <2>2. Leads(ks)[n] => <<"C-a", c>> \in Seq(Keys)
    <3>1. Leads(ks)[n] => n # 0 /\ n \in 1..n
      BY <1>1, LeadsRecurs
    <3>2. Leads(ks)[n] => ks[n] = "C-a" /\ ks[n] \in Keys
      BY <3>1, LeadsRecurs
    <3> QED  BY <3>2
  <2> QED  BY <2>1, <2>2 DEF GivenNext
<1> HIDE DEF kc, n, V
<1>6. old \in Seq(V) /\ Len(old) = n
  BY <1>1, <1>4
<1>7. Append(old, GivenNext(ks, c)) = new
  <2> DEFINE longer == Append(old, GivenNext(ks, c))
  <2>1. /\ longer \in Seq(V) /\ Len(longer) = n + 1
        /\ longer[n + 1] = GivenNext(ks, c) /\ \A i \in 1..n : longer[i] = old[i]
    <3> DEFINE x == GivenNext(ks, c)
    <3> HIDE DEF old, new, x
    <3>1. x \in V
      BY <1>5 DEF x
    <3>2. longer \in Seq(V) /\ Len(longer) = Len(old) + 1 /\ longer[Len(old) + 1] = x
          /\ \A i \in 1..Len(old) : longer[i] = old[i]
      BY <1>6, <3>1, AppendProperties DEF x
    <3> QED  BY <1>6, <3>2 DEF x
  <2>2. \A i \in 1..(n + 1) : longer[i] = new[i]
    <3> SUFFICES ASSUME NEW i \in 1..(n + 1) PROVE longer[i] = new[i]
      OBVIOUS
    <3>1. new[i] = Given(kc, i)
      OBVIOUS
    <3>2. CASE i = n + 1
      BY <1>2, <2>1, <3>1, <3>2
    <3>3. CASE i # n + 1
      <4>1. i \in 1..n
        BY <1>1, <3>3
      <4>2. old[i] = Given(ks, i)
        BY <4>1
      <4> QED  BY <1>2, <2>1, <3>1, <4>1, <4>2
    <3> QED  BY <3>2, <3>3
  <2>3. new \in Seq(V) /\ Len(new) = n + 1
    <3>1. \A i \in 1..(n + 1) : new[i] \in V
      <4> SUFFICES ASSUME NEW i \in 1..(n + 1) PROVE Given(kc, i) \in V
        OBVIOUS
      <4>1. i = n + 1 \/ i \in 1..n
        BY <1>1
      <4> QED  BY <1>2, <1>4, <1>5, <4>1
    <3>2. new = [i \in 1..(n + 1) |-> new[i]]
      OBVIOUS
    <3> HIDE DEF new
    <3>3. new \in [1..(n + 1) -> V] /\ n + 1 \in Nat
      BY <1>1, <3>1, <3>2
    <3> QED  BY <3>3
  <2> HIDE DEF longer, new, old
  <2> QED  BY <2>1, <2>2, <2>3, SameElements DEF longer
<1> HIDE DEF old, new
<1>8. FlattenSeq(old) \in V /\ FlattenSeq(new) = FlattenSeq(old) \o GivenNext(ks, c)
  BY <1>5, <1>6, <1>7, FlattenType, FlattenAppend DEF V
<1> QED  BY <1>3, <1>8 DEF V, kc

-----------------------------------------------------------------------------
(* The modes and the reference.                                            *)

(* b has the line and point of m, and has enqueued x and what m has.       *)
Follows(b, m, x) == b.rl = m.rl /\ b.ops = x \o m.ops

LEMMA RlKeyFollows ==
  ASSUME NEW b \in Handled, NEW m \in Handled, NEW x \in Seq(Ops), Follows(b, m, x),
         NEW c \in Keys
  PROVE  Follows(rl_key(b, c), rl_key(m, c), x)
<1> DEFINE line == m.rl.line
           point == m.rl.point
           Same(d, n) == d.rl = n.rl /\ d.ops = x \o n.ops
<1>1. b.rl = m.rl /\ b.ops = x \o m.ops /\ b.rl.line = line /\ b.rl.point = point
  BY DEF Follows
<1>2. b.rl \in Lines /\ m.rl \in Lines /\ b.ops \in Seq(Ops) /\ m.ops \in Seq(Ops)
  BY DEF Handled
<1>3. line \in Seq(Keys) /\ point \in Nat /\ (point + 1) - 1 = point
  BY <1>2 DEF Lines
<1>4. ASSUME NEW to PROVE Same([b EXCEPT !.rl = to], [m EXCEPT !.rl = to])
  <2>1. /\ [b EXCEPT !.rl = to].rl = to /\ [b EXCEPT !.rl = to].ops = b.ops
        /\ [m EXCEPT !.rl = to].rl = to /\ [m EXCEPT !.rl = to].ops = m.ops
    BY DEF Handled
  <2> QED  BY <1>1, <2>1
<1>5. ASSUME NEW p PROVE Same([b EXCEPT !.rl.point = p], [m EXCEPT !.rl.point = p])
  <2> DEFINE to == [m.rl EXCEPT !.point = p]
  <2>1. /\ [b EXCEPT !.rl.point = p] = [b EXCEPT !.rl = to]
        /\ [m EXCEPT !.rl.point = p] = [m EXCEPT !.rl = to]
    BY <1>1 DEF Handled
  <2> HIDE DEF to, Same
  <2> QED  BY <1>4, <2>1
<1>6. CASE c = "RET"
  <2> DEFINE more == on_rl_line(line)
             rl0 == [line |-> <<>>, point |-> 0]
             bops == b.ops \o more
             mops == m.ops \o more
  <2>1. /\ rl_key(b, c) = [b EXCEPT !.rl = rl0, !.ops = bops]
        /\ rl_key(m, c) = [m EXCEPT !.rl = rl0, !.ops = mops]
    BY <1>1, <1>6 DEF rl_key
  <2>2. more \in Seq(Ops)
    BY <1>3, LineOps
  <2> HIDE DEF more, line
  <2>3. bops = x \o mops
    <3> DEFINE ops == m.ops
    <3>1. ops \in Seq(Ops)
      BY <1>2
    <3> HIDE DEF ops
    <3>2. (x \o ops) \o more = x \o (ops \o more)
      BY <2>2, <3>1, CatAssociative
    <3> QED  BY <1>1, <3>2 DEF ops
  <2> HIDE DEF rl0, bops, mops
  <2>4. /\ rl_key(b, c).rl = rl0 /\ rl_key(b, c).ops = bops
        /\ rl_key(m, c).rl = rl0 /\ rl_key(m, c).ops = mops
    BY <2>1 DEF Handled
  <2> QED  BY <2>3, <2>4 DEF Follows
<1>7. Same(b, m)
  BY <1>1
<1> HIDE DEF Same
<1>8. CASE c # "RET"
  <2>1. Same(rl_key(b, c), rl_key(m, c))
    <3>1. CASE c = "C-a"
      <4>1. rl_key(b, c) = [b EXCEPT !.rl.point = 0] /\ rl_key(m, c) = [m EXCEPT !.rl.point = 0]
        BY <3>1 DEF rl_key
      <4> QED  BY <1>5, <4>1
    <3>2. CASE c = "C-e"
      <4>1. /\ rl_key(b, c) = [b EXCEPT !.rl.point = Len(line)]
            /\ rl_key(m, c) = [m EXCEPT !.rl.point = Len(line)]
        BY <1>1, <3>2 DEF rl_key
      <4> QED  BY <1>5, <4>1
    <3>3. CASE c = "C-b"
      <4>1. /\ rl_key(b, c) = IF point > 0 THEN [b EXCEPT !.rl.point = point - 1] ELSE b
            /\ rl_key(m, c) = IF point > 0 THEN [m EXCEPT !.rl.point = point - 1] ELSE m
        BY <1>1, <3>3 DEF rl_key
      <4> QED  BY <1>5, <1>7, <4>1
    <3>4. CASE c = "DEL"
      <4> DEFINE to == [line |-> RemoveAt(line, point), point |-> point - 1]
      <4>1. /\ rl_key(b, c) = IF point > 0 THEN [b EXCEPT !.rl = to] ELSE b
            /\ rl_key(m, c) = IF point > 0 THEN [m EXCEPT !.rl = to] ELSE m
        BY <1>1, <3>4 DEF rl_key
      <4> HIDE DEF to
      <4> QED  BY <1>4, <1>7, <4>1
    <3>5. CASE c = "C-d"
      <4> DEFINE to == [line |-> RemoveAt(line, point + 1), point |-> point]
      <4>1. /\ rl_key(b, c) = IF point < Len(line) THEN [b EXCEPT !.rl = to] ELSE b
            /\ rl_key(m, c) = IF point < Len(line) THEN [m EXCEPT !.rl = to] ELSE m
        BY <1>1, <1>3, <3>5 DEF rl_key
      <4> HIDE DEF to
      <4> QED  BY <1>4, <1>7, <4>1
    <3>6. CASE c = "NUL"
      <4>1. rl_key(b, c) = b /\ rl_key(m, c) = m
        BY <3>6 DEF rl_key
      <4> QED  BY <1>7, <4>1
    <3>7. CASE c \notin {"RET", "C-a", "C-e", "C-b", "DEL", "C-d", "NUL"}
      <4> DEFINE to == [line |-> InsertAt(line, point + 1, c), point |-> point + 1]
      <4>1. rl_key(b, c) = [b EXCEPT !.rl = to] /\ rl_key(m, c) = [m EXCEPT !.rl = to]
        BY <1>1, <3>7 DEF rl_key
      <4> HIDE DEF to
      <4> QED  BY <1>4, <4>1
    <3> QED  BY <1>8, <3>1, <3>2, <3>3, <3>4, <3>5, <3>6, <3>7
  <2> QED  BY <2>1 DEF Same, Follows
<1> QED  BY <1>6, <1>8

(* What a mode does with a key depends on the line only.                   *)
LEMMA InsertFollows ==
  ASSUME NEW b \in Handled, NEW m \in Handled, NEW x \in Seq(Ops), Follows(b, m, x),
         NEW c \in Keys, cooked \in BOOLEAN
  PROVE  Follows(insert(b, c), insert(m, c), x)
<1>1. b.rl = m.rl /\ b.ops = x \o m.ops /\ b.ops \in Seq(Ops) /\ m.ops \in Seq(Ops)
  BY DEF Follows, Handled
<1>2. CASE cooked /\ c = "NUL"
  <2>1. insert(b, c) = [b EXCEPT !.blocked = TRUE] /\ insert(m, c) = [m EXCEPT !.blocked = TRUE]
    BY <1>2 DEF insert, sh_cooked_insertchar
  <2>2. /\ insert(b, c).rl = b.rl /\ insert(b, c).ops = b.ops
        /\ insert(m, c).rl = m.rl /\ insert(m, c).ops = m.ops
    BY <2>1 DEF Handled
  <2> QED  BY <1>1, <2>2 DEF Follows
<1>3. CASE cooked /\ c # "NUL"
  <2>1. insert(b, c) = rl_key(b, c) /\ insert(m, c) = rl_key(m, c)
    BY <1>3 DEF insert, sh_cooked_insertchar
  <2> QED  BY <2>1, RlKeyFollows
<1>4. CASE ~cooked
  <2> DEFINE op == Op("PUTC", c)
             bops == Append(b.ops, op)
             mops == Append(m.ops, op)
  <2>1. insert(b, c) = [b EXCEPT !.ops = bops] /\ insert(m, c) = [m EXCEPT !.ops = mops]
    BY <1>4 DEF insert, sh_raw_insertchar
  <2>2. op \in Ops
    BY DEF Op, Ops
  <2> HIDE DEF op
  <2>3. bops = x \o mops
    <3> DEFINE ops == m.ops
    <3>1. ops \in Seq(Ops)
      BY <1>1
    <3> HIDE DEF ops
    <3>2. Append(x \o ops, op) = x \o Append(ops, op)
      BY <2>2, <3>1
    <3> QED  BY <1>1, <3>2 DEF ops
  <2> HIDE DEF bops, mops
  <2>4. /\ insert(b, c).rl = b.rl /\ insert(b, c).ops = bops
        /\ insert(m, c).rl = m.rl /\ insert(m, c).ops = mops
    BY <2>1 DEF Handled
  <2> QED  BY <1>1, <2>3, <2>4 DEF Follows
<1> QED  BY <1>2, <1>3, <1>4

(* The reference edits one key after the other.                            *)
LEMMA EditedRecurs ==
  ASSUME cooked \in BOOLEAN, NEW ks \in Seq(Keys)
  PROVE  \E f \in UpTo(Len(ks), Handled) :
           /\ \A i \in 0..Len(ks) : f[i] = IF i = 0 THEN Untouched ELSE insert(f[i - 1], ks[i])
           /\ Edited(ks) = f[Len(ks)]
<1> DEFINE N == Len(ks)
           step == [p \in Handled \X (1..N) |-> insert(p[1], ks[p[2]])]
           Obeys(g) == g = [i \in 0..N |-> IF i = 0 THEN Untouched ELSE insert(g[i - 1], ks[i])]
           after == CHOOSE g : Obeys(g)
<1>1. N \in Nat /\ \A i \in 1..N : ks[i] \in Keys
  OBVIOUS
<1>2. Edited(ks) = after[N]
  BY DEF Edited
<1> HIDE DEF N
<1>3. \A v \in Handled, i \in 1..N : insert(v, ks[i]) \in Handled
  BY <1>1, Insert
<1>4. step \in Steps(N, Handled) /\ \A v \in Handled, i \in 1..N :
                                       step[<<v, i>>] = insert(v, ks[i])
  BY <1>3 DEF Steps
<1> HIDE DEF step
<1>5. Untouched \in Handled
  <2>1. <<>> \in Seq(Keys) /\ <<>> \in Seq(Ops) /\ Len(<<>>) = 0
    OBVIOUS
  <2> QED  BY <2>1 DEF Untouched, Handled, Lines
<1>6. PICK f \in UpTo(N, Handled) : Recurs(f, N, Untouched, step)
  BY <1>1, <1>4, <1>5, RecursionExists
<1>7. ASSUME NEW i \in 0..N
      PROVE  f[i] = IF i = 0 THEN Untouched ELSE insert(f[i - 1], ks[i])
  <2>1. i # 0 => i \in 1..N /\ f[i - 1] \in Handled
    BY <1>1, <1>6 DEF UpTo
  <2> QED  BY <1>4, <1>6, <2>1 DEF Recurs
<1>8. Obeys(f)
  <2>1. f = [i \in 0..N |-> f[i]]
    BY <1>6 DEF UpTo
  <2> QED  BY <1>7, <2>1
<1>9. Obeys(after)
  BY <1>8
<1> HIDE DEF after
<1>10. after[N] = f[N]
  <2> DEFINE T == {i \in 0..N : after[i] = f[i]}
  <2>1. \A i \in 0..N : after[i] = IF i = 0 THEN Untouched ELSE insert(after[i - 1], ks[i])
    BY <1>9
  <2>2. 0 \in T
    BY <1>1, <1>7, <2>1
  <2>3. ASSUME NEW i \in 0..(N - 1), i \in T PROVE i + 1 \in T
    <3>1. i + 1 \in 0..N /\ i + 1 # 0 /\ (i + 1) - 1 = i
      BY <1>1
    <3> QED  BY <1>7, <2>1, <2>3, <3>1
  <2> HIDE DEF T
  <2>4. 0..N \subseteq T
    BY <1>1, <2>2, <2>3, InductionUpTo
  <2> QED  BY <1>1, <2>4 DEF T
<1> QED  BY <1>2, <1>6, <1>7, <1>10 DEF N

LEMMA EditedType ==
  ASSUME cooked \in BOOLEAN, NEW ks \in Seq(Keys)
  PROVE  Edited(ks) \in Handled
<1>1. PICK f \in UpTo(Len(ks), Handled) : Edited(ks) = f[Len(ks)]
  BY EditedRecurs
<1> QED  BY <1>1 DEF UpTo

LEMMA EditedEmpty == cooked \in BOOLEAN => Edited(<<>>) = Untouched
<1> SUFFICES ASSUME cooked \in BOOLEAN PROVE Edited(<<>>) = Untouched
  OBVIOUS
<1> DEFINE ks == <<>>
<1>1. ks \in Seq(Keys) /\ Len(ks) = 0 /\ 0 \in 0..0
  OBVIOUS
<1> HIDE DEF ks
<1>2. PICK f \in UpTo(Len(ks), Handled) :
        /\ \A i \in 0..Len(ks) : f[i] = IF i = 0 THEN Untouched ELSE insert(f[i - 1], ks[i])
        /\ Edited(ks) = f[Len(ks)]
  BY <1>1, EditedRecurs
<1>3. Edited(ks) = Untouched
  BY <1>1, <1>2
<1> QED  BY <1>3 DEF ks

LEMMA EditedAppend ==
  ASSUME cooked \in BOOLEAN, NEW ks \in Seq(Keys), NEW c \in Keys
  PROVE  Edited(Append(ks, c)) = insert(Edited(ks), c)
<1> DEFINE n == Len(ks)
           kc == Append(ks, c)
<1>1. kc \in Seq(Keys) /\ n \in Nat /\ Len(kc) = n + 1 /\ kc[n + 1] = c
      /\ \A i \in 1..n : kc[i] = ks[i]
  BY Longer
<1> HIDE DEF kc, n
<1>2. PICK f \in UpTo(n, Handled) :
        /\ \A i \in 0..n : f[i] = IF i = 0 THEN Untouched ELSE insert(f[i - 1], ks[i])
        /\ Edited(ks) = f[n]
  BY EditedRecurs DEF n
<1>3. PICK g \in UpTo(n + 1, Handled) :
        /\ \A i \in 0..(n + 1) : g[i] = IF i = 0 THEN Untouched ELSE insert(g[i - 1], kc[i])
        /\ Edited(kc) = g[n + 1]
  BY <1>1, EditedRecurs
<1> DEFINE T == {i \in 0..n : f[i] = g[i]}
<1>4. 0 \in T
  <2>1. 0 \in 0..n /\ 0 \in 0..(n + 1)
    BY <1>1
  <2> QED  BY <1>2, <1>3, <2>1
<1>5. ASSUME NEW i \in 0..(n - 1), i \in T PROVE i + 1 \in T
  <2>1. i + 1 \in 0..n /\ i + 1 \in 0..(n + 1) /\ i + 1 \in 1..n /\ i + 1 # 0 /\ (i + 1) - 1 = i
    BY <1>1
  <2>2. f[i + 1] = insert(f[i], ks[i + 1]) /\ g[i + 1] = insert(g[i], kc[i + 1])
    BY <1>2, <1>3, <2>1
  <2> QED  BY <1>1, <1>5, <2>1, <2>2
<1> HIDE DEF T
<1>6. n \in T
  <2>1. 0..n \subseteq T
    BY <1>1, <1>4, <1>5, InductionUpTo
  <2> QED  BY <1>1, <2>1
<1>7. g[n + 1] = insert(g[n], c)
  <2>1. n + 1 \in 0..(n + 1) /\ n + 1 # 0 /\ (n + 1) - 1 = n
    BY <1>1
  <2> QED  BY <1>1, <1>3, <2>1
<1> QED  BY <1>2, <1>3, <1>6, <1>7 DEF T, kc

-----------------------------------------------------------------------------
(* The keys that raw mode sends.                                           *)

LEMMA OnlyAppend ==
  ASSUME NEW S, NEW ks \in Seq(S), NEW c \in S, NEW keys
  PROVE  Only(keys, Append(ks, c)) =
           IF c \in keys THEN Append(Only(keys, ks), c) ELSE Only(keys, ks)
<1> DEFINE e(x) == IF x \in keys THEN <<x>> ELSE <<>>
           kc == Append(ks, c)
           ss == [i \in 1..Len(ks) |-> e(ks[i])]
           tt == [i \in 1..Len(kc) |-> e(kc[i])]
<1>1. /\ kc \in Seq(S) /\ Len(ks) \in Nat /\ Len(kc) = Len(ks) + 1 /\ kc[Len(ks) + 1] = c
      /\ \A i \in 1..Len(ks) : kc[i] = ks[i] /\ ks[i] \in S
  BY AppendProperties
<1>2. /\ \A x \in S : e(x) \in Seq(S)
      /\ \A x : e(x) = IF x \in keys THEN <<x>> ELSE <<>>
  OBVIOUS
<1>3. Only(keys, ks) = FlattenSeq(ss) /\ Only(keys, kc) = FlattenSeq(tt)
  BY DEF Only
<1> HIDE DEF kc, e
<1>4. ss \in Seq(Seq(S)) /\ Len(ss) = Len(ks) /\ \A i \in 1..Len(ks) : ss[i] = e(ks[i])
  BY <1>1, <1>2
<1>5. tt \in Seq(Seq(S)) /\ Len(tt) = Len(kc) /\ \A i \in 1..Len(kc) : tt[i] = e(kc[i])
  <2>1. \A i \in 1..Len(kc) : kc[i] \in S
    BY <1>1
  <2> QED  BY <1>1, <1>2, <2>1
<1> HIDE DEF ss, tt
<1>6. tt = Append(ss, e(c))
  <2> DEFINE V == Seq(S)
             uu == Append(ss, e(c))
  <2>1. ss \in Seq(V) /\ tt \in Seq(V) /\ e(c) \in V
    BY <1>2, <1>4, <1>5
  <2> HIDE DEF V
  <2>2. /\ uu \in Seq(V) /\ Len(uu) = Len(ss) + 1 /\ uu[Len(ss) + 1] = e(c)
        /\ \A i \in 1..Len(ss) : uu[i] = ss[i]
    BY <2>1, AppendProperties
  <2> HIDE DEF uu
  <2>3. Len(tt) = Len(uu) /\ Len(tt) = Len(ks) + 1
    BY <1>1, <1>4, <1>5, <2>2
  <2>4. ASSUME NEW i \in 1..Len(tt) PROVE tt[i] = uu[i]
    <3>1. CASE i \in 1..Len(ks)
      BY <1>1, <1>4, <1>5, <2>2, <3>1
    <3>2. CASE i = Len(ks) + 1
      BY <1>1, <1>4, <1>5, <2>2, <3>2
    <3> QED  BY <1>1, <2>3, <3>1, <3>2
  <2>5. tt = uu
    BY <2>1, <2>2, <2>3, <2>4, SameElements
  <2> QED  BY <2>5 DEF uu
<1>7. FlattenSeq(tt) = FlattenSeq(ss) \o e(c) /\ FlattenSeq(ss) \in Seq(S)
  BY <1>2, <1>4, <1>6, FlattenAppend, FlattenType
<1>8. FlattenSeq(ss) \o <<c>> = Append(FlattenSeq(ss), c) /\ FlattenSeq(ss) \o <<>> = FlattenSeq(ss)
  BY <1>7
<1> QED  BY <1>2, <1>3, <1>7, <1>8 DEF kc

AllData == Keys \cup Seq(Keys) \cup {1}

LEMMA DataAppend ==
  ASSUME NEW ops \in Seq(Ops), NEW c \in Keys
  PROVE  /\ Data(ops) \in Seq(AllData) /\ Append(ops, Op("PUTC", c)) \in Seq(Ops)
         /\ Data(Append(ops, Op("PUTC", c))) = Append(Data(ops), c)
<1> DEFINE op == Op("PUTC", c)
           new == Append(ops, op)
<1>1. op \in Ops /\ op.data = c /\ c \in AllData
  BY DEF Ops, Op, AllData
<1>2. \A x \in Ops : x.data \in AllData
  BY DEF Ops, AllData
<1> HIDE DEF op
<1>3. /\ new \in Seq(Ops) /\ Len(ops) \in Nat /\ Len(new) = Len(ops) + 1 /\ new[Len(ops) + 1] = op
      /\ \A i \in 1..Len(ops) : new[i] = ops[i] /\ ops[i] \in Ops
  BY <1>1, AppendProperties
<1> HIDE DEF new
<1>4. /\ Data(ops) \in Seq(AllData) /\ Len(Data(ops)) = Len(ops)
      /\ \A i \in 1..Len(ops) : Data(ops)[i] = ops[i].data
  BY <1>2, <1>3 DEF Data
<1>5. /\ Data(new) \in Seq(AllData) /\ Len(Data(new)) = Len(new)
      /\ \A i \in 1..Len(new) : Data(new)[i] = new[i].data
  <2>1. \A i \in 1..Len(new) : new[i] \in Ops
    BY <1>1, <1>3
  <2> QED  BY <1>2, <1>3, <2>1 DEF Data
<1> DEFINE d == Append(Data(ops), c)
<1>6. /\ d \in Seq(AllData) /\ Len(d) = Len(ops) + 1 /\ d[Len(ops) + 1] = c
      /\ \A i \in 1..Len(ops) : d[i] = ops[i].data
  BY <1>1, <1>3, <1>4, AppendProperties
<1> HIDE DEF d
<1>7. Len(Data(new)) = Len(d) /\ \A i \in 1..Len(d) : Data(new)[i] = d[i]
  BY <1>1, <1>3, <1>5, <1>6
<1>8. Data(new) = d
  BY <1>5, <1>6, <1>7, SameElements
<1> QED  BY <1>3, <1>4, <1>8 DEF new, op, d

(* One more key enqueued by raw mode.                                      *)
LEMMA OnlyPutc ==
  ASSUME NEW ops \in Seq(Ops), NEW c \in Keys, NEW keys
  PROVE  /\ Append(ops, Op("PUTC", c)) \in Seq(Ops)
         /\ Only(keys, Data(Append(ops, Op("PUTC", c)))) =
              IF c \in keys THEN Append(Only(keys, Data(ops)), c) ELSE Only(keys, Data(ops))
<1>1. /\ Data(ops) \in Seq(AllData) /\ Append(ops, Op("PUTC", c)) \in Seq(Ops)
      /\ Data(Append(ops, Op("PUTC", c))) = Append(Data(ops), c)
  BY DataAppend
<1>2. c \in AllData
  BY DEF AllData
<1> DEFINE d == Data(ops)
<1> HIDE DEF d
<1>3. d \in Seq(AllData)
  BY <1>1 DEF d
<1>4. Only(keys, Append(d, c)) = IF c \in keys THEN Append(Only(keys, d), c) ELSE Only(keys, d)
  BY <1>2, <1>3, OnlyAppend
<1> QED  BY <1>1, <1>4 DEF d

-----------------------------------------------------------------------------
(* What was typed is what is sent.                                         *)

(* No sequence has been completed. *)
Fresh == \A i \in 1..Len(typed) : ~Completes(typed, i)

(* _seq0 is set behind a key that leads a sequence, and only there, until  *)
(* a sequence is completed.                                                *)
Synced ==
  (exit = "no" /\ NothingHidden /\ Fresh)
    => (kb_state.seq0 = "C-a" <=> Leads(typed)[Len(typed)])

OrderInv == Synced /\ SentAsTyped /\ RawSendsUnbound

LEMMA OrderInit == Init => OrderInv
<1> SUFFICES ASSUME Init PROVE OrderInv
  OBVIOUS
<1> USE DEF Init
<1>1. typed = <<>> /\ <<>> \in Seq(Keys) /\ Len(<<>>) = 0
  OBVIOUS
<1>2. Synced
  <2>1. ~Leads(<<>>)[0]
    BY <1>1, LeadsRecurs
  <2>2. kb_state.seq0 # "C-a"
    BY DEF None
  <2> QED  BY <1>1, <2>1, <2>2 DEF Synced
<1>3. SentAsTyped
  <2>1. Passed(<<>>) = <<>>
    <3>1. [i \in 1..Len(<<>>) |-> Given(<<>>, i)] = <<>>
      BY <1>1
    <3> QED  BY <3>1, FlattenEmpty DEF Passed
  <2>2. Edited(Passed(typed)) = Untouched
    BY <1>1, <2>1, EditedEmpty
  <2>3. sent \o queue = <<>> /\ exit = "no"
    OBVIOUS
  <2> QED  BY <2>2, <2>3 DEF SentAsTyped, Untouched
<1>4. RawSendsUnbound
  <2>1. sent \o queue = <<>> /\ Data(<<>>) = <<>>
    BY DEF Data
  <2> QED  BY <1>1, <2>1 DEF RawSendsUnbound, RawSends
<1> QED  BY <1>2, <1>3, <1>4 DEF OrderInv

(* The reference depends on the keys and the mode alone. *)
LEMMA EditedSame ==
  ASSUME UNCHANGED cooked, NEW ks
  PROVE  Edited(ks)' = Edited(ks)
<1>1. \A m, c : insert(m, c)' = insert(m, c)
  BY DEF insert
<1> QED  BY <1>1 DEF Edited

LEMMA PrefixOfCat ==
  ASSUME NEW S, NEW s \in Seq(S), NEW t \in Seq(S)
  PROVE  IsPrefix(s, s \o t)
<1>1. Len(s) \in Nat /\ Len(t) \in Nat /\ Len(s) <= Len(s \o t)
  OBVIOUS
<1>2. SubSeq(s, 1, Len(s)) = SubSeq(s \o t, 1, Len(s))
  OBVIOUS
<1> QED  BY <1>1, <1>2 DEF IsPrefix

LEMMA PrefixOfItself ==
  ASSUME NEW S, NEW s \in Seq(S)
  PROVE  IsPrefix(s, s)
BY DEF IsPrefix

(* What is enqueued is what the handler and the reference have made, or as *)
(* much of it as there is room for.                                        *)
LEMMA FinishedAs ==
  ASSUME Typing, exit = "no", NEW m \in Handled, Finish(m), UNCHANGED sent,
         NEW b \in Handled, Follows(b, m, sent \o queue)
  PROVE  /\ exit' \in {"no", "assert_full"}
         /\ exit' = "no" => sent' \o queue' = b.ops /\ rl' = b.rl
         /\ IsPrefix(sent' \o queue', b.ops)
<1> DEFINE ops == m.ops
           room == QueueSize - Len(queue)
<1>1. b.rl = m.rl /\ b.ops = (sent \o queue) \o ops /\ b.ops \in Seq(Ops) /\ ops \in Seq(Ops)
  BY DEF Follows, Handled
<1>2. rl' = m.rl /\ enqueue(ops) /\ sent' = sent
  BY DEF Finish
<1>3. /\ queue \in Seq(Ops) /\ sent \in Seq(Ops) /\ QueueSize \in Nat
      /\ Len(queue) \in Nat /\ Len(queue) <= QueueSize /\ Len(ops) \in Nat
  BY <1>1, ShellAssumption, LenProperties DEF Typing
<1> HIDE DEF ops
<1>4. CASE Len(queue) + Len(ops) <= QueueSize
  <2>1. queue' = queue \o ops /\ exit' = exit
    BY <1>2, <1>4 DEF enqueue
  <2>2. queue \in Seq(Ops) /\ sent \in Seq(Ops) /\ ops \in Seq(Ops)
    BY <1>1, <1>3
  <2>3. (sent \o queue) \o ops = sent \o (queue \o ops)
    <3> DEFINE s == sent
               t == queue
    <3>1. s \in Seq(Ops) /\ t \in Seq(Ops) /\ ops \in Seq(Ops)
      BY <2>2
    <3> HIDE DEF s, t
    <3>2. (s \o t) \o ops = s \o (t \o ops)
      BY <3>1, CatAssociative
    <3> QED  BY <3>2 DEF s, t
  <2>4. sent' \o queue' = b.ops
    BY <1>1, <1>2, <2>1, <2>3
  <2> QED  BY <1>1, <1>2, <2>1, <2>4, PrefixOfItself
<1>5. CASE ~(Len(queue) + Len(ops) <= QueueSize)
  <2> DEFINE fits == SubSeq(ops, 1, room)
             rest == SubSeq(ops, room + 1, Len(ops))
  <2>1. queue' = queue \o fits /\ exit' = "assert_full"
    BY <1>2, <1>5 DEF enqueue
  <2>2. room \in 0..Len(ops)
    BY <1>3, <1>5
  <2>3. fits \in Seq(Ops) /\ Len(fits) = room /\ rest \in Seq(Ops) /\ fits \o rest = ops
    <3> HIDE DEF room
    <3> QED  BY <1>1, <2>2, SplitSeq
  <2> HIDE DEF fits, rest
  <2>4. Len(queue') = QueueSize
    <3>1. Len(queue \o fits) = Len(queue) + Len(fits)
      BY <1>3, <2>3
    <3> QED  BY <1>3, <2>1, <2>3, <3>1
  <2> HIDE DEF room
  <2>5. sent \o (queue \o fits) = (sent \o queue) \o fits /\ sent \o queue \in Seq(Ops)
        /\ (sent \o queue) \o fits \in Seq(Ops)
    <3>1. sent \in Seq(Ops) /\ queue \in Seq(Ops) /\ fits \in Seq(Ops)
      BY <1>3, <2>3
    <3>2. sent \o queue \in Seq(Ops) /\ (sent \o queue) \o fits \in Seq(Ops)
      BY <3>1, ConcatProperties
    <3>3. (sent \o queue) \o fits = sent \o (queue \o fits)
      <4> DEFINE s == sent
                 t == queue
      <4>1. s \in Seq(Ops) /\ t \in Seq(Ops) /\ fits \in Seq(Ops)
        BY <3>1
      <4> HIDE DEF s, t
      <4>2. (s \o t) \o fits = s \o (t \o fits)
        BY <4>1, CatAssociative
      <4> QED  BY <4>2 DEF s, t
    <3> QED  BY <3>2, <3>3
  <2>6. ((sent \o queue) \o fits) \o rest = (sent \o queue) \o ops
    <3> DEFINE x == sent \o queue
    <3>1. x \in Seq(Ops) /\ fits \in Seq(Ops) /\ rest \in Seq(Ops)
      BY <2>3, <2>5
    <3> HIDE DEF x
    <3>2. (x \o fits) \o rest = x \o (fits \o rest)
      BY <3>1, CatAssociative
    <3> QED  BY <2>3, <3>2 DEF x
  <2>7. IsPrefix((sent \o queue) \o fits, ((sent \o queue) \o fits) \o rest)
    BY <2>3, <2>5, PrefixOfCat
  <2>8. IsPrefix(sent' \o queue', b.ops)
    BY <1>1, <1>2, <2>1, <2>5, <2>6, <2>7
  <2> QED  BY <2>1, <2>4, <2>8
<1> QED  BY <1>4, <1>5

(* The reference before and behind a key, and its sequences.               *)
LEMMA ReferenceStep ==
  ASSUME Typing, NEW c \in Keys, typed' = Append(typed, c), UNCHANGED cooked
  PROVE  /\ Passed(typed) \in Seq(Keys) /\ Edited(Passed(typed)) \in Handled
         /\ Leads(typed')[Len(typed')] <=> c = "C-a" /\ ~Leads(typed)[Len(typed)]
         /\ NothingStale' => Fresh
         /\ Fresh' => Fresh /\ ~(Leads(typed)[Len(typed)] /\ c = "c")
         /\ Leads(typed')[Len(typed') - 1] <=> Leads(typed)[Len(typed)]
         /\ LET b == Edited(Passed(typed))
                l == Leads(typed)[Len(typed)]
            IN  Edited(Passed(typed))' =
                  IF l THEN IF c = "c" THEN b ELSE insert(insert(b, "C-a"), c)
                  ELSE IF c \in {"C-a", "C-b", "C-c", "C-d"} THEN b ELSE insert(b, c)
<1> DEFINE n == Len(typed)
           tc == Append(typed, c)
           p == Passed(typed)
<1>1. typed \in Seq(Keys) /\ cooked \in BOOLEAN /\ typed' = tc
  BY DEF Typing
<1>2. /\ tc \in Seq(Keys) /\ n \in Nat /\ Len(tc) = n + 1 /\ tc[n + 1] = c
      /\ \A i \in 1..n : tc[i] = typed[i]
  BY <1>1, Longer
<1>3. p \in Seq(Keys) /\ Passed(tc) = p \o GivenNext(typed, c)
  BY <1>1, PassedAppend
<1>4. /\ \A i \in 0..n : Leads(tc)[i] <=> Leads(typed)[i]
      /\ Leads(tc)[n + 1] <=> c = "C-a" /\ ~Leads(typed)[n]
  BY <1>1, LeadsAppend
<1>5. /\ \A i \in 1..n : Completes(tc, i) <=> Completes(typed, i)
      /\ Completes(tc, n + 1) <=> Leads(typed)[n] /\ c = "c"
  BY <1>1, GivenAppend
<1>6. Leads(typed)[n] => "C-a" \in Keys
  <2>1. Leads(typed)[n] => n # 0 /\ n \in 1..n
    BY <1>1, <1>2, LeadsRecurs
  <2>2. Leads(typed)[n] => typed[n] = "C-a" /\ typed[n] \in Keys
    BY <1>1, <2>1, LeadsRecurs
  <2> QED  BY <2>2
<1> HIDE DEF tc, n, p
<1>7. (n + 1) - 1 = n /\ n \in 0..n /\ n + 1 \in 1..(n + 1) /\ 1..n \subseteq 1..(n + 1)
  BY <1>2
<1>8. NothingStale' => Fresh
  BY <1>1, <1>2, <1>5, <1>7 DEF NothingStale, Fresh, n
<1>9. Fresh' => Fresh /\ ~(Leads(typed)[n] /\ c = "c")
  BY <1>1, <1>2, <1>5, <1>7 DEF Fresh, n
<1>10. Edited(p) \in Handled
  BY <1>1, <1>3, EditedType
<1>11. Edited(Passed(typed))' = Edited(Passed(tc))
  BY <1>1, EditedSame
<1> DEFINE b == Edited(p)
           l == Leads(typed)[n]
<1>12. Edited(Passed(tc)) =
         IF l THEN IF c = "c" THEN b ELSE insert(insert(b, "C-a"), c)
         ELSE IF c \in {"C-a", "C-b", "C-c", "C-d"} THEN b ELSE insert(b, c)
  <2>1. CASE GivenNext(typed, c) = <<>>
    <3>1. p \o <<>> = p
      BY <1>3
    <3>2. (l /\ c = "c") \/ (~l /\ c \in {"C-a", "C-b", "C-c", "C-d"})
      BY <2>1 DEF GivenNext, n
    <3> QED  BY <1>3, <2>1, <3>1, <3>2
  <2>2. CASE l /\ c # "c"
    <3>1. "C-a" \in Keys
      BY <1>6, <2>2
    <3>2. GivenNext(typed, c) = <<"C-a", c>>
      BY <2>2 DEF GivenNext, n
    <3>3. p \o <<"C-a", c>> = Append(Append(p, "C-a"), c) /\ Append(p, "C-a") \in Seq(Keys)
      BY <1>3, <3>1
    <3>4. Edited(Append(Append(p, "C-a"), c)) = insert(Edited(Append(p, "C-a")), c)
      BY <1>1, <3>3, EditedAppend
    <3>5. Edited(Append(p, "C-a")) = insert(Edited(p), "C-a")
      BY <1>1, <1>3, <3>1, EditedAppend
    <3> QED  BY <1>3, <2>2, <3>2, <3>3, <3>4, <3>5
  <2>3. CASE ~l /\ c \notin {"C-a", "C-b", "C-c", "C-d"}
    <3>1. GivenNext(typed, c) = <<c>>
      BY <2>3 DEF GivenNext, n
    <3>2. p \o <<c>> = Append(p, c)
      BY <1>3
    <3>3. Edited(Append(p, c)) = insert(Edited(p), c)
      BY <1>1, <1>3, EditedAppend
    <3> QED  BY <1>3, <2>3, <3>1, <3>2, <3>3
  <2>4. (l /\ c = "c") \/ (~l /\ c \in {"C-a", "C-b", "C-c", "C-d"}) => GivenNext(typed, c) = <<>>
    BY DEF GivenNext, n
  <2> QED  BY <2>1, <2>2, <2>3, <2>4
<1> QED  BY <1>1, <1>2, <1>3, <1>4, <1>7, <1>8, <1>9, <1>10, <1>11, <1>12 DEF n, p

(* Either everything is enqueued or an assertion fails. *)
LEMMA EnqueuesAll ==
  ASSUME Typing, exit = "no", NEW m \in Handled, Finish(m), UNCHANGED sent
  PROVE  /\ exit' \in {"no", "assert_full"}
         /\ exit' = "no" => sent' \o queue' = (sent \o queue) \o m.ops
<1> DEFINE ops == (sent \o queue) \o m.ops
           b == [rl |-> m.rl, ops |-> ops, blocked |-> FALSE]
<1>1. ops \in Seq(Ops) /\ m.rl \in Lines
  <2>1. sent \in Seq(Ops) /\ queue \in Seq(Ops) /\ m.ops \in Seq(Ops) /\ m.rl \in Lines
    BY DEF Typing, Handled
  <2> QED  BY <2>1
<1>2. b \in Handled /\ b.ops = ops /\ Follows(b, m, sent \o queue)
  <2> HIDE DEF ops
  <2>1. b \in Handled /\ b.rl = m.rl /\ b.ops = ops
    BY <1>1 DEF Handled
  <2> HIDE DEF b
  <2> QED  BY <2>1 DEF Follows, ops
<1> HIDE DEF b
<1> QED  BY <1>2, FinishedAs

(* What _stdin_read_char() does with a key, with and without a leader.     *)
LEMMA ReadCharAs ==
  ASSUME Typing, NEW c \in Keys, read_char(c)
  PROVE  LET seq0 == kb_state.seq0
             Idle == UNCHANGED <<rl, blocked, queue, exit>>
         IN  \/ /\ seq0 = None /\ kb_state'.seq0 = None /\ c \notin {"C-a", "C-b", "C-c", "C-d"}
                /\ Finish(insert(Start, c))
             \/ /\ seq0 = "C-a" /\ kb_state'.seq0 = None /\ c # "c" /\ "C-a" \in Keys
                /\ Finish(insert(insert(Start, "C-a"), c))
             \/ /\ seq0 = None /\ kb_state'.seq0 = None /\ c \in ExitKeys
                /\ exit' = "user key" /\ UNCHANGED <<rl, blocked, queue>>
             \/ seq0 = None /\ kb_state'.seq0 = None /\ c = "C-b" /\ Idle
             \/ seq0 = None /\ kb_state'.seq0 = "C-a" /\ c = "C-a" /\ Idle
             \/ seq0 = "C-a" /\ kb_state'.seq0 = "C-a" /\ c = "c" /\ Idle
<1> DEFINE e == keybind_eval(kb_state.seq0, c)
<1>1. /\ kb_state.seq0 \in {None, "C-a"}
      /\ kb_state.seq0 = "C-a" => kb_state.cache = "C-a" /\ "C-a" \in Keys
  BY DEF Typing, SeqIsCached, None
<1>2. /\ kb_state'.seq0 = e.seq0
      /\ \/ e.action = "PUTC" /\ Finish(insert(Start, c))
         \/ e.action = "UNCACHE" /\ Finish(insert(insert(Start, kb_state.cache), c))
         \/ e.action = "EXIT" /\ exit' = "user key" /\ UNCHANGED <<rl, blocked, queue>>
         \/ e.action \in {"CACHE", "TOG_CMD_MODE", "NONE"} /\ UNCHANGED <<rl, blocked, queue, exit>>
  BY DEF read_char, Leave
<1>3. CASE kb_state.seq0 = None
  <2>1. \/ c = "C-a" /\ e = [action |-> "CACHE", seq0 |-> "C-a"]
        \/ c \in ExitKeys /\ e = [action |-> "EXIT", seq0 |-> None]
        \/ c = "C-b" /\ e = [action |-> "TOG_CMD_MODE", seq0 |-> None]
        \/ /\ c \notin {"C-a", "C-b", "C-c", "C-d"}
           /\ e = [action |-> "PUTC", seq0 |-> None]
    BY <1>3, Evaluates DEF ExitKeys
  <2> HIDE DEF e
  <2>2. \/ c = "C-a" /\ e.action = "CACHE" /\ e.seq0 = "C-a"
        \/ c \in ExitKeys /\ e.action = "EXIT" /\ e.seq0 = None
        \/ c = "C-b" /\ e.action = "TOG_CMD_MODE" /\ e.seq0 = None
        \/ /\ c \notin {"C-a", "C-b", "C-c", "C-d"}
           /\ e.action = "PUTC" /\ e.seq0 = None
    BY <2>1
  <2> QED  BY <1>2, <1>3, <2>2
<1>4. CASE kb_state.seq0 = "C-a"
  <2>1. \/ c = "c" /\ e = [action |-> "TOG_CMD_MODE", seq0 |-> "C-a"]
        \/ c # "c" /\ e = [action |-> "UNCACHE", seq0 |-> None]
    BY <1>4, Evaluates
  <2> HIDE DEF e
  <2>2. \/ c = "c" /\ e.action = "TOG_CMD_MODE" /\ e.seq0 = "C-a"
        \/ c # "c" /\ e.action = "UNCACHE" /\ e.seq0 = None
    BY <2>1
  <2>3. kb_state.cache = "C-a" /\ "C-a" \in Keys
    BY <1>1, <1>4
  <2> QED  BY <1>2, <1>4, <2>2, <2>3
<1> QED  BY <1>1, <1>3, <1>4

(* A key in raw mode: it is sent after the leader it breaks off, if any,   *)
(* and the leader is not one of these keys.                                *)
LEMMA RawOrder ==
  ASSUME Inv, OrderInv, NEW c \in Keys, stdin_read_char(c)
  PROVE  RawSendsUnbound'
<1> DEFINE keys == Keys \ (Bound \cup {"0xFF"})
           x == sent \o queue
           was == Only(keys, Data(x))
           sends == Only(keys, Data(sent' \o queue'))
<1>1. /\ exit = "no" /\ typed' = Append(typed, c) /\ UNCHANGED <<cooked, sent>> /\ Typing
      /\ typed \in Seq(Keys) /\ Start \in Handled /\ cooked \in BOOLEAN
  BY StartHandled DEF stdin_read_char, Running, options, Inv, Typing
<1> SUFFICES ASSUME ~cooked, exit' # "assert_full" PROVE sends = Only(keys, typed')
  <2>1. Only(keys, typed)' = Only(keys, typed') /\ Only(keys, Data(sent \o queue))' = sends
    BY DEF Only, Data, Bound
  <2> QED  BY <1>1, <2>1 DEF RawSendsUnbound, RawSends
<1>2. was = Only(keys, typed)
  BY <1>1 DEF OrderInv, RawSendsUnbound, RawSends
<1>3. x \in Seq(Ops)
  <2>1. sent \in Seq(Ops) /\ queue \in Seq(Ops)
    BY <1>1 DEF Typing
  <2> QED  BY <2>1, ConcatProperties
<1>4. "C-a" \notin keys /\ "C-b" \notin keys /\ "C-c" \notin keys /\ "C-d" \notin keys
      /\ "c" \notin keys /\ "0xFF" \notin keys
  BY DEF Bound
<1> HIDE DEF keys, x
<1>5. Only(keys, typed') = IF c \in keys THEN Append(was, c) ELSE was
  BY <1>1, <1>2, OnlyAppend
<1>6. ASSUME queue' = queue, c \notin keys PROVE sends = Only(keys, typed')
  BY <1>1, <1>5, <1>6 DEF x
<1>7. ASSUME NEW m \in Handled, Finish(m), NEW ops \in Seq(Ops),
             x \o m.ops = Append(ops, Op("PUTC", c)), Only(keys, Data(ops)) = was
      PROVE  sends = Only(keys, typed')
  <2>1. sent' \o queue' = Append(ops, Op("PUTC", c))
    BY <1>1, <1>7, EnqueuesAll DEF x
  <2>2. Only(keys, Data(Append(ops, Op("PUTC", c)))) = IF c \in keys THEN Append(was, c) ELSE was
    BY <1>7, OnlyPutc
  <2> QED  BY <1>5, <2>1, <2>2
<1>8. \A k : insert(Start, k).ops = <<Op("PUTC", k)>>
  BY DEF insert, sh_raw_insertchar, Start
<1>9. \A k \in Keys : insert(Start, k) \in Handled
  BY <1>1, Insert
<1>10. CASE c = "0xFF"
  <2>1. queue' = queue
    BY <1>10 DEF stdin_read_char, Leave
  <2> QED  BY <1>4, <1>6, <1>10, <2>1
<1>11. CASE c # "0xFF"
  <2> DEFINE seq0 == kb_state.seq0
  <2>1. read_char(c)
    BY <1>11 DEF stdin_read_char
  <2>2. CASE Finish(insert(Start, c))
    <3>1. x \o <<Op("PUTC", c)>> = Append(x, Op("PUTC", c))
      BY <1>3
    <3>2. insert(Start, c) \in Handled /\ insert(Start, c).ops = <<Op("PUTC", c)>>
      BY <1>8, <1>9
    <3> QED  BY <1>3, <1>7, <2>2, <3>1, <3>2
  <2>3. CASE "C-a" \in Keys /\ Finish(insert(insert(Start, "C-a"), c))
    <3> DEFINE m == insert(insert(Start, "C-a"), c)
               ops == Append(x, Op("PUTC", "C-a"))
    <3>1. insert(Start, "C-a") \in Handled /\ insert(Start, "C-a").ops = <<Op("PUTC", "C-a")>>
      BY <1>8, <1>9, <2>3
    <3>2. m \in Handled
      BY <1>1, <3>1, Insert
    <3>3. m.ops = <<Op("PUTC", "C-a"), Op("PUTC", c)>>
      <4> DEFINE m1 == insert(Start, "C-a")
      <4>1. m1 \in Handled /\ m1.ops = <<Op("PUTC", "C-a")>>
        BY <3>1
      <4> HIDE DEF m1
      <4>2. insert(m1, c).ops = Append(m1.ops, Op("PUTC", c))
        BY <4>1 DEF insert, sh_raw_insertchar, Handled
      <4> QED  BY <4>1, <4>2 DEF m1
    <3> HIDE DEF m
    <3>4. ops \in Seq(Ops) /\ Only(keys, Data(ops)) = was
      BY <1>3, <1>4, <2>3, OnlyPutc
    <3>5. x \o m.ops = Append(ops, Op("PUTC", c))
      BY <1>3, <3>3
    <3> HIDE DEF ops
    <3> QED  BY <1>7, <2>3, <3>2, <3>4, <3>5 DEF m
  <2>4. CASE queue' = queue /\ c \in {"C-a", "C-b", "C-c", "C-d", "c"}
    BY <1>4, <1>6, <2>4
  <2> QED  BY <1>1, <2>1, <2>2, <2>3, <2>4, ReadCharAs DEF ExitKeys
<1> QED  BY <1>10, <1>11

LEMMA KeyOrder ==
  ASSUME Inv, OrderInv, NEW c \in Keys, stdin_read_char(c)
  PROVE  OrderInv'
<1> DEFINE n == Len(typed)
           l == Leads(typed)[n]
           b == Edited(Passed(typed))
           x == sent \o queue
<1>1. Typing
  BY DEF Inv
<1>2. /\ exit = "no" /\ ~blocked /\ typed' = Append(typed, c)
      /\ UNCHANGED <<cooked, sticky, sigint, sent, writes>>
  BY DEF stdin_read_char, Running, options
<1>3. /\ typed' \in Seq(Keys) /\ n \in Nat /\ Len(typed') = n + 1 /\ typed'[Len(typed')] = c
      /\ NothingHidden' => NothingHidden
  BY <1>1, <1>2, Typed
<1>4. /\ b \in Handled
      /\ Leads(typed')[Len(typed')] <=> c = "C-a" /\ ~l
      /\ NothingStale' => Fresh
      /\ Fresh' => Fresh /\ ~(l /\ c = "c")
      /\ Leads(typed')[Len(typed') - 1] <=> l
      /\ Edited(Passed(typed))' =
           IF l THEN IF c = "c" THEN b ELSE insert(insert(b, "C-a"), c)
           ELSE IF c \in {"C-a", "C-b", "C-c", "C-d"} THEN b ELSE insert(b, c)
  BY <1>1, <1>2, ReferenceStep
<1>5. (NothingHidden /\ Fresh) => (kb_state.seq0 = "C-a" <=> l)
  BY <1>2 DEF OrderInv, Synced
<1>6. (NothingHidden /\ Fresh) => Follows(b, Start, x) /\ b.ops = x /\ b.rl = rl
  <2>1. (NothingHidden /\ Fresh) => NothingStale
    BY <1>3 DEF Fresh, NothingStale
  <2>2. (NothingHidden /\ Fresh) => b.ops = x /\ b.rl = rl
    BY <1>2, <2>1 DEF OrderInv, SentAsTyped
  <2>3. x \o <<>> = x
    <3>1. sent \in Seq(Ops) /\ queue \in Seq(Ops)
      BY <1>1 DEF Typing
    <3> QED  BY <3>1
  <2> QED  BY <2>2, <2>3 DEF Follows, Start
<1>7. Start \in Handled /\ x \in Seq(Ops) /\ cooked \in BOOLEAN
  BY <1>1, StartHandled DEF Typing
<1>8. kb_state.seq0 \in {None, "C-a"} /\ None # "C-a"
  BY <1>1 DEF Typing, None
<1> HIDE DEF n, l, b, x
<1>9. ASSUME NEW k \in Keys
      PROVE  /\ insert(Start, k) \in Handled /\ insert(b, k) \in Handled
             /\ (NothingHidden /\ Fresh) => Follows(insert(b, k), insert(Start, k), x)
  <2>1. insert(Start, k) \in Handled /\ insert(b, k) \in Handled
    BY <1>4, <1>7, Insert
  <2> QED  BY <1>4, <1>6, <1>7, <2>1, InsertFollows
<1>10. ASSUME NEW k \in Keys
       PROVE  LET d == insert(insert(b, k), c)
                  m == insert(insert(Start, k), c)
              IN  /\ d \in Handled /\ m \in Handled
                  /\ (NothingHidden /\ Fresh) => Follows(d, m, x)
  <2> DEFINE b1 == insert(b, k)
             m1 == insert(Start, k)
  <2>1. /\ b1 \in Handled /\ m1 \in Handled
        /\ (NothingHidden /\ Fresh) => Follows(b1, m1, x)
    BY <1>9
  <2> HIDE DEF b1, m1
  <2>2. insert(b1, c) \in Handled /\ insert(m1, c) \in Handled
    BY <1>7, <2>1, Insert
  <2>3. (NothingHidden /\ Fresh) => Follows(insert(b1, c), insert(m1, c), x)
    BY <1>7, <2>1, InsertFollows
  <2> QED  BY <2>2, <2>3 DEF b1, m1
<1>11. CASE c = "0xFF" /\ ~cooked
  <2>1. exit' = "stdin EOF" /\ UNCHANGED <<rl, blocked, queue, kb_state>>
    BY <1>11 DEF stdin_read_char, Leave
  <2>2. Synced'
    BY <2>1 DEF Synced
  <2>3. ASSUME NothingHidden', NothingStale'
        PROVE  IsPrefix(sent' \o queue', Edited(Passed(typed))'.ops)
    <3>1. NothingHidden /\ Fresh /\ sent' \o queue' = x
      BY <1>2, <1>3, <1>4, <2>1, <2>3 DEF x
    <3> DEFINE d == IF l THEN insert(insert(b, "C-a"), c) ELSE insert(b, c)
               m == IF l THEN insert(insert(Start, "C-a"), c) ELSE insert(Start, c)
    <3>2. l => "C-a" \in Keys
      BY <1>1, <1>5, <3>1 DEF Typing, SeqIsCached, None
    <3>3. m \in Handled /\ Follows(d, m, x)
      BY <1>9, <1>10, <3>1, <3>2
    <3>4. Edited(Passed(typed))' = d
      BY <1>4, <1>11
    <3> HIDE DEF d, m
    <3>5. d.ops = x \o m.ops /\ m.ops \in Seq(Ops)
      BY <3>3 DEF Follows, Handled
    <3> QED  BY <1>7, <3>1, <3>4, <3>5, PrefixOfCat
  <2>4. SentAsTyped'
    BY <2>1, <2>3 DEF SentAsTyped
  <2> QED  BY <2>2, <2>4, RawOrder DEF OrderInv
<1>12. CASE ~(c = "0xFF" /\ ~cooked)
  <2>1. read_char(c)
    BY <1>12 DEF stdin_read_char
  <2> DEFINE seq0 == kb_state.seq0
             Idle == UNCHANGED <<rl, blocked, queue, exit>>
             d == Edited(Passed(typed))'
             Ended == exit' \in {"no", "assert_full"}
             Whole == sent' \o queue' = d.ops
             Synch == Fresh' /\ NothingHidden' => (kb_state'.seq0 = "C-a" <=> c = "C-a" /\ ~l)
             Sends == (NothingHidden' /\ NothingStale') =>
                        /\ IF exit' \in {"no", "user key", "signal"} THEN Whole
                           ELSE IsPrefix(sent' \o queue', d.ops)
                        /\ exit' = "no" => rl' = d.rl
  <2>2. (NothingHidden' /\ NothingStale') => NothingHidden /\ Fresh
    BY <1>3, <1>4
  <2>3. Fresh' /\ NothingHidden' => NothingHidden /\ Fresh /\ ~(l /\ c = "c")
    BY <1>3, <1>4
  <2>4. ASSUME UNCHANGED <<rl, queue>>, exit' \in {"no", "user key"}, l => c = "c",
               ~l => c \in {"C-a", "C-b", "C-c", "C-d"}
        PROVE  Sends
    <3>1. d = b /\ sent' \o queue' = x
      BY <1>2, <1>4, <2>4 DEF x
    <3> HIDE DEF d
    <3> QED  BY <1>6, <2>2, <2>4, <3>1
  <2>5. ASSUME NEW m \in Handled, Finish(m),
               (NothingHidden' /\ NothingStale') => d \in Handled /\ Follows(d, m, x)
        PROVE  Sends /\ Ended
    <3> HIDE DEF d
    <3>1. Ended
      BY <1>1, <1>2, <2>5, EnqueuesAll
    <3>2. (NothingHidden' /\ NothingStale') =>
            /\ exit' = "no" => sent' \o queue' = d.ops /\ rl' = d.rl
            /\ IsPrefix(sent' \o queue', d.ops)
      BY <1>1, <1>2, <2>5, FinishedAs DEF x
    <3> QED  BY <3>1, <3>2
  <2>6. Sends /\ Synch
    <3>1. CASE /\ seq0 = None /\ kb_state'.seq0 = None /\ c \notin {"C-a", "C-b", "C-c", "C-d"}
               /\ Finish(insert(Start, c))
      <4>1. NothingHidden /\ Fresh => ~l
        BY <1>5, <1>8, <3>1
      <4>2. (NothingHidden' /\ NothingStale') => d = insert(b, c)
        BY <1>4, <2>2, <3>1, <4>1
      <4>3. insert(Start, c) \in Handled
            /\ ((NothingHidden' /\ NothingStale')
                  => d \in Handled /\ Follows(d, insert(Start, c), x))
        BY <1>9, <2>2, <4>2
      <4> HIDE DEF Sends, d
      <4>4. Sends /\ Ended
        BY <2>5, <3>1, <4>3
      <4> QED  BY <1>8, <3>1, <4>4
    <3>2. CASE /\ seq0 = "C-a" /\ kb_state'.seq0 = None /\ c # "c" /\ "C-a" \in Keys
               /\ Finish(insert(insert(Start, "C-a"), c))
      <4>1. NothingHidden /\ Fresh => l
        BY <1>5, <3>2
      <4>2. (NothingHidden' /\ NothingStale') => d = insert(insert(b, "C-a"), c)
        BY <1>4, <2>2, <3>2, <4>1
      <4> DEFINE m == insert(insert(Start, "C-a"), c)
      <4>3. /\ m \in Handled
            /\ (NothingHidden' /\ NothingStale') => d \in Handled /\ Follows(d, m, x)
        BY <1>10, <2>2, <3>2, <4>2
      <4> HIDE DEF Sends, d
      <4>4. Sends /\ Ended
        BY <2>5, <3>2, <4>3
      <4>5. Synch
        BY <1>8, <2>3, <3>2, <4>1
      <4> QED  BY <4>4, <4>5
    <3>3. CASE /\ seq0 = None /\ kb_state'.seq0 = None /\ c \in ExitKeys
               /\ exit' = "user key" /\ UNCHANGED <<rl, blocked, queue>>
      <4>1. NothingHidden /\ Fresh => ~l
        BY <1>5, <1>8, <3>3
      <4>2. Sends
        <5> HIDE DEF d
        <5> SUFFICES ASSUME NothingHidden', NothingStale' PROVE Sends
          OBVIOUS
        <5>1. ~l
          BY <2>2, <4>1
        <5> QED  BY <2>4, <3>3, <5>1 DEF ExitKeys
      <4> QED  BY <1>8, <3>3, <4>2 DEF ExitKeys
    <3>4. CASE /\ \/ seq0 = None /\ kb_state'.seq0 = None /\ c = "C-b"
                  \/ seq0 = None /\ kb_state'.seq0 = "C-a" /\ c = "C-a"
               /\ Idle
      <4>1. NothingHidden /\ Fresh => ~l
        BY <1>5, <1>8, <3>4
      <4>2. Sends
        <5> HIDE DEF d
        <5> SUFFICES ASSUME NothingHidden', NothingStale' PROVE Sends
          OBVIOUS
        <5>1. ~l
          BY <2>2, <4>1
        <5> QED  BY <1>2, <2>4, <3>4, <5>1
      <4>3. Synch
        BY <1>8, <2>3, <3>4, <4>1
      <4> QED  BY <1>2, <3>4, <4>2, <4>3
    <3>5. CASE seq0 = "C-a" /\ kb_state'.seq0 = "C-a" /\ c = "c" /\ Idle
      <4>1. NothingHidden /\ Fresh => l
        BY <1>5, <3>5
      <4>2. Sends
        <5> HIDE DEF d
        <5> SUFFICES ASSUME NothingHidden', NothingStale' PROVE Sends
          OBVIOUS
        <5>1. l
          BY <2>2, <4>1
        <5> QED  BY <1>2, <2>4, <3>5, <5>1
      <4>3. Synch
        BY <2>3, <3>5, <4>1
      <4> QED  BY <1>2, <3>5, <4>2, <4>3
    <3> HIDE DEF Sends, Synch
    <3> QED  BY <1>1, <2>1, <3>1, <3>2, <3>3, <3>4, <3>5, ReadCharAs
  <2>7. Synced'
    BY <1>4, <2>6 DEF Synced
  <2>8. SentAsTyped'
    BY <2>6 DEF SentAsTyped
  <2> QED  BY <2>7, <2>8, RawOrder DEF OrderInv
<1> QED  BY <1>11, <1>12

(* Without a key, raw mode has sent what it had. *)
LEMMA RawSame ==
  ASSUME RawSendsUnbound, UNCHANGED <<cooked, typed>>, sent' \o queue' = sent \o queue,
         exit' # "assert_full" => exit # "assert_full"
  PROVE  RawSendsUnbound'
<1> DEFINE keys == Keys \ (Bound \cup {"0xFF"})
           x == sent \o queue
<1>1. ~cooked /\ exit # "assert_full" => Only(keys, Data(x)) = Only(keys, typed)
  BY DEF RawSendsUnbound, RawSends
<1>2. RawSendsUnbound' <=> (~cooked' /\ exit' # "assert_full" =>
                              Only(keys, Data(sent' \o queue')) = Only(keys, typed'))
  <2>1. Only(keys, typed)' = Only(keys, typed') /\ Only(keys, Data(sent \o queue))'
                                                   = Only(keys, Data(sent' \o queue'))
    BY DEF Only, Data, Bound
  <2> QED  BY <2>1 DEF RawSendsUnbound, RawSends
<1>3. /\ Only(keys, Data(sent' \o queue')) = Only(keys, Data(x))
      /\ Only(keys, typed') = Only(keys, typed)
  OBVIOUS
<1> HIDE DEF x, keys
<1> QED  BY <1>1, <1>2, <1>3

(* No key is typed: the line and what is sent and queued together stay.    *)
LEMMA QuietOrder ==
  ASSUME Inv, OrderInv, exit = "no", UNCHANGED <<cooked, typed, kb_state, rl>>,
         sent' \o queue' = sent \o queue,
         exit' \in {"no", "signal", "stdin EOF", "stdin EBADF"}
  PROVE  OrderInv'
<1>1. Edited(Passed(typed))' = Edited(Passed(typed))
  BY EditedSame
<1>2. NothingHidden' = NothingHidden /\ NothingStale' = NothingStale /\ Fresh' = Fresh
  BY DEF NothingHidden, NothingStale, Fresh
<1>3. Synced'
  BY <1>2 DEF OrderInv, Synced
<1>4. SentAsTyped'
  <2> DEFINE x == sent \o queue
             b == Edited(Passed(typed))
  <2>1. NothingHidden /\ NothingStale => x = b.ops /\ rl = b.rl
    BY DEF OrderInv, SentAsTyped
  <2>2. x \in Seq(Ops)
    <3>1. sent \in Seq(Ops) /\ queue \in Seq(Ops)
      BY DEF Inv, Typing
    <3> QED  BY <3>1, ConcatProperties
  <2>3. sent' \o queue' = x /\ b' = b /\ rl' = rl
    BY <1>1
  <2> HIDE DEF x
  <2>4. NothingHidden' /\ NothingStale' =>
          sent' \o queue' = b'.ops /\ rl' = b'.rl /\ IsPrefix(sent' \o queue', b'.ops)
    <3> HIDE DEF b
    <3> QED  BY <1>2, <2>1, <2>2, <2>3, PrefixOfItself
  <2> QED  BY <2>4 DEF SentAsTyped
<1>5. RawSendsUnbound'
  BY RawSame DEF OrderInv
<1> QED  BY <1>3, <1>4, <1>5 DEF OrderInv

LEMMA OrderNext == Inv /\ OrderInv /\ [Next]_vars => OrderInv'
<1> SUFFICES ASSUME Inv, OrderInv, [Next]_vars PROVE OrderInv'
  OBVIOUS
<1>1. Typing /\ rl \in Lines /\ sent \in Seq(Ops) /\ queue \in Seq(Ops)
  BY DEF Inv, Typing
<1>2. CASE \E c \in Keys : stdin_read_char(c)
  BY <1>2, KeyOrder
<1>3. ASSUME NEW c \in Keys, rl_read_key(c) PROVE OrderInv'
  <2>1. exit = "no" /\ blocked /\ typed' = Append(typed, c) /\ Finish(rl_key(Start, c))
        /\ UNCHANGED <<cooked, sent>>
    BY <1>3 DEF rl_read_key, Running, options
  <2>2. cooked /\ typed # <<>> /\ typed[Len(typed)] = "NUL" /\ typed \in Seq(Keys)
    BY <2>1 DEF Inv, Typing, StallsOnlyOnNul
  <2>3. /\ Len(typed) \in Nat /\ Len(typed') = Len(typed) + 1
        /\ \A i \in 1..Len(typed) : typed'[i] = typed[i]
    BY <1>1, <2>1, Typed
  <2>4. Len(typed) \in 1..Len(typed) /\ Len(typed) \in 1..Len(typed')
    BY <2>2, <2>3, EmptySeq
  <2>5. ~NothingHidden'
    BY <2>1, <2>2, <2>3, <2>4 DEF NothingHidden
  <2>6. Synced' /\ SentAsTyped'
    BY <2>5 DEF Synced, SentAsTyped
  <2>7. RawSendsUnbound'
    BY <2>1, <2>2 DEF RawSendsUnbound, RawSends
  <2> QED  BY <2>6, <2>7 DEF OrderInv
<1>4. CASE stdin_ends \/ interrupt \/ on_signal
  <2>1. /\ exit = "no" /\ UNCHANGED <<cooked, typed, kb_state, rl, sent, queue>>
        /\ exit' \in {"no", "signal", "stdin EOF", "stdin EBADF"}
    <3>1. CASE stdin_ends
      BY <3>1 DEF stdin_ends, Leave, Running, options
    <3>2. CASE interrupt
      BY <3>2 DEF interrupt, Running, options
    <3>3. CASE on_signal
      BY <3>3 DEF on_signal, Leave, Running, options
    <3> QED  BY <1>4, <3>1, <3>2, <3>3
  <2> QED  BY <2>1, QuietOrder
<1>5. CASE port_takes
  <2>1. /\ queue' = Tail(queue) /\ sent' = Append(sent, Head(queue)) /\ queue # <<>>
        /\ exit = "no" /\ UNCHANGED <<cooked, typed, kb_state, rl, exit>>
    BY <1>5 DEF port_takes, Running, options
  <2>2. Append(sent, Head(queue)) \o Tail(queue) = sent \o queue
    <3> DEFINE h == Head(queue)
               q == Tail(queue)
    <3>1. h \in Ops /\ q \in Seq(Ops) /\ queue = <<h>> \o q
      BY <1>1, <2>1
    <3> HIDE DEF h, q
    <3>2. <<h>> \in Seq(Ops) /\ Append(sent, h) = sent \o <<h>>
      BY <1>1, <3>1
    <3>3. (sent \o <<h>>) \o q = sent \o (<<h>> \o q)
      BY <1>1, <3>1, <3>2, CatAssociative
    <3> QED  BY <3>1, <3>2, <3>3 DEF h, q
  <2> QED  BY <2>1, <2>2, QuietOrder
<1>6. CASE shell_write
  <2>1. /\ rl' = (IF cooked THEN sh_cooked_write(rl) ELSE rl)
        /\ exit = "no" /\ UNCHANGED <<cooked, typed, kb_state, sent, queue, exit>>
    BY <1>6 DEF shell_write, Running, options
  <2>2. sh_cooked_write(rl) = rl
    <3> DEFINE cleared == rl_replace_line(rl_replace_line(rl, <<>>), rl.line)
    <3>1. [cleared EXCEPT !.point = rl.point] = [line |-> rl.line, point |-> rl.point]
      BY DEF rl_replace_line
    <3>2. [line |-> rl.line, point |-> rl.point] = rl
      BY <1>1 DEF Lines
    <3> QED  BY <3>1, <3>2 DEF sh_cooked_write
  <2> QED  BY <2>1, <2>2, QuietOrder
<1>7. CASE UNCHANGED vars
  <2>1. UNCHANGED <<cooked, typed, kb_state, rl, sent, queue, exit, sigint>>
    BY <1>7 DEF vars, options
  <2>2. Edited(Passed(typed))' = Edited(Passed(typed))
    BY <2>1, EditedSame
  <2>3. NothingHidden' = NothingHidden /\ NothingStale' = NothingStale /\ Fresh' = Fresh
    BY <2>1 DEF NothingHidden, NothingStale, Fresh
  <2>4. Synced' /\ RawSendsUnbound'
    <3>1. sent' \o queue' = sent \o queue
      BY <2>1
    <3> QED  BY <2>1, <2>3, <3>1, RawSame DEF OrderInv, Synced
  <2>5. SentAsTyped'
    BY <2>1, <2>2, <2>3 DEF OrderInv, SentAsTyped
  <2> QED  BY <2>4, <2>5 DEF OrderInv
<1> QED  BY <1>2, <1>3, <1>4, <1>5, <1>6, <1>7 DEF Next

LEMMA OrderAlways == Spec => []OrderInv
BY OrderInit, OrderNext, InvAlways, PTL DEF Spec

(* What is sent, and the line being edited, are what the keys make, for    *)
(* every sequence of keys, writes over the line and turns of the port      *)
(* (_stdin_read_char(), sh_cooked_write()).                                *)
THEOREM SendsWhatIsTyped == Spec => []SentAsTyped
BY OrderAlways, PTL DEF OrderInv

(* In raw mode every key that is bound to nothing is sent, once and in     *)
(* order, whatever sequences were begun, broken off or completed before    *)
(* (_stdin_read_char(), keybind_eval()).                                   *)
THEOREM RawSendsPlainKeys == Spec => []RawSendsUnbound
BY OrderAlways, PTL DEF OrderInv
=============================================================================
