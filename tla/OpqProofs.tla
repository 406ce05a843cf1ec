----------------------------- MODULE OpqProofs -----------------------------
(***************************************************************************)
(* Proofs about the ring of opq.c, for every ring size, word size, set of  *)
(* operations and set of lines: the invariants MCOpq checks on four slots, *)
(* and the implementation of OpFifo.                                       *)
(***************************************************************************)
EXTENDS Opq, Sequences, SequenceTheorems, TLAPS

(* The three invariants together are inductive: the occupied slots are the  *)
(* ones between the indices, so an enqueue writes a cleared slot and a      *)
(* release frees a line that no other slot refers to.                       *)
Inv == TypeOK /\ OccupiedIffQueued /\ OwnedOnce

-----------------------------------------------------------------------------
(* The wrapping subtraction of opq_len gives the distance round the ring.   *)
LEMMA LenIsDistance ==
  ASSUME NEW w \in Slots, NEW r \in Slots
  PROVE  opq_len(w, r) = IF w >= r THEN w - r ELSE Size + w - r
<1>1. PICK k \in 1..Word : Word = k * Size
  BY OpqAssumption
<1>2. Size \in Nat /\ Size > 1 /\ Word \in Nat /\ Size <= Word
  BY <1>1, OpqAssumption
<1>3. CASE w >= r
  <2>1. w - r \in Slots
    BY <1>2, <1>3 DEF Slots
  <2>2. (w - r) % Word = w - r
    BY <1>2, <2>1 DEF Slots
  <2>3. QED
    BY <1>2, <1>3, <2>1, <2>2 DEF Slots, opq_len
<1>4. CASE w < r
  <2>1. (w - r) % Word = Word + w - r
    BY <1>2, <1>4 DEF Slots
  <2>2. Word + w - r = (k - 1) * Size + (Size + w - r)
    BY <1>1, <1>2 DEF Slots
  <2>3. Size + w - r \in 0..(Size - 1) /\ k - 1 \in Nat
    BY <1>1, <1>2, <1>4 DEF Slots
  <2>4. ((k - 1) * Size + (Size + w - r)) % Size = Size + w - r
    BY <1>2, <2>3
  <2>5. QED
    BY <1>2, <1>4, <2>1, <2>2, <2>4 DEF Slots, opq_len
<1>5. QED
  BY <1>2, <1>3, <1>4 DEF Slots

(* A ring of Size slots never holds more than Size - 1 operations.          *)
LEMMA LenRange ==
  ASSUME NEW w \in Slots, NEW r \in Slots
  PROVE  opq_len(w, r) \in 0..(Size - 1)
BY LenIsDistance, OpqAssumption DEF Slots

(* The index update of an enqueue and of a release.                         *)
LEMMA NextIndex ==
  ASSUME NEW i \in Slots
  PROVE  /\ (i + 1) % Size \in Slots
         /\ (i + 1) % Size = IF i + 1 = Size THEN 0 ELSE i + 1
BY OpqAssumption DEF Slots

(* The slots from r up to w, for any two indices: Queued is Region(wridx, rdidx). *)
Region(w, r) == {i \in Slots : opq_len(i, r) < opq_len(w, r)}

(* Advancing the write index of a ring that is not full adds the slot it    *)
(* pointed to, and no other, to the queued ones.                            *)
LEMMA RegionGrows ==
  ASSUME NEW w \in Slots, NEW r \in Slots, ~opq_isfull(w, r)
  PROVE  /\ w \notin Region(w, r)
         /\ opq_len((w + 1) % Size, r) = opq_len(w, r) + 1
         /\ Region((w + 1) % Size, r) = Region(w, r) \cup {w}
<1> DEFINE v == (w + 1) % Size
<1>1. v \in Slots /\ v = IF w + 1 = Size THEN 0 ELSE w + 1
  BY NextIndex
<1>2. opq_len(w, r) = IF w >= r THEN w - r ELSE Size + w - r
  BY LenIsDistance
<1>3. opq_len(v, r) = IF v >= r THEN v - r ELSE Size + v - r
  BY <1>1, LenIsDistance
<1>4. opq_len(w, r) < Size - 1
  BY <1>2, OpqAssumption DEF opq_isfull, Slots
<1>5. opq_len(v, r) = opq_len(w, r) + 1
  BY <1>1, <1>2, <1>3, <1>4, OpqAssumption DEF Slots
<1>6. \A i \in Slots : opq_len(i, r) = IF i >= r THEN i - r ELSE Size + i - r
  BY LenIsDistance
<1>7. \A i \in Slots : opq_len(i, r) < opq_len(w, r) + 1
                         <=> opq_len(i, r) < opq_len(w, r) \/ i = w
  BY <1>2, <1>6, OpqAssumption DEF Slots
<1>8. Region(v, r) = Region(w, r) \cup {w}
  BY <1>5, <1>7 DEF Region
<1>9. w \notin Region(w, r)
  BY <1>2, OpqAssumption DEF Region, Slots
<1>10. QED
  BY <1>5, <1>8, <1>9

(* Advancing the read index of a ring that is not empty removes the slot it *)
(* pointed to, and no other.                                                *)
LEMMA RegionShrinks ==
  ASSUME NEW w \in Slots, NEW r \in Slots, ~opq_isempty(w, r)
  PROVE  /\ r \in Region(w, r)
         /\ opq_len(w, (r + 1) % Size) = opq_len(w, r) - 1
         /\ Region(w, (r + 1) % Size) = Region(w, r) \ {r}
<1> DEFINE q == (r + 1) % Size
<1>1. q \in Slots /\ q = IF r + 1 = Size THEN 0 ELSE r + 1
  BY NextIndex
<1>2. \A i \in Slots : opq_len(i, r) = IF i >= r THEN i - r ELSE Size + i - r
  BY LenIsDistance
<1>3. \A i \in Slots : opq_len(i, q) = IF i >= q THEN i - q ELSE Size + i - q
  BY <1>1, LenIsDistance
<1>4. w # r
  BY <1>2 DEF opq_isempty, Slots
<1> HIDE DEF q
<1>5. ASSUME NEW i \in Slots
      PROVE  opq_len(i, q) = IF i = r THEN Size - 1 ELSE opq_len(i, r) - 1
  <2>1. CASE r + 1 = Size
    BY <1>1, <1>2, <1>3, <2>1, OpqAssumption DEF Slots
  <2>2. CASE r + 1 # Size
    BY <1>1, <1>2, <1>3, <2>2, OpqAssumption DEF Slots
  <2>3. QED
    BY <2>1, <2>2
<1>6. opq_len(w, q) = opq_len(w, r) - 1
  BY <1>4, <1>5
<1>7. \A i \in Slots : opq_len(i, q) < opq_len(w, q)
                         <=> opq_len(i, r) < opq_len(w, r) /\ i # r
  BY <1>2, <1>5, <1>6, OpqAssumption DEF Slots
<1>8. r \in Region(w, r)
  BY <1>2, <1>4, OpqAssumption DEF Region, Slots
<1>9. Region(w, q) = Region(w, r) \ {r}
  BY <1>7 DEF Region
<1>10. QED
  BY <1>6, <1>8, <1>9 DEF q

(* A ring whose indices meet is empty.                                      *)
LEMMA RegionEmpty ==
  ASSUME NEW w \in Slots
  PROVE  opq_len(w, w) = 0 /\ Region(w, w) = {}
<1>1. opq_len(w, w) = 0
  BY LenIsDistance DEF Slots
<1>2. \A i \in Slots : ~(opq_len(i, w) < 0)
  BY LenIsDistance, OpqAssumption DEF Slots
<1>3. QED
  BY <1>1, <1>2 DEF Region

-----------------------------------------------------------------------------
(* What a cleared slot, a value and a write free.                           *)
LEMMA WhatIsFreed ==
  /\ Cleared \notin Item /\ Frees(Cleared) = {}
  /\ \A itm \in Values : Frees(itm) = {}
  /\ \A itm \in Writes : Frees(itm) = {itm.u}
  /\ \A itm \in Item : Frees(itm) \subseteq Bufs
<1>1. Cleared \notin Item
  BY OpqAssumption DEF Cleared, Item, Writes, Values, OP_PORT_WRITE
<1>2. Frees(Cleared) = {}
  BY DEF Cleared, Frees
<1>3. \A itm \in Values : Frees(itm) = {}
  BY DEF Values, Frees
<1>4. \A itm \in Writes : Frees(itm) = {itm.u} /\ itm.u \in Bufs
  BY OpqAssumption DEF Writes, Frees
<1>5. QED
  BY <1>1, <1>2, <1>3, <1>4 DEF Item

(* Writing an operation into a ring that is not full and advancing wridx.   *)
LEMMA EnqueueStep ==
  ASSUME Inv, NEW itm \in Item, ~opq_isfull(wridx, rdidx),
         opq_enqueue_tail(itm), Frees(itm) \cap live = {},
         live' = live \cup Frees(itm), UNCHANGED <<rdidx, aborted>>
  PROVE  Inv'
<1>1. wridx \in Slots /\ rdidx \in Slots /\ items \in [Slots -> Item \cup {Cleared}]
  BY DEF Inv, TypeOK
<1>2. Queued = Region(wridx, rdidx) /\ Queued' = Region(wridx', rdidx')
  BY DEF Queued, Region
<1>3. wridx' \in Slots /\ wridx \notin Queued /\ Queued' = Queued \cup {wridx}
  BY <1>1, <1>2, NextIndex, RegionGrows DEF opq_enqueue_tail
<1>4. items' = [items EXCEPT ![wridx] = itm] /\ Queued \subseteq Slots
  BY DEF opq_enqueue_tail, Queued
<1>5. \A j \in Queued : items'[j] = items[j] /\ Frees(items'[j]) = Frees(items[j])
  BY <1>1, <1>3, <1>4
<1>6. items'[wridx] = itm /\ Frees(items'[wridx]) = Frees(itm)
  BY <1>1, <1>4
<1>7. TypeOK'
  <2>1. Frees(itm) \subseteq Bufs
    BY WhatIsFreed
  <2>2. QED
    BY <1>1, <1>3, <1>4, <2>1 DEF Inv, TypeOK
<1>8. OccupiedIffQueued'
  BY <1>1, <1>3, <1>4 DEF Inv, OccupiedIffQueued
<1>9. OwnedOnce'
  <2>1. live = UNION {Frees(items[j]) : j \in Queued}
    BY DEF Inv, OwnedOnce
  <2>2. live' = UNION {Frees(items'[j]) : j \in Queued'}
    BY <1>3, <1>5, <1>6, <2>1
  <2>3. \A j \in Queued : Frees(items[j]) \cap Frees(itm) = {}
    BY <2>1
  <2>4. \A j, k \in Queued' : j # k => Frees(items'[j]) \cap Frees(items'[k]) = {}
    <3>1. SUFFICES ASSUME NEW j \in Queued', NEW k \in Queued', j # k
                   PROVE  Frees(items'[j]) \cap Frees(items'[k]) = {}
      OBVIOUS
    <3>2. CASE j \in Queued /\ k \in Queued
      BY <1>5, <3>1, <3>2 DEF Inv, OwnedOnce
    <3>3. CASE j = wridx /\ k \in Queued
      BY <1>5, <1>6, <2>3, <3>3
    <3>4. CASE j \in Queued /\ k = wridx
      BY <1>5, <1>6, <2>3, <3>4
    <3>5. QED
      BY <1>3, <3>1, <3>2, <3>3, <3>4
  <2>5. QED
    BY <2>2, <2>4 DEF OwnedOnce
<1>10. QED
  BY <1>7, <1>8, <1>9 DEF Inv

(* Releasing the head frees its line, and no queued write refers to it.     *)
LEMMA ReleaseStep ==
  ASSUME Inv, opq_release_head
  PROVE  Inv'
<1>1. wridx \in Slots /\ rdidx \in Slots /\ items \in [Slots -> Item \cup {Cleared}]
  BY DEF Inv, TypeOK
<1>2. Queued = Region(wridx, rdidx) /\ Queued' = Region(wridx', rdidx')
  BY DEF Queued, Region
<1>3. rdidx' \in Slots /\ rdidx \in Queued /\ Queued' = Queued \ {rdidx}
  BY <1>1, <1>2, NextIndex, RegionShrinks DEF opq_release_head
<1>4. items' = [items EXCEPT ![rdidx] = Cleared] /\ Queued \subseteq Slots
  BY DEF opq_release_head, Queued
<1>5. \A j \in Queued' : items'[j] = items[j] /\ Frees(items'[j]) = Frees(items[j])
  BY <1>1, <1>3, <1>4
<1>6. TypeOK'
  BY <1>1, <1>3, <1>4 DEF Inv, TypeOK, opq_release_head
<1>7. OccupiedIffQueued'
  BY <1>1, <1>3, <1>4, WhatIsFreed DEF Inv, OccupiedIffQueued
<1>8. OwnedOnce'
  <2>1. /\ live = UNION {Frees(items[j]) : j \in Queued}
        /\ \A j, k \in Queued : j # k => Frees(items[j]) \cap Frees(items[k]) = {}
    BY DEF Inv, OwnedOnce
  <2>2. live' = live \ Frees(items[rdidx])
    BY DEF opq_release_head
  <2>3. \A j \in Queued' : Frees(items[j]) \cap Frees(items[rdidx]) = {}
    BY <1>3, <2>1
  <2>4. live' = UNION {Frees(items[j]) : j \in Queued'}
    BY <1>3, <2>1, <2>2, <2>3
  <2>5. QED
    BY <1>3, <1>5, <2>1, <2>4 DEF OwnedOnce
<1>9. QED
  BY <1>6, <1>7, <1>8 DEF Inv

(* The loop of opq_release_all leaves an empty ring that owns nothing.      *)
LEMMA ReleaseAllStep ==
  ASSUME Inv, opq_release_all
  PROVE  Inv' /\ live' = {}
<1>1. wridx \in Slots /\ items \in [Slots -> Item \cup {Cleared}]
  BY DEF Inv, TypeOK
<1>2. Queued' = {}
  BY <1>1, RegionEmpty DEF Queued, Region, opq_release_all
<1>3. live' = {}
  BY DEF Inv, OwnedOnce, opq_release_all
<1>4. TypeOK'
  BY <1>1, <1>3 DEF Inv, TypeOK, opq_release_all
<1>5. OccupiedIffQueued'
  BY <1>1, <1>2, WhatIsFreed DEF Inv, OccupiedIffQueued, opq_release_all
<1>6. OwnedOnce'
  BY <1>2, <1>3 DEF OwnedOnce
<1>7. QED
  BY <1>3, <1>4, <1>5, <1>6 DEF Inv

-----------------------------------------------------------------------------
(* The empty ring satisfies the invariant.                                 *)
LEMMA InitInv == Init => Inv
<1> SUFFICES ASSUME Init PROVE Inv
  OBVIOUS
<1>1. 0 \in Slots
  BY OpqAssumption DEF Slots
<1>2. Queued = {}
  BY <1>1, RegionEmpty DEF Init, Queued, Region
<1>3. TypeOK
  BY <1>1 DEF Init, TypeOK
<1>4. OccupiedIffQueued
  BY <1>2, WhatIsFreed DEF Init, OccupiedIffQueued
<1>5. OwnedOnce
  BY <1>2 DEF Init, OwnedOnce
<1>6. QED
  BY <1>3, <1>4, <1>5 DEF Inv

(* An enqueue either ends the program or is an EnqueueStep.                 *)
LEMMA EnqueueVal ==
  ASSUME Inv, NEW code \in Codes, NEW val \in Vals, opq_enqueue_val(code, val)
  PROVE  \/ aborted' = TRUE /\ ~aborted /\ UNCHANGED <<items, wridx, rdidx, live>>
         \/ \E itm \in Item : /\ ~aborted
                              /\ ~opq_isfull(wridx, rdidx) /\ opq_enqueue_tail(itm)
                              /\ Frees(itm) \cap live = {}
                              /\ live' = live \cup Frees(itm)
                              /\ UNCHANGED <<rdidx, aborted>>
<1> DEFINE itm == [op_code |-> code, size |-> 0, u |-> val]
<1>1. itm \in Values
  BY DEF Values
<1>2. Frees(itm) = {} /\ itm \in Item
  BY <1>1, WhatIsFreed DEF Item
<1>3. QED
  BY <1>2 DEF opq_enqueue_val

(* opq_enqueue_write() hands one line over, or fails an assertion.         *)
LEMMA EnqueueWrite ==
  ASSUME Inv, NEW b \in Bufs, NEW len \in Lens, opq_enqueue_write(b, len)
  PROVE  \/ aborted' = TRUE /\ ~aborted /\ UNCHANGED <<items, wridx, rdidx, live>>
         \/ \E itm \in Item : /\ ~aborted
                              /\ ~opq_isfull(wridx, rdidx) /\ opq_enqueue_tail(itm)
                              /\ Frees(itm) \cap live = {}
                              /\ live' = live \cup Frees(itm)
                              /\ UNCHANGED <<rdidx, aborted>>
<1> DEFINE itm == [op_code |-> OP_PORT_WRITE, size |-> len % U16, u |-> b]
<1>1. CASE opq_isfull(wridx, rdidx) \/ len % U16 = 0
  BY <1>1 DEF opq_enqueue_write
<1>2. CASE ~(opq_isfull(wridx, rdidx) \/ len % U16 = 0)
  <2>1. len % U16 \in 1..(U16 - 1)
    BY <1>2, OpqAssumption
  <2>2. itm \in Writes
    BY <2>1 DEF Writes
  <2>3. Frees(itm) = {b} /\ itm \in Item
    BY <2>2, WhatIsFreed DEF Item
  <2>4. QED
    BY <1>2, <2>3 DEF opq_enqueue_write
<1>3. QED
  BY <1>1, <1>2

(* Every operation of the queue preserves the invariant.                   *)
LEMMA NextInv == Inv /\ [Next]_vars => Inv'
<1> SUFFICES ASSUME Inv, [Next]_vars PROVE Inv'
  OBVIOUS
<1>1. ASSUME aborted' \in BOOLEAN, UNCHANGED <<items, wridx, rdidx, live>>
      PROVE  Inv'
  BY <1>1 DEF Inv, TypeOK, OccupiedIffQueued, OwnedOnce, Queued
<1>2. CASE \E code \in Codes, val \in Vals : opq_enqueue_val(code, val)
  BY <1>1, <1>2, EnqueueVal, EnqueueStep
<1>3. CASE \E b \in Bufs, len \in Lens : opq_enqueue_write(b, len)
  BY <1>1, <1>3, EnqueueWrite, EnqueueStep
<1>4. CASE opq_release_head
  BY <1>4, ReleaseStep
<1>5. CASE opq_release_all
  BY <1>5, ReleaseAllStep
<1>6. CASE UNCHANGED vars
  BY <1>1, <1>6 DEF vars, Inv, TypeOK
<1>7. QED
  BY <1>2, <1>3, <1>4, <1>5, <1>6 DEF Next

(* The invariant holds for every ring size, not only the one TLC runs.      *)
THEOREM OpqInvariant == Spec => []Inv
BY InitInv, NextInv, PTL DEF Spec

(* Slots and indices keep their types: no index leaves the ring             *)
(* (opq_acquire_tail(), opq_release_head()).                                *)
THEOREM OpqTypeOK == Spec => []TypeOK
<1>1. Inv => TypeOK
  BY DEF Inv
<1>2. QED
  BY <1>1, OpqInvariant, PTL

(* A full ring is never taken for an empty one: exactly the slots between   *)
(* the indices hold operations, however the unsigned subtraction of         *)
(* opq_len() wraps.                                                         *)
THEOREM OccupiedAreQueued == Spec => []OccupiedIffQueued
<1>1. Inv => OccupiedIffQueued
  BY DEF Inv
<1>2. QED
  BY <1>1, OpqInvariant, PTL

(* Each line handed to the queue is freed exactly once (opq_release_head's  *)
(* callback), whatever the interleaving of enqueues and releases.           *)
THEOREM LinesOwnedOnce == Spec => []OwnedOnce
<1>1. Inv => OwnedOnce
  BY DEF Inv
<1>2. QED
  BY <1>1, OpqInvariant, PTL

-----------------------------------------------------------------------------
(* The ring implements the FIFO.                                            *)

(* The k-th operation of the queue is in the k-th slot from rdidx on.       *)
LEMMA ContentsSlot ==
  ASSUME NEW w \in Slots, NEW r \in Slots, NEW k \in 1..opq_len(w, r)
  PROVE  /\ (r + k - 1) % Size \in Region(w, r)
         /\ opq_len((r + k - 1) % Size, r) = k - 1
<1> DEFINE i == (r + k - 1) % Size
<1>1. opq_len(w, r) \in 0..(Size - 1) /\ r \in 0..(Size - 1)
  BY LenIsDistance, OpqAssumption DEF Slots
<1>2. k \in 1..(Size - 1)
  BY <1>1, OpqAssumption
<1>3. i \in Slots /\ i = IF r + k - 1 < Size THEN r + k - 1 ELSE r + k - 1 - Size
  BY <1>1, <1>2, OpqAssumption DEF Slots
<1>4. opq_len(i, r) = IF i >= r THEN i - r ELSE Size + i - r
  BY <1>3, LenIsDistance
<1> HIDE DEF i
<1>5. opq_len(i, r) = k - 1
  BY <1>1, <1>2, <1>3, <1>4, OpqAssumption
<1>6. i \in Region(w, r)
  BY <1>1, <1>3, <1>5 DEF Region
<1>7. QED
  BY <1>5, <1>6 DEF i

(* The queued operations form a sequence of operations.                    *)
LEMMA ContentsType ==
  ASSUME Inv
  PROVE  /\ contents \in Seq(Item)
         /\ Len(contents) = opq_len(wridx, rdidx)
         /\ opq_len(wridx, rdidx) \in 0..(Size - 1)
<1>1. opq_len(wridx, rdidx) \in 0..(Size - 1)
  BY LenRange DEF Inv, TypeOK
<1>2. \A k \in 1..opq_len(wridx, rdidx) : items[(rdidx + k - 1) % Size] \in Item
  BY ContentsSlot DEF Inv, TypeOK, OccupiedIffQueued, Queued, Region
<1>3. QED
  BY <1>1, <1>2, OpqAssumption DEF contents

(* The same of the next state.                                              *)
LEMMA ContentsTypeNext ==
  ASSUME Inv'
  PROVE  /\ contents' \in Seq(Item)
         /\ Len(contents') = opq_len(wridx', rdidx')
<1>0. wridx' \in Slots /\ rdidx' \in Slots
  BY DEF Inv, TypeOK
<1>1. opq_len(wridx', rdidx') \in 0..(Size - 1)
  BY <1>0, LenRange
<1>2. \A k \in 1..opq_len(wridx', rdidx') : items'[(rdidx' + k - 1) % Size] \in Item
  BY ContentsSlot DEF Inv, TypeOK, OccupiedIffQueued, Queued, Region
<1>3. QED
  BY <1>1, <1>2, OpqAssumption DEF contents

(* An enqueue appends at the abstract tail.                                 *)
LEMMA EnqueueAppends ==
  ASSUME Inv, NEW itm \in Item, ~opq_isfull(wridx, rdidx),
         opq_enqueue_tail(itm), Frees(itm) \cap live = {},
         live' = live \cup Frees(itm), UNCHANGED <<rdidx, aborted>>
  PROVE  contents' = Append(contents, itm)
<1> DEFINE n == opq_len(wridx, rdidx)
<1>1. wridx \in Slots /\ rdidx \in Slots /\ items \in [Slots -> Item \cup {Cleared}]
  BY DEF Inv, TypeOK
<1>2. /\ wridx \notin Region(wridx, rdidx)
      /\ opq_len(wridx', rdidx') = n + 1
      /\ wridx' \in Slots
  BY <1>1, RegionGrows, NextIndex DEF opq_enqueue_tail
<1>3. items' = [items EXCEPT ![wridx] = itm]
  BY DEF opq_enqueue_tail
<1>4. n \in Nat
  BY ContentsType
<1>5. ASSUME NEW k \in 1..n
      PROVE  items'[(rdidx' + k - 1) % Size] = contents[k]
  <2>1. (rdidx + k - 1) % Size \in Region(wridx, rdidx)
    BY <1>1, ContentsSlot
  <2>2. (rdidx + k - 1) % Size # wridx
    BY <1>2, <2>1
  <2>3. QED
    BY <1>1, <1>3, <2>1, <2>2 DEF contents
<1>6. (rdidx' + (n + 1) - 1) % Size = wridx
  <2>1. n = IF wridx >= rdidx THEN wridx - rdidx ELSE Size + wridx - rdidx
    BY <1>1, LenIsDistance
  <2>2. rdidx + (n + 1) - 1 = IF wridx >= rdidx THEN wridx ELSE Size + wridx
    BY <1>1, <1>4, <2>1, OpqAssumption DEF Slots
  <2> HIDE DEF n
  <2>3. wridx % Size = wridx /\ (Size + wridx) % Size = wridx
    BY <1>1, OpqAssumption DEF Slots
  <2>4. QED
    BY <2>2, <2>3
<1>7. items'[wridx] = itm
  BY <1>1, <1>3
<1>8. contents' \in Seq(Item) /\ Len(contents') = n + 1
  <2>1. Inv'
    BY EnqueueStep
  <2>2. QED
    BY <1>2, <2>1, ContentsTypeNext
<1>9. \A k \in 1..(n + 1) : contents'[k] = IF k = n + 1 THEN itm ELSE contents[k]
  BY <1>2, <1>4, <1>5, <1>6, <1>7 DEF contents
<1>10. /\ Append(contents, itm) \in Seq(Item) /\ Len(Append(contents, itm)) = n + 1
       /\ \A k \in 1..(n + 1) : Append(contents, itm)[k]
                                  = IF k = n + 1 THEN itm ELSE contents[k]
  BY <1>4, ContentsType
<1>11. QED
  BY <1>8, <1>9, <1>10, SeqEqual

(* A release takes the abstract head away.                                  *)
LEMMA ReleaseTakesHead ==
  ASSUME Inv, opq_release_head
  PROVE  /\ contents # <<>>
         /\ Head(contents) = items[rdidx]
         /\ contents' = Tail(contents)
<1> DEFINE n == opq_len(wridx, rdidx)
<1>1. wridx \in Slots /\ rdidx \in Slots /\ items \in [Slots -> Item \cup {Cleared}]
  BY DEF Inv, TypeOK
<1>2. /\ opq_len(wridx', rdidx') = n - 1
      /\ rdidx' = (rdidx + 1) % Size /\ rdidx' \in Slots
      /\ items' = [items EXCEPT ![rdidx] = Cleared]
  BY <1>1, RegionShrinks, NextIndex DEF opq_release_head
<1>3. n \in 1..(Size - 1) /\ Len(contents) = n /\ contents \in Seq(Item)
  BY ContentsType DEF opq_release_head, opq_isempty
<1>4. Head(contents) = items[rdidx]
  <2>1. (rdidx + 1 - 1) % Size = rdidx
    BY <1>1, OpqAssumption DEF Slots
  <2>2. contents[1] = items[(rdidx + 1 - 1) % Size]
    BY <1>3 DEF contents
  <2>3. QED
    BY <1>3, <2>1, <2>2
<1>5. ASSUME NEW k \in 1..(n - 1)
      PROVE  items'[(rdidx' + k - 1) % Size] = contents[k + 1]
  <2>1. k + 1 \in 1..n /\ k \in Nat
    BY <1>3
  <2>2. opq_len((rdidx + (k + 1) - 1) % Size, rdidx) = (k + 1) - 1
    BY <1>1, <2>1, ContentsSlot
  <2>3. opq_len(rdidx, rdidx) = 0
    BY <1>1, RegionEmpty
  <2>4. (rdidx + (k + 1) - 1) % Size \in Slots /\ (rdidx + (k + 1) - 1) % Size # rdidx
    BY <1>1, <1>3, <2>1, <2>2, <2>3, ContentsSlot DEF Region
  <2>5. (rdidx' + k - 1) % Size = (rdidx + (k + 1) - 1) % Size
    <3>1. rdidx' = IF rdidx + 1 = Size THEN 0 ELSE rdidx + 1
      BY <1>1, <1>2, NextIndex
    <3>2. CASE rdidx + 1 = Size
      <4>1. rdidx' + k - 1 = k - 1 /\ rdidx + (k + 1) - 1 = Size + (k - 1)
        BY <1>1, <2>1, <3>1, <3>2, OpqAssumption DEF Slots
      <4>2. k - 1 \in 0..(Size - 1)
        BY <1>3, <2>1, OpqAssumption
      <4>3. (k - 1) % Size = k - 1 /\ (Size + (k - 1)) % Size = k - 1
        BY <4>2, OpqAssumption
      <4>4. QED
        BY <4>1, <4>3
    <3>3. CASE rdidx + 1 # Size
      <4>1. rdidx' + k - 1 = rdidx + (k + 1) - 1
        BY <1>1, <2>1, <3>1, <3>3, OpqAssumption DEF Slots
      <4>2. QED
        BY <4>1
    <3>4. QED
      BY <3>2, <3>3
  <2>6. QED
    BY <1>1, <1>2, <2>1, <2>4, <2>5 DEF contents
<1>6. contents' \in Seq(Item) /\ Len(contents') = n - 1
  BY <1>2, ReleaseStep, ContentsTypeNext
<1>7. \A k \in 1..(n - 1) : contents'[k] = contents[k + 1]
  BY <1>2, <1>5 DEF contents
<1>8. contents # <<>>
  BY <1>3
<1>9. /\ Tail(contents) \in Seq(Item) /\ Len(Tail(contents)) = n - 1
      /\ \A k \in 1..(n - 1) : Tail(contents)[k] = contents[k + 1]
  BY <1>3, <1>8, HeadTailProperties
<1>10. contents' = Tail(contents)
  BY <1>6, <1>7, <1>9, SeqEqual
<1>11. QED
  BY <1>4, <1>8, <1>10

(* Releasing everything leaves the empty queue.                             *)
LEMMA ReleaseAllEmpties ==
  ASSUME Inv, opq_release_all
  PROVE  contents' = <<>>
<1>1. opq_len(wridx', rdidx') = 0
  BY RegionEmpty DEF Inv, TypeOK, opq_release_all
<1>2. Inv'
  BY ReleaseAllStep
<1>3. contents' \in Seq(Item) /\ Len(contents') = 0
  BY <1>1, <1>2, ContentsTypeNext
<1>4. QED
  BY <1>3

(* The empty ring is the empty FIFO.                                       *)
LEMMA InitImplements == Init => Fifo!Init
<1> SUFFICES ASSUME Init PROVE Fifo!Init
  OBVIOUS
<1>1. opq_len(wridx, rdidx) = 0
  BY RegionEmpty, OpqAssumption DEF Init, Slots
<1>2. contents \in Seq(Item) /\ Len(contents) = 0
  BY <1>1, InitInv, ContentsType
<1>3. contents = <<>>
  BY <1>2
<1>4. QED
  BY <1>3 DEF Init, Fifo!Init

(* Every step of the ring is a step of the FIFO or leaves it unchanged.     *)
LEMMA NextImplements == Inv /\ [Next]_vars => [Fifo!Next]_(Fifo!vars)
<1> SUFFICES ASSUME Inv, [Next]_vars PROVE [Fifo!Next]_(Fifo!vars)
  OBVIOUS
<1>1. ASSUME UNCHANGED <<items, wridx, rdidx, live>>
      PROVE  UNCHANGED <<contents, live>>
  BY <1>1 DEF contents
<1>2. ASSUME aborted' = TRUE, ~aborted, UNCHANGED <<items, wridx, rdidx, live>>
      PROVE  Fifo!Abort
  BY <1>1, <1>2 DEF Fifo!Abort
<1>3. ASSUME NEW itm \in Item, ~aborted, ~opq_isfull(wridx, rdidx),
             opq_enqueue_tail(itm), Frees(itm) \cap live = {},
             live' = live \cup Frees(itm), UNCHANGED <<rdidx, aborted>>
      PROVE  Fifo!Accept(itm)
  <2>1. Len(contents) < Size - 1
    BY <1>3, ContentsType, OpqAssumption DEF opq_isfull
  <2>2. contents' = Append(contents, itm)
    BY <1>3, EnqueueAppends
  <2>3. QED
    BY <1>3, <2>1, <2>2 DEF Fifo!Accept
<1>4. CASE \E code \in Codes, val \in Vals : opq_enqueue_val(code, val)
  BY <1>2, <1>3, <1>4, EnqueueVal DEF Fifo!Next
<1>5. CASE \E b \in Bufs, len \in Lens : opq_enqueue_write(b, len)
  BY <1>2, <1>3, <1>5, EnqueueWrite DEF Fifo!Next
<1>6. CASE opq_release_head
  <2>1. ~aborted /\ UNCHANGED aborted /\ live' = live \ Frees(items[rdidx])
    BY <1>6 DEF opq_release_head
  <2>2. QED
    BY <1>6, <2>1, ReleaseTakesHead DEF Fifo!Next, Fifo!Release
<1>7. CASE opq_release_all
  <2>1. ~aborted /\ UNCHANGED aborted
    BY <1>7 DEF opq_release_all
  <2>2. QED
    BY <1>7, <2>1, ReleaseAllEmpties, ReleaseAllStep DEF Fifo!Next, Fifo!ReleaseAll
<1>8. CASE UNCHANGED vars
  BY <1>1, <1>8 DEF vars, Fifo!vars
<1>9. QED
  BY <1>4, <1>5, <1>6, <1>7, <1>8 DEF Next

(* The ring buffer of opq.c is a FIFO of Size - 1 operations.               *)
THEOREM OpqImplementsFifo == Spec => ImplementsFifo
<1>1. Spec => Fifo!Init /\ [][Fifo!Next]_(Fifo!vars)
  BY InitImplements, NextImplements, OpqInvariant, PTL DEF Spec
<1>2. QED
  BY <1>1 DEF ImplementsFifo, Fifo!Spec
=============================================================================
