-------------------------------- MODULE Opq --------------------------------
(***************************************************************************)
(* The operation queue of opq.c: a ring of Size slots (64 in the program)  *)
(* addressed by a write and a read index.  Callers fill the slot at wridx, *)
(* the port executes the slot at rdidx and releases it when done.  A write *)
(* carries a pointer to a heap allocated line; the queue owns the line     *)
(* from enqueue to release, when the callback registered with              *)
(* opq_set_free_cb (shell_opq_free_cb) frees it.                           *)
(***************************************************************************)
EXTENDS Integers

CONSTANTS Size,     \* ARRAY_LEN(q->items)
          Word,     \* number of values of an unsigned int (the width of the indices)
          U16,      \* number of values of a uint16_t (the width of item.size)
          Codes,    \* op codes enqueued with opq_enqueue_val
          Vals,     \* values they carry
          Lens,     \* lengths of the lines callers enqueue
          Bufs      \* addresses malloc may return

OP_PORT_WRITE == "OP_PORT_WRITE"

ASSUME OpqAssumption ==
  /\ Size \in Nat /\ Size > 1
  /\ Word \in Nat /\ \E k \in 1..Word : Word = k * Size   \* Size divides Word
  /\ U16 \in Nat \ {0}
  /\ OP_PORT_WRITE \notin Codes /\ "0" \notin Codes
  /\ Lens \subseteq Nat

VARIABLES items,    \* the slots: op_code, size and the union u
          wridx, rdidx,
          live,     \* lines allocated by callers and owned by the queue
          aborted   \* an assert() has ended the program

vars == <<items, wridx, rdidx, live, aborted>>

Slots == 0..(Size - 1)

Writes == [op_code : {OP_PORT_WRITE}, size : 1..(U16 - 1), u : Bufs]
Values == [op_code : Codes, size : {0}, u : Vals]
Item == Writes \cup Values
Cleared == [op_code |-> "0", size |-> 0, u |-> 0]

(* Unsigned subtraction wraps at Word before the remainder is taken. *)
opq_len(w, r) == ((w - r) % Word) % Size

(* Regression: all slots usable, so that a full ring looks empty. *)
isfull_AllSlots(w, r) == opq_len(w, r) >= Size

opq_isfull(w, r) == opq_len(w, r) >= Size - 1
opq_isempty(w, r) == opq_len(w, r) = 0

(* The slots from rdidx up to but not including wridx. *)
Queued == {i \in Slots : opq_len(i, rdidx) < opq_len(wridx, rdidx)}

(* The line the write-done callback frees when an item is released. *)
Frees(itm) == IF itm.size # 0 /\ itm.op_code = OP_PORT_WRITE THEN {itm.u} ELSE {}

-----------------------------------------------------------------------------
Init ==
  /\ items = [i \in Slots |-> Cleared]
  /\ wridx = 0 /\ rdidx = 0
  /\ live = {}
  /\ aborted = FALSE

opq_enqueue_tail(itm) ==
  /\ items' = [items EXCEPT ![wridx] = itm]
  /\ wridx' = (wridx + 1) % Size

(* assert(itm) of the slot opq_acquire_tail() returned, NULL when full. *)
opq_enqueue_val(code, val) ==
  /\ ~aborted
  /\ IF opq_isfull(wridx, rdidx)
     THEN aborted' = TRUE /\ UNCHANGED <<items, wridx>>
     ELSE /\ opq_enqueue_tail([op_code |-> code, size |-> 0, u |-> val])
          /\ UNCHANGED aborted
  /\ UNCHANGED <<rdidx, live>>

(* Regression: no assert(size). *)
enqueue_write_EmptyLine(b, len) ==
  LET size == len % U16
  IN  /\ ~aborted
      /\ b \notin live
      /\ ~opq_isfull(wridx, rdidx)
      /\ opq_enqueue_tail([op_code |-> OP_PORT_WRITE, size |-> size, u |-> b])
      /\ live' = live \cup {b}
      /\ UNCHANGED <<rdidx, aborted>>

(* The length is narrowed to uint16_t by the call.  On success the line    *)
(* belongs to the queue; a failed assertion ends the program before that.  *)
opq_enqueue_write(b, len) ==
  LET size == len % U16
  IN  /\ ~aborted
      /\ b \notin live
      /\ IF opq_isfull(wridx, rdidx) \/ size = 0
         THEN aborted' = TRUE /\ UNCHANGED <<items, wridx, live>>
         ELSE /\ opq_enqueue_tail([op_code |-> OP_PORT_WRITE, size |-> size, u |-> b])
              /\ live' = live \cup {b}
              /\ UNCHANGED aborted
      /\ UNCHANGED rdidx

(* Regression: the slot is freed but rdidx is left on it. *)
release_head_Stuck ==
  /\ ~aborted /\ ~opq_isempty(wridx, rdidx)
  /\ live' = live \ Frees(items[rdidx])
  /\ items' = [items EXCEPT ![rdidx] = Cleared]
  /\ UNCHANGED <<wridx, rdidx, aborted>>

(* Regression: rdidx is not reduced modulo the ring size. *)
release_head_NoWrap ==
  /\ ~aborted /\ ~opq_isempty(wridx, rdidx)
  /\ live' = live \ Frees(items[rdidx])
  /\ items' = [items EXCEPT ![rdidx] = Cleared]
  /\ rdidx' = rdidx + 1
  /\ UNCHANGED <<wridx, aborted>>

opq_release_head ==
  /\ ~aborted
  /\ ~opq_isempty(wridx, rdidx)
  /\ live' = live \ Frees(items[rdidx])
  /\ items' = [items EXCEPT ![rdidx] = Cleared]
  /\ rdidx' = (rdidx + 1) % Size
  /\ UNCHANGED <<wridx, aborted>>

(* The loop over acquire_head / release_head until the ring is empty. *)
opq_release_all ==
  /\ ~aborted
  /\ live' = live \ UNION {Frees(items[i]) : i \in Queued}
  /\ items' = [i \in Slots |-> IF i \in Queued THEN Cleared ELSE items[i]]
  /\ rdidx' = wridx
  /\ UNCHANGED <<wridx, aborted>>

Next ==
  \/ \E code \in Codes, val \in Vals : opq_enqueue_val(code, val)
  \/ \E b \in Bufs, len \in Lens : opq_enqueue_write(b, len)
  \/ opq_release_head
  \/ opq_release_all

Spec == Init /\ [][Next]_vars

-----------------------------------------------------------------------------
(* Slots hold operations or are cleared, and the indices stay in the ring. *)
TypeOK ==
  /\ items \in [Slots -> Item \cup {Cleared}]
  /\ wridx \in Slots /\ rdidx \in Slots
  /\ live \subseteq Bufs
  /\ aborted \in BOOLEAN

(* Exactly the slots between the indices hold an operation: opq_release_head *)
(* clears what it leaves behind and an enqueue never lands on a queued slot. *)
OccupiedIffQueued == \A i \in Slots : i \in Queued <=> items[i] \in Item

(* Every line the queue owns is in exactly one queued write, so each one is *)
(* freed exactly once: none is leaked by the size test of opq_release_head,  *)
(* by index wrap-around or by opq_release_all, and none is freed twice.      *)
OwnedOnce ==
  /\ live = UNION {Frees(items[i]) : i \in Queued}
  /\ \A i, j \in Queued :
        i # j => Frees(items[i]) \cap Frees(items[j]) = {}

(* The operations in the order they were enqueued. *)
contents == [k \in 1..opq_len(wridx, rdidx) |-> items[(rdidx + k - 1) % Size]]

Fifo == INSTANCE OpFifo WITH Cap <- Size - 1, Items <- Item, Owns <- Frees,
                             queue <- contents

(* The ring implements a FIFO of Size - 1 operations: nothing is lost,      *)
(* duplicated, reordered or overwritten, and a full ring is never taken for *)
(* an empty one.                                                            *)
ImplementsFifo == Fifo!Spec
=============================================================================
