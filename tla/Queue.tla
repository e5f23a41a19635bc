------------------------------- MODULE Queue --------------------------------
(***************************************************************************)
(* The ring of block pointers (queue.c, queue.h).                          *)
(*                                                                         *)
(* Head and Tail are bytes that run modulo INDEX_MOD (256); a slot is      *)
(* chosen with their low bits.  The tests compute Head - Tail in int, so   *)
(* the difference is negative once Head has wrapped and Tail has not.      *)
(*                                                                         *)
(* There is no lock.  A call is a load of the indices with the test, one   *)
(* access to Data and one store of an index, and other threads run between *)
(* them.  The fields are not volatile: where the source names an index     *)
(* again the build may load it again or keep the register, and queue_get   *)
(* may store Tail before or after it reads the slot.  "reg" is that        *)
(* register, and the steps choose.                                         *)
(*                                                                         *)
(* Threads take a block from "free" before they insert it and give it back *)
(* after they took it out, as the users of the pool do.                    *)
(***************************************************************************)
EXTENDS Integers, FiniteSets

CONSTANTS
  QUEUE_SIZE,  \* slots of the ring
  INDEX_MOD,   \* number of values of an index: 256 for uint8_t
  Blocks,      \* the blocks that exist
  Producers,   \* threads that call queue_insert
  Consumers,   \* threads that call queue_get
  NULL         \* the null pointer

ASSUME QueueAssumption ==
  /\ QUEUE_SIZE \in Nat \ {0}
  /\ INDEX_MOD \in Nat /\ INDEX_MOD % QUEUE_SIZE = 0 /\ INDEX_MOD >= 2 * QUEUE_SIZE
  /\ IsFiniteSet(Blocks) /\ Cardinality(Blocks) <= QUEUE_SIZE
  /\ NULL \notin Blocks
  /\ Producers \cap Consumers = {}

VARIABLES
  head, tail,  \* the indices Head and Tail
  Data,        \* the slots, indexed from 0
  pc,          \* the access each thread makes next
  reg,         \* the index each thread last loaded
  hand,        \* the block each thread has in a local variable
  free,        \* the blocks nobody uses
  overlapped   \* history: two calls on the same end of the queue overlapped

vars == <<head, tail, Data, pc, reg, hand, free, overlapped>>

Threads == Producers \cup Consumers
Index == 0 .. INDEX_MOD - 1
Slots == 0 .. QUEUE_SIZE - 1

TypeOK ==
  /\ head \in Index /\ tail \in Index
  /\ Data \in [Slots -> Blocks \cup {NULL}]
  /\ pc \in [Threads -> {"idle", "put", "inc", "take", "read", "store", "done"}]
  /\ reg \in [Threads -> Index]
  /\ hand \in [Threads -> Blocks \cup {NULL}]
  /\ free \subseteq Blocks
  /\ overlapped \in BOOLEAN

\* queue_init; the slots are static storage.
Init ==
  /\ head = 0 /\ tail = 0
  /\ Data = [s \in Slots |-> NULL]
  /\ pc = [t \in Threads |-> "idle"]
  /\ reg = [t \in Threads |-> 0]
  /\ hand = [t \in Threads |-> NULL]
  /\ free = Blocks
  /\ overlapped = FALSE

-----------------------------------------------------------------------------
\* Another thread of the same side is inside its call.
Contended(t, side) == \E u \in side \ {t} : pc[u] \notin {"idle", "done"}

\* What the build finds when the source names an index again.
Reload(t, index) == {reg[t], index}

\* Mutant: one slot is kept empty to tell full from empty.
NotFullOneSpare == head - tail < QUEUE_SIZE - 1

NotFull == head - tail < QUEUE_SIZE

\* queue_insert: the test; a refused block is freed by the caller (SU_Send).
InsertTest(p, b) ==
  /\ pc[p] = "idle" /\ b \in free
  /\ NotFull
  /\ pc' = [pc EXCEPT ![p] = "put"]
  /\ reg' = [reg EXCEPT ![p] = head]
  /\ hand' = [hand EXCEPT ![p] = b]
  /\ free' = free \ {b}
  /\ overlapped' = (overlapped \/ Contended(p, Producers))
  /\ UNCHANGED <<head, tail, Data>>

\* Queue->Data[Queue->Head & (QUEUE_SIZE-1)] = Block
InsertPut(p) ==
  /\ pc[p] = "put"
  /\ \E h \in Reload(p, head) :
       /\ Data' = [Data EXCEPT ![h % QUEUE_SIZE] = hand[p]]
       /\ reg' = [reg EXCEPT ![p] = h]
  /\ pc' = [pc EXCEPT ![p] = "inc"]
  /\ UNCHANGED <<head, tail, hand, free, overlapped>>

\* Queue->Head++
InsertInc(p) ==
  /\ pc[p] = "inc"
  /\ \E h \in Reload(p, head) : head' = (h + 1) % INDEX_MOD
  /\ pc' = [pc EXCEPT ![p] = "idle"]
  /\ hand' = [hand EXCEPT ![p] = NULL]
  /\ UNCHANGED <<tail, Data, reg, free, overlapped>>

\* queue_get: the test; an empty queue returns NULL and changes nothing.
GetTest(c) ==
  /\ pc[c] = "idle"
  /\ head # tail
  /\ pc' = [pc EXCEPT ![c] = "take"]
  /\ reg' = [reg EXCEPT ![c] = tail]
  /\ overlapped' = (overlapped \/ Contended(c, Consumers))
  /\ UNCHANGED <<head, tail, Data, hand, free>>

\* Mutant: once Tail is stored, the slot is chosen with the new Tail.
GetReadNext(c) ==
  /\ pc[c] \in {"take", "read"}
  /\ hand' = [hand EXCEPT ![c] = Data[tail % QUEUE_SIZE]]
  /\ reg' = [reg EXCEPT ![c] = tail]
  /\ pc' = [pc EXCEPT ![c] = IF @ = "take" THEN "store" ELSE "done"]
  /\ UNCHANGED <<head, tail, Data, free, overlapped>>

\* Queue->Data[index], before ("take") or after ("read") the store of tail.
GetRead(c) ==
  /\ pc[c] \in {"take", "read"}
  /\ \E t \in (IF pc[c] = "take" THEN Reload(c, tail) ELSE {reg[c]}) :
       /\ hand' = [hand EXCEPT ![c] = Data[t % QUEUE_SIZE]]
       /\ reg' = [reg EXCEPT ![c] = t]
  /\ pc' = [pc EXCEPT ![c] = IF @ = "take" THEN "store" ELSE "done"]
  /\ UNCHANGED <<head, tail, Data, free, overlapped>>

\* (Queue->Tail++), after ("store") or before ("take") the read of the slot.
GetStore(c) ==
  /\ pc[c] \in {"take", "store"}
  /\ \E t \in (IF pc[c] = "take" THEN Reload(c, tail) ELSE {reg[c]}) :
       /\ tail' = (t + 1) % INDEX_MOD
       /\ reg' = [reg EXCEPT ![c] = t]
  /\ pc' = [pc EXCEPT ![c] = IF @ = "take" THEN "read" ELSE "done"]
  /\ UNCHANGED <<head, Data, hand, free, overlapped>>

\* The consumer is done with the block and frees it.
Release(c) ==
  /\ pc[c] = "done"
  /\ free' = free \cup ({hand[c]} \ {NULL})
  /\ hand' = [hand EXCEPT ![c] = NULL]
  /\ pc' = [pc EXCEPT ![c] = "idle"]
  /\ UNCHANGED <<head, tail, Data, reg, overlapped>>

Next ==
  \/ \E p \in Producers :
       (\E b \in Blocks : InsertTest(p, b)) \/ InsertPut(p) \/ InsertInc(p)
  \/ \E c \in Consumers : GetTest(c) \/ GetRead(c) \/ GetStore(c) \/ Release(c)

Spec == Init /\ [][Next]_vars
-----------------------------------------------------------------------------
(***************************************************************************)
(* Properties                                                              *)
(***************************************************************************)

\* The blocks between tail and head, oldest first.
Count == (head - tail) % INDEX_MOD
Contents == [k \in 1 .. Count |-> Data[(tail + k - 1) % QUEUE_SIZE]]
Queued == {Contents[k] : k \in 1 .. Count}

\* The block a consumer's call returns, from the store of tail onwards.
Taken(c) ==
  CASE pc[c] = "read" -> Data[reg[c] % QUEUE_SIZE]
    [] pc[c] = "done" -> hand[c]
    [] OTHER          -> NULL

\* queue_insert never refuses a caller that has a block: with no more blocks
\* than slots an insertion finds room, and after Head has wrapped the
\* negative difference of line 22 does no harm.
AlwaysRoom == ~overlapped /\ free # {} => NotFull

\* As long as no two calls overlapped on one end - always, with one thread at
\* each - the ring is a first-in first-out queue: it starts as one and every
\* step is a step of BlockFifo or changes neither the queue nor what was taken.
Fifo == INSTANCE BlockFifo WITH
          fifo <- Contents, got <- [c \in Consumers |-> Taken(c)]

IsFifo ==
  Fifo!Init /\ [][~overlapped' => Fifo!Next \/ UNCHANGED Fifo!vars]_vars

=============================================================================
