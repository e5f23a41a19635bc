------------------------------ MODULE Ownership -----------------------------
(***************************************************************************)
(* Whose block is whose: what the pool of memory blocks promises to the    *)
(* callers of MB_Get and MB_Free (memblock.c).  MemBlock has the steps.    *)
(*                                                                         *)
(* A block's owner is whoever keeps the pointer.  "holds" maps every place *)
(* a pointer is kept in - the local variable of each task and the shared   *)
(* cells (SlipRxBlock, SlipTxBlock, a queue's slot, socket->block) - to    *)
(* the block.  Callers hand a pointer over rather than copy it; the        *)
(* modules of the callers say where the code does that.                    *)
(***************************************************************************)
EXTENDS Integers

CONSTANTS
  MEMBLOCK_NUMBER,  \* blocks in the pool
  Tasks,            \* preemptible callers, each with one local pointer
  Cells             \* shared places a pointer is kept in

VARIABLES
  State,  \* State of each block: "mbFree" or "mbBusy"
  holds,  \* the block each place points to, or NULL
  raced   \* history: a block was marked while a task stood between the
          \* test of that block and its own mark

PoolBlocks == 0 .. MEMBLOCK_NUMBER - 1
Keepers == Tasks \cup Cells

\* A busy block is always in somebody's hands: whatever the interleaving of
\* MB_Get and MB_Free, the pool itself never loses a block.
NoLeak == \A b \in PoolBlocks : State[b] = "mbBusy" => \E p \in Keepers : holds[p] = b

\* Unless a caller was overtaken between MB_Get's test and its mark, no two
\* places ever point to the same block.
SingleOwner ==
  ~raced => \A p, q \in Keepers : p # q /\ holds[p] \in PoolBlocks => holds[p] # holds[q]

\* Unless a caller was overtaken in that window, a block somebody holds is
\* marked busy: no MB_Get can return it and no MB_Free of it is refused.
HeldIsBusy ==
  ~raced => \A p \in Keepers : holds[p] \in PoolBlocks => State[holds[p]] = "mbBusy"
=============================================================================
