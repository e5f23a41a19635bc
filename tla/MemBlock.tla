------------------------------ MODULE MemBlock ------------------------------
(***************************************************************************)
(* The pool of memory blocks (memblock.c, memblock.h).                     *)
(*                                                                         *)
(* MB_Get and MB_Free use no lock and are called by the tasks and by the   *)
(* UART interrupt handler.  A task can be preempted between any two        *)
(* accesses to a block's State, so each call of a task is one step per     *)
(* access; the handler runs to its end before any task resumes, so its     *)
(* calls are one step.                                                     *)
(*                                                                         *)
(* The blocks, the places pointers to them are kept in, and what the pool  *)
(* promises are in Ownership.                                              *)
(***************************************************************************)
EXTENDS Ownership

CONSTANTS
  NULL              \* the null pointer

ASSUME PoolAssumption ==
  /\ MEMBLOCK_NUMBER \in Nat \ {0}
  /\ Tasks \cap Cells = {}
  /\ NULL \notin 0 .. MEMBLOCK_NUMBER - 1

VARIABLES
  pc,     \* where each task is: "idle", or the access it makes next
  i       \* the loop index of each task's MB_Get

vars == <<State, holds, pc, i, raced>>

Blocks == PoolBlocks
Places == Keepers

TypeOK ==
  /\ State \in [Blocks -> {"mbFree", "mbBusy"}]
  /\ holds \in [Places -> Blocks \cup {NULL}]
  /\ pc \in [Tasks -> {"idle", "test", "mark", "freeTest", "freeClear"}]
  /\ i \in [Tasks -> 0 .. MEMBLOCK_NUMBER]
  /\ raced \in BOOLEAN
  /\ \A t \in Tasks : pc[t] = "mark" => i[t] \in Blocks
  /\ \A t \in Tasks : pc[t] \in {"test", "mark"} => holds[t] = NULL
  /\ \A t \in Tasks : pc[t] \in {"freeTest", "freeClear"} => holds[t] # NULL

\* MB_Init, and the callers with no pointer yet.
Init ==
  /\ State = [b \in Blocks |-> "mbFree"]
  /\ holds = [p \in Places |-> NULL]
  /\ pc = [t \in Tasks |-> "idle"]
  /\ i = [t \in Tasks |-> 0]
  /\ raced = FALSE

-----------------------------------------------------------------------------
\* Some task other than t found b free and has yet to mark it.
InWindow(b, t) == \E u \in Tasks \ {t} : pc[u] = "mark" /\ i[u] = b

\* A task calls MB_Get; it has no block in hand.
GetCall(t) ==
  /\ pc[t] = "idle" /\ holds[t] = NULL
  /\ pc' = [pc EXCEPT ![t] = "test"]
  /\ i' = [i EXCEPT ![t] = 0]
  /\ UNCHANGED <<State, holds, raced>>

\* The loop condition and the test of MemBlock[i].State.
GetTest(t) ==
  /\ pc[t] = "test"
  /\ UNCHANGED <<State, holds, raced>>
  /\ \/ /\ i[t] = MEMBLOCK_NUMBER              \* return NULL
        /\ pc' = [pc EXCEPT ![t] = "idle"]
        /\ UNCHANGED i
     \/ /\ i[t] \in Blocks /\ State[i[t]] = "mbFree"
        /\ pc' = [pc EXCEPT ![t] = "mark"]
        /\ UNCHANGED i
     \/ /\ i[t] \in Blocks /\ State[i[t]] = "mbBusy"
        /\ i' = [i EXCEPT ![t] = @ + 1]
        /\ UNCHANGED pc

\* Mutant: the block is returned without being marked.
GetMarkUnmarked(t) ==
  /\ pc[t] = "mark"
  /\ holds' = [holds EXCEPT ![t] = i[t]]
  /\ pc' = [pc EXCEPT ![t] = "idle"]
  /\ raced' = (raced \/ InWindow(i[t], t))
  /\ UNCHANGED <<State, i>>

\* MemBlock[i].State = mbBusy, and the block is returned.
GetMark(t) ==
  /\ pc[t] = "mark"
  /\ State' = [State EXCEPT ![i[t]] = "mbBusy"]
  /\ holds' = [holds EXCEPT ![t] = i[t]]
  /\ pc' = [pc EXCEPT ![t] = "idle"]
  /\ raced' = (raced \/ InWindow(i[t], t))
  /\ UNCHANGED i

\* A task calls MB_Free on the block it has in hand.
FreeCall(t) ==
  /\ pc[t] = "idle" /\ holds[t] # NULL
  /\ pc' = [pc EXCEPT ![t] = "freeTest"]
  /\ UNCHANGED <<State, holds, i, raced>>

\* The test in MB_Free: a block that is not busy is refused and dropped.
FreeTest(t) ==
  /\ pc[t] = "freeTest"
  /\ UNCHANGED <<State, i, raced>>
  /\ \/ /\ State[holds[t]] = "mbBusy"
        /\ pc' = [pc EXCEPT ![t] = "freeClear"]
        /\ UNCHANGED holds
     \/ /\ State[holds[t]] # "mbBusy"
        /\ pc' = [pc EXCEPT ![t] = "idle"]
        /\ holds' = [holds EXCEPT ![t] = NULL]

\* Mutant: the block is given up but stays busy.
FreeClearBusy(t) ==
  /\ pc[t] = "freeClear"
  /\ holds' = [holds EXCEPT ![t] = NULL]
  /\ pc' = [pc EXCEPT ![t] = "idle"]
  /\ UNCHANGED <<State, i, raced>>

\* Block->State = mbFree.
FreeClear(t) ==
  /\ pc[t] = "freeClear"
  /\ State' = [State EXCEPT ![holds[t]] = "mbFree"]
  /\ holds' = [holds EXCEPT ![t] = NULL]
  /\ pc' = [pc EXCEPT ![t] = "idle"]
  /\ UNCHANGED <<i, raced>>

\* The lowest-numbered free block, the one an undisturbed MB_Get returns.
FirstFree(b) ==
  /\ State[b] = "mbFree"
  /\ \A a \in Blocks : a < b => State[a] = "mbBusy"

\* The interrupt handler calls MB_Get for an empty cell (SlipRxBlock).
IsrGet(c) ==
  /\ holds[c] = NULL
  /\ \E b \in Blocks :
       /\ FirstFree(b)
       /\ State' = [State EXCEPT ![b] = "mbBusy"]
       /\ holds' = [holds EXCEPT ![c] = b]
       /\ raced' = (raced \/ \E u \in Tasks : pc[u] = "mark" /\ i[u] = b)
  /\ UNCHANGED <<pc, i>>

\* The interrupt handler calls MB_Free on a cell's block (SlipTxBlock).
IsrFree(c) ==
  /\ holds[c] # NULL
  /\ State' = [State EXCEPT ![holds[c]] = "mbFree"]
  /\ holds' = [holds EXCEPT ![c] = NULL]
  /\ UNCHANGED <<pc, i, raced>>

\* A caller hands a block from one place to another: a task that is not in a
\* pool call stores its block in a cell or takes one from a cell, and the
\* handler moves SlipRxBlock into its queue.
Idle(p) == p \in Tasks => pc[p] = "idle"
HandOver(p, q) ==
  /\ Idle(p) /\ Idle(q)
  /\ holds[p] # NULL /\ holds[q] = NULL
  /\ holds' = [holds EXCEPT ![p] = NULL, ![q] = holds[p]]
  /\ UNCHANGED <<State, pc, i, raced>>

Next ==
  \/ \E t \in Tasks :
       \/ GetCall(t) \/ GetTest(t) \/ GetMark(t)
       \/ FreeCall(t) \/ FreeTest(t) \/ FreeClear(t)
  \/ \E c \in Cells : IsrGet(c) \/ IsrFree(c)
  \/ \E p, q \in Places : HandOver(p, q)

Spec == Init /\ [][Next]_vars
=============================================================================
