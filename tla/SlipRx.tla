------------------------------- MODULE SlipRx -------------------------------
(***************************************************************************)
(* The receiver of slip_uart.c: the RXNE part of the interrupt handler and *)
(* the loop of SU_ReceiveTask that takes its frames.                       *)
(*                                                                         *)
(* The handler unstuffs bytes into SlipRxBlock.  At a delimiter it queues  *)
(* the block if it holds at least SLIP_RX_MIN_FRAME bytes and takes        *)
(* another one from the pool; while the pool is empty it follows the       *)
(* framing without storing anything.  A frame longer than a block is       *)
(* given up until the next delimiter.                                      *)
(*                                                                         *)
(* A block's content is what was written through SlipRxPos since           *)
(* SlipRxPos was set to Data, until the task has dispatched the frame: the *)
(* bytes left in a block after that are never read.  The queue is a FIFO   *)
(* that refuses nothing (module Queue).  What the task does with a frame   *)
(* is module SlipSock's subject: here it frees the block or passes it on,  *)
(* and other tasks take and free blocks of the same pool.                  *)
(***************************************************************************)
EXTENDS Integers, Sequences

CONSTANTS
  Blocks,             \* the blocks of the pool
  SLIP_RX_MIN_FRAME,  \* shortest frame that is queued
  MEMBLOCK_SIZE,      \* bytes in a block
  LineBytes,          \* the bytes other than END that may be received
  MaxRaw,             \* bound: bytes on the line between two delimiters
  NONE                \* no block; nothing heard yet

Bytes == {"END", "ESC", "ESC_END", "ESC_ESC", "data"}

ASSUME RxAssumption ==
  /\ SLIP_RX_MIN_FRAME \in Nat /\ MEMBLOCK_SIZE \in Nat
  /\ 0 < SLIP_RX_MIN_FRAME /\ SLIP_RX_MIN_FRAME <= MEMBLOCK_SIZE
  /\ LineBytes \subseteq Bytes \ {"END"} /\ MaxRaw \in Nat
  /\ NONE \notin Blocks /\ NONE \notin Seq(Bytes)

VARIABLES
  free,          \* blocks that are mbFree
  away,          \* blocks other tasks use
  content,       \* bytes written to each block
  len,           \* block->Len
  SlipRxBlock, SlipRxEnable,
  SlipRxPSW,     \* the set bits: {} is SLIP_RX_READY
  SlipRxCount,
  SlipRxQueue, slipRxEvent,
  tpc, block,    \* the receive task and its local variable
  raw,           \* history: the bytes since the last END, NONE before the first
  heard          \* history: the bytes each block's frame came from

isrVars == <<SlipRxBlock, SlipRxEnable, SlipRxPSW, SlipRxCount, raw, heard>>
vars == <<free, away, content, len, isrVars, SlipRxQueue, slipRxEvent, tpc, block>>

TypeOK ==
  /\ free \subseteq Blocks /\ away \subseteq Blocks
  /\ content \in [Blocks -> Seq(Bytes)]
  /\ len \in [Blocks -> Nat]
  /\ SlipRxBlock \in Blocks \cup {NONE}
  /\ SlipRxEnable \in {0, 1}
  /\ SlipRxPSW \subseteq {"IN_PACKET", "ESCAPE"}
  /\ SlipRxCount \in 0 .. MEMBLOCK_SIZE
  /\ SlipRxQueue \in Seq(Blocks)
  /\ slipRxEvent \in {0, 1}
  /\ tpc \in {"wait", "get", "handle"}
  /\ block \in Blocks \cup {NONE}
  /\ raw \in Seq(Bytes) \cup {NONE}
  /\ heard \in [Blocks -> Seq(Bytes)]

\* SU_Init on a full pool.
Init ==
  /\ \E b \in Blocks : SlipRxBlock = b /\ free = Blocks \ {b}
  /\ away = {}
  /\ content = [b \in Blocks |-> <<>>]
  /\ len = [b \in Blocks |-> 0]
  /\ SlipRxEnable = 1 /\ SlipRxPSW = {} /\ SlipRxCount = 0
  /\ SlipRxQueue = <<>> /\ slipRxEvent = 0
  /\ tpc = "wait" /\ block = NONE
  /\ raw = NONE
  /\ heard = [b \in Blocks |-> <<>>]

-----------------------------------------------------------------------------
(***************************************************************************)
(* The handler.                                                            *)
(***************************************************************************)

\* SlipRxBlock = MB_Get(), SlipRxEnable accordingly, SlipRxPos = Data.
NextBlock ==
  \/ /\ free = {}
     /\ SlipRxBlock' = NONE /\ SlipRxEnable' = 0
     /\ UNCHANGED free
  \/ \E b \in free :
       /\ SlipRxBlock' = b /\ SlipRxEnable' = 1
       /\ free' = free \ {b}

\* Mutant: a frame of the minimum length is taken for too short.
FrameEndsLonger == SlipRxEnable = 1 /\ SlipRxCount > SLIP_RX_MIN_FRAME

\* The frame in SlipRxBlock is complete: it is queued.
FrameEnds == SlipRxEnable = 1 /\ SlipRxCount >= SLIP_RX_MIN_FRAME

\* SlipRxPos = SlipRxBlock->Data: what was written so far is abandoned.
Rewound(b) == IF b = NONE THEN content ELSE [content EXCEPT ![b] = <<>>]

\* Mutants: the queued block stays the one written to (block); a pending
\* escape survives the delimiter (psw).
IsrEndWith(keepsBlock, psw) ==
  /\ \/ /\ FrameEnds
        /\ len' = [len EXCEPT ![SlipRxBlock] = SlipRxCount]
        /\ heard' = [heard EXCEPT ![SlipRxBlock] = raw]
        /\ SlipRxQueue' = Append(SlipRxQueue, SlipRxBlock)
        /\ slipRxEvent' = 1
        /\ IF keepsBlock THEN UNCHANGED <<free, SlipRxBlock, SlipRxEnable>> ELSE NextBlock
     \/ /\ ~FrameEnds
        /\ IF SlipRxEnable = 1 THEN UNCHANGED <<free, SlipRxBlock, SlipRxEnable>> ELSE NextBlock
        /\ UNCHANGED <<len, heard, SlipRxQueue, slipRxEvent>>
  /\ SlipRxPSW' = psw
  /\ SlipRxCount' = 0
  /\ content' = Rewound(SlipRxBlock')
  /\ raw' = <<>>
  /\ UNCHANGED <<away, tpc, block>>
IsrEndKeepsBlock == IsrEndWith(TRUE, {"IN_PACKET"})
IsrEndKeepsEscape == IsrEndWith(FALSE, SlipRxPSW \cup {"IN_PACKET"})

\* A byte SLIP_END is received.
IsrEnd ==
  /\ \/ /\ FrameEnds
        /\ len' = [len EXCEPT ![SlipRxBlock] = SlipRxCount]
        /\ heard' = [heard EXCEPT ![SlipRxBlock] = raw]
        /\ SlipRxQueue' = Append(SlipRxQueue, SlipRxBlock)
        /\ slipRxEvent' = 1
        /\ NextBlock
     \/ /\ SlipRxEnable = 1 /\ ~FrameEnds
        /\ UNCHANGED <<free, SlipRxBlock, SlipRxEnable>>
        /\ UNCHANGED <<len, heard, SlipRxQueue, slipRxEvent>>
     \/ /\ SlipRxEnable = 0
        /\ NextBlock
        /\ UNCHANGED <<len, heard, SlipRxQueue, slipRxEvent>>
  /\ SlipRxPSW' = {"IN_PACKET"}
  /\ SlipRxCount' = 0
  /\ content' = Rewound(SlipRxBlock')
  /\ raw' = <<>>
  /\ UNCHANGED <<away, tpc, block>>

Unescaped(c) ==
  IF "ESCAPE" \in SlipRxPSW /\ c = "ESC_END" THEN "END"
  ELSE IF "ESCAPE" \in SlipRxPSW /\ c = "ESC_ESC" THEN "ESC" ELSE c

\* Mutant: a frame that is too long is continued from its beginning.
IsrByteGoesOn(c) ==
  /\ "IN_PACKET" \in SlipRxPSW
  /\ \/ /\ "ESCAPE" \notin SlipRxPSW /\ c = "ESC"
        /\ SlipRxPSW' = SlipRxPSW \cup {"ESCAPE"}
        /\ UNCHANGED <<SlipRxCount, content>>
     \/ /\ "ESCAPE" \in SlipRxPSW \/ c # "ESC"
        /\ SlipRxPSW' = {"IN_PACKET"}
        /\ SlipRxCount' = IF SlipRxCount < MEMBLOCK_SIZE THEN SlipRxCount + 1 ELSE 0
        /\ content' = IF SlipRxCount < MEMBLOCK_SIZE /\ SlipRxEnable = 1
                        THEN [content EXCEPT ![SlipRxBlock] = Append(@, Unescaped(c))]
                        ELSE content
  /\ raw' = Append(raw, c)
  /\ UNCHANGED <<free, away, len, SlipRxBlock, SlipRxEnable, SlipRxQueue,
                 slipRxEvent, tpc, block, heard>>

\* Any other byte is received.
IsrByte(c) ==
  /\ \/ /\ "IN_PACKET" \notin SlipRxPSW
        /\ UNCHANGED <<SlipRxPSW, SlipRxCount, content>>
     \/ /\ "IN_PACKET" \in SlipRxPSW
        /\ "ESCAPE" \notin SlipRxPSW /\ c = "ESC"
        /\ SlipRxPSW' = SlipRxPSW \cup {"ESCAPE"}
        /\ UNCHANGED <<SlipRxCount, content>>
     \/ /\ "IN_PACKET" \in SlipRxPSW
        /\ "ESCAPE" \in SlipRxPSW \/ c # "ESC"
        /\ \/ /\ SlipRxCount < MEMBLOCK_SIZE
              /\ SlipRxPSW' = SlipRxPSW \ {"ESCAPE"}
              /\ SlipRxCount' = SlipRxCount + 1
              /\ content' = IF SlipRxEnable = 1
                              THEN [content EXCEPT ![SlipRxBlock] = Append(@, Unescaped(c))]
                              ELSE content
           \/ /\ SlipRxCount >= MEMBLOCK_SIZE
              /\ SlipRxPSW' = {}
              /\ SlipRxCount' = 0
              /\ UNCHANGED content
  /\ raw' = IF raw = NONE THEN NONE ELSE Append(raw, c)
  /\ UNCHANGED <<free, away, len, SlipRxBlock, SlipRxEnable, SlipRxQueue,
                 slipRxEvent, tpc, block, heard>>

\* The line, external: any byte may come, within the bound.
Receive ==
  \/ IsrEnd
  \/ /\ raw # NONE => Len(raw) < MaxRaw
     /\ \E c \in LineBytes : IsrByte(c)

-----------------------------------------------------------------------------
(***************************************************************************)
(* SU_ReceiveTask, and the other users of the pool.                        *)
(***************************************************************************)
Wait ==
  /\ tpc = "wait" /\ slipRxEvent = 1
  /\ slipRxEvent' = 0
  /\ tpc' = "get"
  /\ UNCHANGED <<free, away, content, len, isrVars, SlipRxQueue, block>>

Get ==
  /\ tpc = "get"
  /\ \/ /\ SlipRxQueue = <<>>
        /\ tpc' = "wait"
        /\ UNCHANGED <<SlipRxQueue, block>>
     \/ /\ SlipRxQueue # <<>>
        /\ block' = Head(SlipRxQueue)
        /\ SlipRxQueue' = Tail(SlipRxQueue)
        /\ tpc' = "handle"
  /\ UNCHANGED <<free, away, content, len, isrVars, slipRxEvent>>

\* Mutant: the task handles one frame per wake-up.
HandleOne ==
  /\ tpc = "handle"
  /\ free' = free \cup {block}
  /\ block' = NONE
  /\ content' = [content EXCEPT ![block] = <<>>]
  /\ heard' = [heard EXCEPT ![block] = <<>>]
  /\ len' = [len EXCEPT ![block] = 0]
  /\ tpc' = "wait"
  /\ UNCHANGED <<away, SlipRxBlock, SlipRxEnable, SlipRxPSW, SlipRxCount, raw,
                 SlipRxQueue, slipRxEvent>>

\* The frame is dispatched: the block is freed at the end of the loop, or
\* was given to a socket's queue or to SU_Send (block = NULL).
Handle ==
  /\ tpc = "handle"
  /\ \/ free' = free \cup {block} /\ UNCHANGED away
     \/ away' = away \cup {block} /\ UNCHANGED free
  /\ block' = NONE
  /\ content' = [content EXCEPT ![block] = <<>>]
  /\ heard' = [heard EXCEPT ![block] = <<>>]
  /\ len' = [len EXCEPT ![block] = 0]
  /\ tpc' = "get"
  /\ UNCHANGED <<SlipRxBlock, SlipRxEnable, SlipRxPSW, SlipRxCount, raw,
                 SlipRxQueue, slipRxEvent>>

OtherGet(b) ==
  /\ b \in free
  /\ free' = free \ {b} /\ away' = away \cup {b}
  /\ UNCHANGED <<content, len, isrVars, SlipRxQueue, slipRxEvent, tpc, block>>

OtherFree(b) ==
  /\ b \in away
  /\ free' = free \cup {b} /\ away' = away \ {b}
  /\ UNCHANGED <<content, len, isrVars, SlipRxQueue, slipRxEvent, tpc, block>>

ReceiveTask == Wait \/ Get \/ Handle

Next == Receive \/ ReceiveTask \/ \E b \in Blocks : OtherGet(b) \/ OtherFree(b)

Spec == Init /\ [][Next]_vars

-----------------------------------------------------------------------------
(***************************************************************************)
(* Properties                                                              *)
(***************************************************************************)
IsQueued(b) == \E k \in DOMAIN SlipRxQueue : SlipRxQueue[k] = b

\* The handler's block is nobody else's, a queued block is queued once, and
\* none of them is free: a frame is not overwritten before it is handled.
OneOwner ==
  /\ SlipRxBlock \notin free \cup away
  /\ SlipRxBlock # NONE => SlipRxBlock # block /\ ~IsQueued(SlipRxBlock)
  /\ block \notin free \cup away /\ (block # NONE => ~IsQueued(block))
  /\ \A k \in DOMAIN SlipRxQueue :
       /\ SlipRxQueue[k] \notin free \cup away
       /\ \A n \in DOMAIN SlipRxQueue : n # k => SlipRxQueue[n] # SlipRxQueue[k]
  /\ free \cap away = {}

\* While a frame is being stored, SlipRxPos and SlipRxCount agree, and so
\* *SlipRxPos++ stays inside the block although only the count is tested.
CountIsPosition ==
  SlipRxEnable = 1 /\ "IN_PACKET" \in SlipRxPSW => Len(content[SlipRxBlock]) = SlipRxCount

\* No frame is forgotten, whatever wake-ups the binary event merged: while
\* one is queued the task is awake or will be woken.
FrameIsAnnounced == SlipRxQueue # <<>> => slipRxEvent = 1 \/ tpc # "wait"

Code == INSTANCE SlipCode

\* A frame waiting for or in the hands of the task is what the bytes
\* between its two delimiters mean, complete, and of an admissible length.
Waiting(b) == IsQueued(b) \/ block = b
FramesAreWhatWasHeard ==
  \A b \in Blocks : Waiting(b) =>
    /\ content[b] = Code!Meaning(heard[b])
    /\ len[b] = Len(content[b])
    /\ len[b] \in SLIP_RX_MIN_FRAME .. MEMBLOCK_SIZE

\* A frame that fits is lost only for want of a block: if the handler holds
\* one at the closing delimiter it held it from the opening one, and the
\* frame is queued, after any garbage, over-long or truncated frame.
Fits == raw # NONE /\ Len(Code!Meaning(raw)) \in SLIP_RX_MIN_FRAME .. MEMBLOCK_SIZE
FittingFrameIsQueued ==
  [][raw' = <<>> /\ raw # <<>> /\ Fits /\ SlipRxEnable = 1
       => SlipRxQueue' = Append(SlipRxQueue, SlipRxBlock)]_vars
=============================================================================
