------------------------------- MODULE SlipTx -------------------------------
(***************************************************************************)
(* The transmitter of slip_uart.c: SU_Send, SU_TransmitTask, the TXE part  *)
(* of the interrupt handler, and the USART they drive.                     *)
(*                                                                         *)
(* Tasks insert blocks in SlipTxQueue and signal slipTxEvent.  The         *)
(* transmit task takes a block when the line is READY, writes the first    *)
(* delimiter to DR and enables the TXE interrupt; from there the handler   *)
(* sends the block byte by byte, frees it and signals the task again.      *)
(* The task is preempted by the handler between any two of its accesses.   *)
(* The queue is the FIFO that module Queue shows queue.c to be as long as  *)
(* insertions do not overlap, and by AlwaysRoom there it refuses nothing.  *)
(*                                                                         *)
(* External: an OsEvent is a binary flag that a successful wait clears.    *)
(* TXE is set while DR is empty; the USART moves DR to the line when it    *)
(* can, and a byte written to a full DR replaces the one in it.            *)
(***************************************************************************)
EXTENDS Integers, Sequences, FiniteSets

CONSTANTS
  Blocks,     \* the blocks of the pool
  Senders,    \* tasks that call SU_Send
  Frames,     \* the contents a block may be sent with
  MaxSends,   \* bound: calls of SU_Send in a behaviour
  NONE        \* no block, or an empty data register

Bytes == {"END", "ESC", "ESC_END", "ESC_ESC", "data"}

ASSUME TxAssumption ==
  /\ Frames \subseteq Seq(Bytes)
  /\ MaxSends \in Nat
  /\ NONE \notin Blocks /\ NONE \notin Bytes

VARIABLES
  free,         \* blocks that are mbFree
  content,      \* Data[0..Len-1] of each block
  holds,        \* the block each sender has in hand
  spc,          \* where each sender is in SU_Send
  SlipTxQueue, slipTxEvent,
  tpc,          \* where the transmit task is
  block,        \* its local variable
  SlipTxPSW,    \* "READY", "NOT_READY" (0), "ESCAPE" or "END"
  SlipTxTSB,    \* the second byte of an escape pair
  SlipTxBlock,
  pos,          \* bytes of the block read: SlipTxPos - block->Data
  SlipTxLength,
  DR, TXEIE,    \* the data register and the interrupt enable bit
  line,         \* history: the bytes the USART sent
  taken         \* history: the frames the task took from the queue

swVars == <<holds, spc, SlipTxQueue>>
isrVars == <<SlipTxPSW, SlipTxTSB, SlipTxBlock, pos, SlipTxLength>>
vars == <<free, content, swVars, slipTxEvent, tpc, block, isrVars, DR, TXEIE,
          line, taken>>

TypeOK ==
  /\ free \subseteq Blocks
  /\ content \in [Blocks -> Seq(Bytes)]
  /\ holds \in [Senders -> Blocks \cup {NONE}]
  /\ spc \in [Senders -> {"idle", "insert", "signal"}]
  /\ SlipTxQueue \in Seq(Blocks)
  /\ slipTxEvent \in {0, 1}
  /\ tpc \in {"wait", "check", "get", "load", "start", "enable"}
  /\ block \in Blocks \cup {NONE}
  /\ SlipTxPSW \in {"READY", "NOT_READY", "ESCAPE", "END"}
  /\ SlipTxTSB \in Bytes \cup {NONE}
  /\ SlipTxBlock \in Blocks \cup {NONE}
  /\ pos \in Nat /\ SlipTxLength \in Nat
  /\ DR \in Bytes \cup {NONE}
  /\ TXEIE \in {0, 1}
  /\ line \in Seq(Bytes)
  /\ taken \in Seq(Seq(Bytes))

\* SU_Init after reset: the handler's pointers are unset, DR is empty.
Init ==
  /\ free = Blocks
  /\ content = [b \in Blocks |-> <<>>]
  /\ holds = [s \in Senders |-> NONE]
  /\ spc = [s \in Senders |-> "idle"]
  /\ SlipTxQueue = <<>> /\ slipTxEvent = 0
  /\ tpc = "wait" /\ block = NONE
  /\ SlipTxPSW = "READY" /\ SlipTxTSB = NONE /\ SlipTxBlock = NONE
  /\ pos = 0 /\ SlipTxLength = 0
  /\ DR = NONE /\ TXEIE = 0
  /\ line = <<>> /\ taken = <<>>

-----------------------------------------------------------------------------
(***************************************************************************)
(* The senders.                                                            *)
(***************************************************************************)
Sending == {s \in Senders : spc[s] = "insert"}

\* A caller takes a block from the pool, fills it and calls SU_Send
\* (slip_sock_send, slip_sock_close, SU_Disconnect).
Send(s, b, f) ==
  /\ spc[s] = "idle" /\ b \in free
  /\ Len(taken) + Len(SlipTxQueue) + Cardinality(Sending) < MaxSends
  /\ free' = free \ {b}
  /\ content' = [content EXCEPT ![b] = f]
  /\ holds' = [holds EXCEPT ![s] = b]
  /\ spc' = [spc EXCEPT ![s] = "insert"]
  /\ UNCHANGED <<SlipTxQueue, slipTxEvent, tpc, block, isrVars, DR, TXEIE, line, taken>>

\* queue_insert(&SlipTxQueue, Block)
Insert(s) ==
  /\ spc[s] = "insert"
  /\ SlipTxQueue' = Append(SlipTxQueue, holds[s])
  /\ holds' = [holds EXCEPT ![s] = NONE]
  /\ spc' = [spc EXCEPT ![s] = "signal"]
  /\ UNCHANGED <<free, content, slipTxEvent, tpc, block, isrVars, DR, TXEIE, line, taken>>

\* osSetEvent(&slipTxEvent)
Signal(s) ==
  /\ spc[s] = "signal"
  /\ slipTxEvent' = 1
  /\ spc' = [spc EXCEPT ![s] = "idle"]
  /\ UNCHANGED <<free, content, holds, SlipTxQueue, tpc, block, isrVars, DR, TXEIE, line, taken>>

-----------------------------------------------------------------------------
(***************************************************************************)
(* SU_TransmitTask.                                                        *)
(***************************************************************************)
Wait ==
  /\ tpc = "wait" /\ slipTxEvent = 1
  /\ slipTxEvent' = 0
  /\ tpc' = "check"
  /\ UNCHANGED <<free, content, swVars, block, isrVars, DR, TXEIE, line, taken>>

Check ==
  /\ tpc = "check"
  /\ tpc' = IF SlipTxPSW = "READY" THEN "get" ELSE "wait"
  /\ UNCHANGED <<free, content, swVars, slipTxEvent, block, isrVars, DR, TXEIE, line, taken>>

Get ==
  /\ tpc = "get"
  /\ \/ /\ SlipTxQueue = <<>>
        /\ tpc' = "wait"
        /\ UNCHANGED <<SlipTxQueue, block, taken>>
     \/ /\ SlipTxQueue # <<>>
        /\ block' = Head(SlipTxQueue)
        /\ SlipTxQueue' = Tail(SlipTxQueue)
        /\ taken' = Append(taken, content[Head(SlipTxQueue)])
        /\ tpc' = "load"
  /\ UNCHANGED <<free, content, holds, spc, slipTxEvent, isrVars, DR, TXEIE, line>>

\* Mutant: the interrupt is enabled with the first assignments.
LoadEnabled ==
  /\ tpc = "load"
  /\ SlipTxPSW' = "NOT_READY"
  /\ SlipTxLength' = Len(content[block])
  /\ SlipTxBlock' = block
  /\ pos' = 0 /\ TXEIE' = 1
  /\ tpc' = "start"
  /\ UNCHANGED <<free, content, swVars, slipTxEvent, block, SlipTxTSB, DR, line, taken>>

\* The four assignments before the first write to DR.
Load ==
  /\ tpc = "load"
  /\ SlipTxPSW' = "NOT_READY"
  /\ SlipTxLength' = Len(content[block])
  /\ SlipTxBlock' = block
  /\ pos' = 0
  /\ tpc' = "start"
  /\ UNCHANGED <<free, content, swVars, slipTxEvent, block, SlipTxTSB, DR, TXEIE, line, taken>>

Start ==
  /\ tpc = "start"
  /\ DR' = "END"
  /\ tpc' = "enable"
  /\ UNCHANGED <<free, content, swVars, slipTxEvent, block, isrVars, TXEIE, line, taken>>

\* The TXE interrupt goes on.  From here the block is the handler's: the task
\* only logs its length.
Enable ==
  /\ tpc = "enable"
  /\ TXEIE' = 1
  /\ tpc' = "wait"
  /\ block' = NONE
  /\ UNCHANGED <<free, content, swVars, slipTxEvent, isrVars, DR, line, taken>>

-----------------------------------------------------------------------------
(***************************************************************************)
(* The handler's TXE part, which runs when TXE and TXEIE are set, and the  *)
(* USART.                                                                  *)
(***************************************************************************)
TxInterrupt == DR = NONE /\ TXEIE = 1

IsrEscaped ==
  /\ TxInterrupt /\ SlipTxPSW = "ESCAPE"
  /\ SlipTxPSW' = "NOT_READY"
  /\ DR' = SlipTxTSB
  /\ UNCHANGED <<free, content, swVars, slipTxEvent, tpc, block, SlipTxTSB,
                 SlipTxBlock, pos, SlipTxLength, TXEIE, line, taken>>

\* Mutant: the task is not signalled at the end of a frame.
IsrDoneSilent ==
  /\ TxInterrupt /\ SlipTxPSW = "END"
  /\ TXEIE' = 0
  /\ SlipTxPSW' = "READY"
  /\ free' = free \cup {SlipTxBlock}
  /\ UNCHANGED <<content, swVars, slipTxEvent, tpc, block, SlipTxTSB, SlipTxBlock,
                 pos, SlipTxLength, DR, line, taken>>

IsrDone ==
  /\ TxInterrupt /\ SlipTxPSW = "END"
  /\ TXEIE' = 0
  /\ SlipTxPSW' = "READY"
  /\ free' = free \cup {SlipTxBlock}
  /\ slipTxEvent' = 1
  /\ UNCHANGED <<content, swVars, tpc, block, SlipTxTSB, SlipTxBlock, pos,
                 SlipTxLength, DR, line, taken>>

\* Mutant: the two escape pairs are mixed up.
IsrByteSwapped ==
  /\ TxInterrupt /\ SlipTxPSW \notin {"ESCAPE", "END"}
  /\ SlipTxLength > 0
  /\ LET c == content[SlipTxBlock][pos + 1]
     IN  /\ DR' = IF c = "END" THEN "ESC" ELSE c
         /\ SlipTxPSW' = IF c \in {"END", "ESC"} THEN "ESCAPE" ELSE SlipTxPSW
         /\ SlipTxTSB' = IF c = "END" THEN "ESC_ESC"
                         ELSE IF c = "ESC" THEN "ESC_END" ELSE SlipTxTSB
  /\ pos' = pos + 1
  /\ SlipTxLength' = SlipTxLength - 1
  /\ UNCHANGED <<free, content, swVars, slipTxEvent, tpc, block, SlipTxBlock,
                 TXEIE, line, taken>>

IsrByte ==
  /\ TxInterrupt /\ SlipTxPSW \notin {"ESCAPE", "END"}
  /\ SlipTxLength > 0
  /\ LET c == content[SlipTxBlock][pos + 1]
     IN  /\ DR' = IF c = "END" THEN "ESC" ELSE c
         /\ SlipTxPSW' = IF c \in {"END", "ESC"} THEN "ESCAPE" ELSE SlipTxPSW
         /\ SlipTxTSB' = IF c = "END" THEN "ESC_END"
                         ELSE IF c = "ESC" THEN "ESC_ESC" ELSE SlipTxTSB
  /\ pos' = pos + 1
  /\ SlipTxLength' = SlipTxLength - 1
  /\ UNCHANGED <<free, content, swVars, slipTxEvent, tpc, block, SlipTxBlock,
                 TXEIE, line, taken>>

\* Mutant: the block is freed with the last delimiter, and again after it.
IsrEndFrees ==
  /\ TxInterrupt /\ SlipTxPSW \notin {"ESCAPE", "END"}
  /\ SlipTxLength = 0
  /\ DR' = "END"
  /\ SlipTxPSW' = "END"
  /\ free' = free \cup {SlipTxBlock}
  /\ UNCHANGED <<content, swVars, slipTxEvent, tpc, block, SlipTxTSB, SlipTxBlock,
                 pos, SlipTxLength, TXEIE, line, taken>>

\* Mutant: the line is READY while the delimiter is still in DR.
IsrEndReady ==
  /\ TxInterrupt /\ SlipTxPSW \notin {"ESCAPE", "END"}
  /\ SlipTxLength = 0
  /\ DR' = "END"
  /\ SlipTxPSW' = "READY" /\ TXEIE' = 0
  /\ free' = free \cup {SlipTxBlock}
  /\ slipTxEvent' = 1
  /\ UNCHANGED <<content, swVars, tpc, block, SlipTxTSB, SlipTxBlock, pos,
                 SlipTxLength, line, taken>>

IsrEnd ==
  /\ TxInterrupt /\ SlipTxPSW \notin {"ESCAPE", "END"}
  /\ SlipTxLength = 0
  /\ DR' = "END"
  /\ SlipTxPSW' = "END"
  /\ UNCHANGED <<free, content, swVars, slipTxEvent, tpc, block, SlipTxTSB,
                 SlipTxBlock, pos, SlipTxLength, TXEIE, line, taken>>

\* The USART moves the byte in DR to the line and sets TXE.
Shift ==
  /\ DR # NONE
  /\ line' = Append(line, DR)
  /\ DR' = NONE
  /\ UNCHANGED <<free, content, swVars, slipTxEvent, tpc, block, isrVars, TXEIE, taken>>

-----------------------------------------------------------------------------
Sender(s) == Insert(s) \/ Signal(s)
TransmitTask == Wait \/ Check \/ Get \/ Load \/ Start \/ Enable
Isr == IsrEscaped \/ IsrDone \/ IsrByte \/ IsrEnd

Next ==
  \/ \E s \in Senders : Sender(s) \/ \E b \in Blocks, f \in Frames : Send(s, b, f)
  \/ TransmitTask \/ Isr \/ Shift

Spec == Init /\ [][Next]_vars

\* The scheduler runs every ready task, a pending interrupt is served, and
\* the USART keeps sending.  Nobody has to call SU_Send.
FairSpec ==
  /\ Spec
  /\ \A s \in Senders : WF_vars(Sender(s))
  /\ WF_vars(TransmitTask) /\ WF_vars(Isr) /\ WF_vars(Shift)

-----------------------------------------------------------------------------
(***************************************************************************)
(* Properties                                                              *)
(***************************************************************************)

\* The task writes DR without looking at TXE (line 349), and the handler
\* writes it under TXE: no byte in DR is ever replaced before it was sent,
\* not even a delimiter by a delimiter.
NoByteReplaced ==
  [][DR # NONE => ~Start /\ (DR' = DR \/ (DR' = NONE /\ line' = Append(line, DR)))]_vars

\* The task and the handler never own the transmitter at the same time: the
\* interrupt is enabled only after the task has left it, and the task loads
\* a block only while the line is READY and DR is empty.
OneOwner ==
  /\ TXEIE = 1 => tpc \in {"wait", "check"} /\ SlipTxPSW # "READY"
  /\ tpc \in {"get", "load"} => SlipTxPSW = "READY" /\ TXEIE = 0
  /\ tpc \in {"get", "load", "start"} => DR = NONE

\* From the call of SU_Send to the handler's MB_Free, the block of a frame
\* is owned by exactly one of its sender, the queue, the task and the
\* handler, and it is not free: nobody can refill it while it is being sent.
InFlight(b) == TXEIE = 1 /\ SlipTxBlock = b
Owners(b) ==
  Cardinality({s \in Senders : holds[s] = b})
    + Cardinality({k \in DOMAIN SlipTxQueue : SlipTxQueue[k] = b})
    + (IF block = b THEN 1 ELSE 0)
    + (IF InFlight(b) THEN 1 ELSE 0)
    + (IF b \in free THEN 1 ELSE 0)
OneOwnerPerBlock == \A b \in Blocks : Owners(b) = 1

Code == INSTANCE SlipCode

\* What the handler has still to send of the block it is sending.
Rest ==
  LET b == SlipTxBlock
      tail == Code!Encode(SubSeq(content[b], pos + 1, pos + SlipTxLength)) \o <<"END">>
  IN  IF tpc = "load" THEN Code!Framed(content[block])
      ELSE CASE SlipTxPSW = "READY"     -> <<>>
             [] SlipTxPSW = "NOT_READY" -> (IF tpc = "start" THEN <<"END">> ELSE <<>>) \o tail
             [] SlipTxPSW = "ESCAPE"    -> <<SlipTxTSB>> \o tail
             [] SlipTxPSW = "END"       -> <<>>

\* At any moment, what was sent, what is in DR and what the handler still
\* has to send is exactly the encoding of the frames taken, in their order.
LineIsEncoding ==
  line \o (IF DR = NONE THEN <<>> ELSE <<DR>>) \o Rest = Code!Stream(taken)

\* Every block that was queued is transmitted and freed, whatever wake-ups
\* were coalesced in the binary event.
IsQueued(b) == \E k \in DOMAIN SlipTxQueue : SlipTxQueue[k] = b
EverySentBlockIsFreed == \A b \in Blocks : IsQueued(b) ~> b \in free

=============================================================================
