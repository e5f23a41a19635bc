---------------------------- MODULE SlipRxProofs ----------------------------
(***************************************************************************)
(* Proofs about the receiver, for any pool, block size and line.           *)
(*                                                                         *)
(* The invariant has three parts.  Ctl: what the variables of the handler  *)
(* say about each other.  OneOwner and FrameIsAnnounced need Ctl; the      *)
(* bytes (Stored) need OneOwner: a block is not written to while it waits, *)
(* because the handler holds another one.  What the bytes mean (Understood)*)
(* comes last: the handler's state is the meaning of what it has heard.    *)
(***************************************************************************)
EXTENDS SlipRx, SequenceTheorems, WellFoundedInduction, TLAPS

\* SlipRxEnable says whether there is a block, the task has one while it
\* handles it, and inside a packet the first delimiter has been heard.
Ctl ==
  /\ SlipRxEnable = 1 <=> SlipRxBlock # NONE
  /\ tpc = "handle" <=> block # NONE
  /\ "IN_PACKET" \in SlipRxPSW \/ SlipRxCount > 0 => raw \in Seq(Bytes)

\* A frame that waits is whole: its length is what was stored, and it is
\* neither shorter than the minimum nor longer than a block.
Whole(b) == len[b] = Len(content[b]) /\ len[b] \in SLIP_RX_MIN_FRAME .. MEMBLOCK_SIZE
WaitingIsWhole == \A b \in Blocks : IsQueued(b) \/ block = b => Whole(b)

\* Outside a packet nothing counts.
NothingCounted == "IN_PACKET" \notin SlipRxPSW => SlipRxCount = 0

Stored == CountIsPosition /\ NothingCounted /\ WaitingIsWhole

Owned == TypeOK /\ Ctl /\ OneOwner
IInv == Owned /\ Stored

-----------------------------------------------------------------------------
(***************************************************************************)
(* Sequences: what a queue holds after an insertion and a removal.         *)
(***************************************************************************)
LEMMA AppendAt ==
  ASSUME NEW S, NEW s \in Seq(S), NEW e \in S
  PROVE  /\ Append(s, e) \in Seq(S) /\ Append(s, e) # <<>>
         /\ DOMAIN s = 1 .. Len(s) /\ DOMAIN Append(s, e) = 1 .. Len(s) + 1
         /\ Append(s, e)[Len(s) + 1] = e
         /\ \A k \in 1 .. Len(s) : Append(s, e)[k] = s[k]
  OBVIOUS

\* The first element gone, the others move up.
LEMMA TailAt ==
  ASSUME NEW S, NEW s \in Seq(S), s # <<>>
  PROVE  /\ Tail(s) \in Seq(S) /\ Head(s) \in S /\ Head(s) = s[1] /\ Len(s) >= 1
         /\ DOMAIN s = 1 .. Len(s) /\ DOMAIN Tail(s) = 1 .. Len(s) - 1
         /\ \A k \in 1 .. Len(s) - 1 : Tail(s)[k] = s[k + 1]
  OBVIOUS

Distinct(q) == \A k, n \in DOMAIN q : n # k => q[n] # q[k]

\* What is queued after an insertion, and that nothing is queued twice.
LEMMA QueueAppend ==
  ASSUME SlipRxQueue \in Seq(Blocks), NEW e \in Blocks, SlipRxQueue' = Append(SlipRxQueue, e)
  PROVE  /\ \A b : IsQueued(b)' <=> IsQueued(b) \/ b = e
         /\ Distinct(SlipRxQueue) /\ ~IsQueued(e) => Distinct(SlipRxQueue')
<1> DEFINE q == SlipRxQueue
<1>1. /\ DOMAIN q = 1 .. Len(q) /\ DOMAIN q' = 1 .. Len(q) + 1 /\ Len(q) \in Nat
      /\ q'[Len(q) + 1] = e /\ \A k \in 1 .. Len(q) : q'[k] = q[k]
  BY AppendAt
<1>2. \A k \in 1 .. Len(q) + 1 : k = Len(q) + 1 \/ k \in 1 .. Len(q)
  BY <1>1
<1>3. 1 .. Len(q) \subseteq 1 .. Len(q) + 1 /\ Len(q) + 1 \in 1 .. Len(q) + 1
  BY <1>1
<1> HIDE DEF q
<1>4. \A b : (\E k \in DOMAIN q' : q'[k] = b) <=> (\E k \in DOMAIN q : q[k] = b) \/ b = e
  BY <1>1, <1>2, <1>3
<1>5. ASSUME Distinct(q), ~\E k \in DOMAIN q : q[k] = e PROVE Distinct(q')
  BY <1>1, <1>2, <1>5 DEF Distinct
<1> QED
  BY <1>4, <1>5 DEF q, IsQueued

\* The same after a removal.
LEMMA QueueTail ==
  ASSUME SlipRxQueue \in Seq(Blocks), SlipRxQueue # <<>>, SlipRxQueue' = Tail(SlipRxQueue),
         Distinct(SlipRxQueue), NEW h, h = Head(SlipRxQueue)
  PROVE  /\ h \in Blocks /\ IsQueued(h) /\ ~IsQueued(h)'
         /\ \A b : IsQueued(b)' => IsQueued(b)
         /\ Distinct(SlipRxQueue')
<1> DEFINE q == SlipRxQueue
<1>1. /\ DOMAIN q = 1 .. Len(q) /\ DOMAIN q' = 1 .. Len(q) - 1 /\ Len(q) >= 1 /\ Len(q) \in Nat
      /\ h = q[1] /\ h \in Blocks /\ \A k \in 1 .. Len(q) - 1 : q'[k] = q[k + 1]
  BY TailAt
<1>2. 1 \in 1 .. Len(q) /\ \A k \in 1 .. Len(q) - 1 : k + 1 \in 1 .. Len(q) /\ k + 1 # 1
  BY <1>1
<1>3. \A k, n \in 1 .. Len(q) - 1 : n # k => n + 1 # k + 1
  OBVIOUS
<1> HIDE DEF q
<1>4. \A b : (\E k \in DOMAIN q' : q'[k] = b) => (\E k \in DOMAIN q : q[k] = b)
  BY <1>1, <1>2
<1>5. (\E k \in DOMAIN q : q[k] = h) /\ ~(\E k \in DOMAIN q' : q'[k] = h)
  BY <1>1, <1>2 DEF Distinct, q
<1>6. Distinct(q')
  BY <1>1, <1>2, <1>3 DEF Distinct, q
<1> QED
  BY <1>1, <1>4, <1>5, <1>6 DEF q, IsQueued

\* OneOwner in the words of these lemmas, in a state and in the next.
Apart ==
  /\ SlipRxBlock \notin free \cup away
  /\ SlipRxBlock # NONE => SlipRxBlock # block /\ ~IsQueued(SlipRxBlock)
  /\ block \notin free \cup away /\ (block # NONE => ~IsQueued(block))
  /\ \A b : IsQueued(b) => b \notin free \cup away
  /\ Distinct(SlipRxQueue)
  /\ free \cap away = {}

\* The invariant's own form of OneOwner.
LEMMA OneOwnerIs == (OneOwner <=> Apart) /\ (OneOwner' <=> Apart')
  BY DEF Apart, OneOwner, IsQueued, Distinct

-----------------------------------------------------------------------------
(***************************************************************************)
(* The first state.                                                        *)
(***************************************************************************)
LEMMA InitOwned == Init => Owned
<1> SUFFICES ASSUME Init PROVE Owned
  OBVIOUS
<1>1. TypeOK
  BY RxAssumption DEF Init, TypeOK
<1>2. Ctl
  BY RxAssumption DEF Init, Ctl
<1>3. OneOwner
  BY RxAssumption DEF Init, OneOwner, IsQueued
<1> QED
  BY <1>1, <1>2, <1>3 DEF Owned

\* Nothing is stored and nothing waits.
LEMMA InitStored == Init => Stored
<1> SUFFICES ASSUME Init PROVE Stored
  OBVIOUS
<1>1. CountIsPosition
  BY DEF Init, CountIsPosition
<1>2. NothingCounted
  BY DEF Init, NothingCounted
<1>3. WaitingIsWhole
  BY RxAssumption DEF Init, WaitingIsWhole, IsQueued
<1> QED
  BY <1>1, <1>2, <1>3 DEF Stored

-----------------------------------------------------------------------------
(***************************************************************************)
(* The handler.                                                            *)
(***************************************************************************)
LEMMA NextBlockGives ==
  ASSUME TypeOK, NextBlock
  PROVE  /\ free' \subseteq free
         /\ SlipRxBlock' \in free \cup {NONE} /\ SlipRxBlock' \notin free'
         /\ SlipRxEnable' \in {0, 1} /\ (SlipRxEnable' = 1 <=> SlipRxBlock' # NONE)
  BY RxAssumption DEF TypeOK, NextBlock

\* Rewinding empties one block and leaves the others.
LEMMA RewoundGives ==
  ASSUME TypeOK, NEW b \in Blocks \cup {NONE}, content' = Rewound(b)
  PROVE  /\ content' \in [Blocks -> Seq(Bytes)]
         /\ b # NONE => content'[b] = <<>>
         /\ \A x \in Blocks : x # b => content'[x] = content[x]
  BY RxAssumption DEF TypeOK, Rewound

\* A delimiter that ends a frame: its block is queued and another one taken.
LEMMA FrameEndsOwned ==
  ASSUME Owned, IsrEnd, FrameEnds
  PROVE  Owned'
<1> USE DEF Owned
<1>0. /\ SlipRxEnable = 1 /\ SlipRxCount > 0 /\ SlipRxBlock \in Blocks /\ raw \in Seq(Bytes)
  BY RxAssumption DEF FrameEnds, TypeOK, Ctl
<1>1. /\ NextBlock /\ SlipRxQueue' = Append(SlipRxQueue, SlipRxBlock)
      /\ len' = [len EXCEPT ![SlipRxBlock] = SlipRxCount]
      /\ heard' = [heard EXCEPT ![SlipRxBlock] = raw]
      /\ slipRxEvent' = 1 /\ SlipRxPSW' = {"IN_PACKET"} /\ SlipRxCount' = 0
      /\ content' = Rewound(SlipRxBlock') /\ raw' = <<>> /\ UNCHANGED <<away, tpc, block>>
  BY <1>0 DEF IsrEnd, FrameEnds
<1>2. /\ free' \subseteq free
      /\ SlipRxBlock' \in free \cup {NONE} /\ SlipRxBlock' \notin free'
      /\ SlipRxEnable' \in {0, 1} /\ (SlipRxEnable' = 1 <=> SlipRxBlock' # NONE)
  BY <1>1, NextBlockGives
<1>3. TypeOK'
  <2>1. content' \in [Blocks -> Seq(Bytes)]
    BY <1>1, <1>2, RewoundGives DEF TypeOK
  <2>2. SlipRxQueue' \in Seq(Blocks)
    BY <1>0, <1>1, AppendAt DEF TypeOK
  <2>3. len' \in [Blocks -> Nat] /\ heard' \in [Blocks -> Seq(Bytes)] /\ SlipRxCount' \in 0 .. MEMBLOCK_SIZE
    BY <1>0, <1>1, RxAssumption DEF TypeOK
  <2> QED
    BY <1>1, <1>2, <2>1, <2>2, <2>3 DEF TypeOK
<1>4. Ctl'
  BY <1>1, <1>2 DEF Ctl
<1>5. OneOwner'
  <2>1. /\ \A b : IsQueued(b)' <=> IsQueued(b) \/ b = SlipRxBlock
        /\ Distinct(SlipRxQueue) /\ ~IsQueued(SlipRxBlock) => Distinct(SlipRxQueue')
    BY <1>0, <1>1, QueueAppend DEF TypeOK
  <2> QED
    BY <1>0, <1>1, <1>2, <1>3, <2>1, OneOwnerIs, RxAssumption DEF TypeOK, Apart
<1> QED
  BY <1>3, <1>4, <1>5

\* A delimiter that ends none: at most a block is taken.
LEMMA NoFrameOwned ==
  ASSUME Owned, IsrEnd, ~FrameEnds
  PROVE  Owned'
<1> USE DEF Owned
<1>1. /\ UNCHANGED <<len, heard, SlipRxQueue, slipRxEvent, away, tpc, block>>
      /\ SlipRxPSW' = {"IN_PACKET"} /\ SlipRxCount' = 0
      /\ content' = Rewound(SlipRxBlock') /\ raw' = <<>>
      /\ UNCHANGED <<free, SlipRxBlock, SlipRxEnable>> \/ (SlipRxEnable = 0 /\ NextBlock)
  BY DEF IsrEnd
<1>2. /\ free' \subseteq free
      /\ SlipRxBlock' = SlipRxBlock \/ SlipRxBlock' \in free \cup {NONE}
      /\ SlipRxBlock' \in Blocks \cup {NONE} /\ SlipRxBlock' \notin free'
      /\ SlipRxEnable' \in {0, 1} /\ (SlipRxEnable' = 1 <=> SlipRxBlock' # NONE)
  BY <1>1, NextBlockGives DEF TypeOK, OneOwner, Ctl
<1>3. TypeOK'
  <2>1. content' \in [Blocks -> Seq(Bytes)]
    BY <1>1, <1>2, RewoundGives DEF TypeOK
  <2>2. SlipRxCount' \in 0 .. MEMBLOCK_SIZE /\ SlipRxPSW' \subseteq {"IN_PACKET", "ESCAPE"} /\ raw' \in Seq(Bytes)
    BY <1>1, RxAssumption
  <2> QED
    BY <1>1, <1>2, <2>1, <2>2 DEF TypeOK
<1>4. Ctl'
  BY <1>1, <1>2 DEF Ctl
<1>5. OneOwner'
  <2>1. \A b : IsQueued(b)' <=> IsQueued(b)
    BY <1>1 DEF IsQueued
  <2> QED
    BY <1>1, <1>2, <1>3, <2>1, OneOwnerIs, RxAssumption DEF TypeOK, Apart
<1> QED
  BY <1>3, <1>4, <1>5

\* A byte changes no block's owner.
LEMMA ByteOwned ==
  ASSUME Owned, NEW c \in LineBytes, IsrByte(c)
  PROVE  Owned'
<1> USE DEF Owned
<1>0. c \in Bytes /\ Unescaped(c) \in Bytes
  BY RxAssumption DEF Unescaped, Bytes
<1>1. TypeOK'
  <2>1. content' \in [Blocks -> Seq(Bytes)]
    <3>1. content' = content \/ content' = [content EXCEPT ![SlipRxBlock] = Append(@, Unescaped(c))]
      BY DEF IsrByte
    <3>2. \A x \in Blocks : Append(content[x], Unescaped(c)) \in Seq(Bytes)
      BY <1>0, AppendAt DEF TypeOK
    <3> QED
      BY <3>1, <3>2, ZenonT(60) DEF TypeOK
  <2>2. SlipRxCount' \in 0 .. MEMBLOCK_SIZE
    BY RxAssumption DEF IsrByte, TypeOK
  <2>4. SlipRxPSW' \subseteq {"IN_PACKET", "ESCAPE"}
    BY DEF IsrByte, TypeOK
  <2>3. raw' \in Seq(Bytes) \cup {NONE}
    BY <1>0 DEF IsrByte, TypeOK
  <2> QED
    BY <2>1, <2>2, <2>3, <2>4 DEF IsrByte, TypeOK
<1>2. Ctl'
  <2>1. "IN_PACKET" \in SlipRxPSW' \/ SlipRxCount' > 0 => "IN_PACKET" \in SlipRxPSW \/ SlipRxCount > 0
    BY DEF IsrByte
  <2>2. raw \in Seq(Bytes) => raw' \in Seq(Bytes)
    BY <1>0 DEF IsrByte
  <2> QED
    BY <2>1, <2>2 DEF IsrByte, Ctl
<1>3. OneOwner'
  BY DEF IsrByte, OneOwner, IsQueued
<1> QED
  BY <1>1, <1>2, <1>3

-----------------------------------------------------------------------------
(***************************************************************************)
(* The tasks.                                                              *)
(***************************************************************************)
LEMMA GetOwned ==
  ASSUME Owned, Get
  PROVE  Owned'
<1> USE DEF Owned
<1>1. CASE SlipRxQueue = <<>>
  <2>1. tpc' = "wait" /\ block' = block /\ SlipRxQueue' = SlipRxQueue /\ tpc = "get"
    BY <1>1 DEF Get
  <2> QED
    BY <2>1 DEF Get, TypeOK, Ctl, OneOwner, IsQueued, isrVars
<1>2. CASE SlipRxQueue # <<>>
  <2>1. /\ tpc = "get" /\ tpc' = "handle" /\ block' = Head(SlipRxQueue) /\ SlipRxQueue' = Tail(SlipRxQueue)
        /\ UNCHANGED <<free, away, content, len, isrVars, slipRxEvent>>
    BY <1>2 DEF Get
  <2>2. Distinct(SlipRxQueue)
    BY OneOwnerIs DEF TypeOK, Apart
  <2>3. /\ block' \in Blocks /\ IsQueued(block') /\ ~(\E k \in DOMAIN SlipRxQueue' : SlipRxQueue'[k] = block')
        /\ \A b : IsQueued(b)' => IsQueued(b)
        /\ Distinct(SlipRxQueue')
    BY <1>2, <2>1, <2>2, QueueTail DEF TypeOK, IsQueued
  <2>4. TypeOK'
    BY <1>2, <2>1, <2>3, TailAt DEF TypeOK, isrVars
  <2>5. Ctl'
    BY <2>1, <2>3, RxAssumption DEF Ctl, isrVars
  <2>6. OneOwner'
    BY <2>1, <2>2, <2>3, <2>4, OneOwnerIs, RxAssumption DEF TypeOK, Apart, isrVars, IsQueued
  <2> QED
    BY <2>4, <2>5, <2>6
<1> QED
  BY <1>1, <1>2

\* The task's block goes back to the pool or to another task.
LEMMA HandleOwned ==
  ASSUME Owned, Handle
  PROVE  Owned'
<1> USE DEF Owned
<1>1. /\ block \in Blocks /\ block # NONE /\ block' = NONE /\ tpc' = "get"
      /\ free' \cup away' = free \cup away \cup {block}
      /\ free' \cap away' = {}
      /\ UNCHANGED <<SlipRxBlock, SlipRxEnable, SlipRxPSW, SlipRxCount, raw, SlipRxQueue, slipRxEvent>>
  BY DEF Handle, TypeOK, Ctl, OneOwner
<1>2. TypeOK'
  BY <1>1 DEF Handle, TypeOK
<1>3. Ctl'
  BY <1>1 DEF Ctl
<1>4. OneOwner'
  <2>1. \A b : IsQueued(b)' <=> IsQueued(b)
    BY <1>1 DEF IsQueued
  <2>2. NONE \notin free' \cup away' 
    BY <1>2, RxAssumption DEF TypeOK
  <2> QED
    BY <1>1, <1>2, <2>1, <2>2, OneOwnerIs DEF TypeOK, Apart
<1> QED
  BY <1>2, <1>3, <1>4

\* Other tasks take only free blocks and free only their own.
LEMMA OtherOwned ==
  ASSUME Owned, NEW b \in Blocks, OtherGet(b) \/ OtherFree(b)
  PROVE  Owned'
<1> USE DEF Owned
<1>1. /\ free' \cup away' = free \cup away /\ free' \cap away' = {}
      /\ UNCHANGED <<content, len, isrVars, SlipRxQueue, slipRxEvent, tpc, block>>
  BY DEF OtherGet, OtherFree, OneOwner
<1>2. TypeOK'
  BY <1>1 DEF TypeOK, isrVars
<1>3. Ctl'
  BY <1>1 DEF Ctl, isrVars
<1>4. OneOwner'
  BY <1>1, OneOwnerIs, <1>2 DEF TypeOK, Apart, isrVars, IsQueued
<1> QED
  BY <1>2, <1>3, <1>4

\* Waking up moves no block.
LEMMA WaitOwned ==
  ASSUME Owned, Wait \/ UNCHANGED vars
  PROVE  Owned'
<1> USE DEF Owned
<1>1. TypeOK'
  BY DEF Wait, TypeOK, vars, isrVars
<1>2. Ctl'
  BY DEF Wait, Ctl, vars, isrVars
<1>3. OneOwner'
  BY DEF Wait, OneOwner, IsQueued, vars, isrVars
<1> QED
  BY <1>1, <1>2, <1>3

\* Every step keeps the types and the owners.
LEMMA NextOwned == Owned /\ [Next]_vars => Owned'
<1> SUFFICES ASSUME Owned, [Next]_vars PROVE Owned'
  OBVIOUS
<1>1. CASE IsrEnd
  BY <1>1, FrameEndsOwned, NoFrameOwned
<1>2. CASE \E c \in LineBytes : IsrByte(c)
  BY <1>2, ByteOwned
<1>3. CASE Wait \/ UNCHANGED vars
  BY <1>3, WaitOwned
<1>4. CASE Get
  BY <1>4, GetOwned
<1>5. CASE Handle
  BY <1>5, HandleOwned
<1>6. CASE \E b \in Blocks : OtherGet(b) \/ OtherFree(b)
  BY <1>6, OtherOwned
<1> QED
  BY <1>1, <1>2, <1>3, <1>4, <1>5, <1>6 DEF Next, Receive, ReceiveTask

-----------------------------------------------------------------------------
(***************************************************************************)
(* The bytes in the blocks.                                                *)
(***************************************************************************)
LEMMA EndStored ==
  ASSUME Owned, Owned', Stored, IsrEnd
  PROVE  Stored'
<1> USE DEF Owned
<1>1. /\ SlipRxPSW' = {"IN_PACKET"} /\ SlipRxCount' = 0 /\ content' = Rewound(SlipRxBlock')
      /\ UNCHANGED block
  BY DEF IsrEnd
<1>2. /\ SlipRxBlock' \in Blocks \cup {NONE} /\ (SlipRxEnable' = 1 <=> SlipRxBlock' # NONE)
      /\ SlipRxBlock' # NONE => SlipRxBlock' # block' /\ ~(\E k \in DOMAIN SlipRxQueue' : SlipRxQueue'[k] = SlipRxBlock')
  BY DEF TypeOK, Ctl, OneOwner, IsQueued
<1>3. /\ SlipRxBlock' # NONE => content'[SlipRxBlock'] = <<>>
      /\ \A x \in Blocks : x # SlipRxBlock' => content'[x] = content[x]
  BY <1>1, <1>2, RewoundGives
<1>4. CountIsPosition' /\ NothingCounted'
  BY <1>1, <1>2, <1>3 DEF CountIsPosition, NothingCounted
<1>5. ASSUME NEW b \in Blocks, IsQueued(b)' \/ block' = b
      PROVE  len'[b] = Len(content'[b]) /\ len'[b] \in SLIP_RX_MIN_FRAME .. MEMBLOCK_SIZE
  <2>1. b # SlipRxBlock'
    BY <1>2, <1>5, RxAssumption DEF IsQueued
  <2>2. content'[b] = content[b]
    BY <2>1, <1>3
  <2>3. CASE FrameEnds
    <3>1. /\ SlipRxEnable = 1 /\ SlipRxCount > 0 /\ SlipRxBlock \in Blocks
          /\ SlipRxCount \in SLIP_RX_MIN_FRAME .. MEMBLOCK_SIZE
          /\ SlipRxQueue' = Append(SlipRxQueue, SlipRxBlock)
          /\ len' = [len EXCEPT ![SlipRxBlock] = SlipRxCount]
      <4>1. SlipRxEnable = 1 /\ SlipRxBlock \in Blocks
        BY <2>3 DEF FrameEnds, TypeOK, Ctl
      <4>2. SlipRxCount > 0 /\ SlipRxCount \in SLIP_RX_MIN_FRAME .. MEMBLOCK_SIZE
        BY <2>3, RxAssumption DEF FrameEnds, TypeOK
      <4> QED
        BY <2>3, <4>1, <4>2 DEF IsrEnd
    <3>2. Len(content[SlipRxBlock]) = SlipRxCount
      BY <3>1 DEF Stored, CountIsPosition, NothingCounted
    <3>3. IsQueued(b)' <=> IsQueued(b) \/ b = SlipRxBlock
      BY <3>1, QueueAppend DEF TypeOK
    <3>4. CASE b = SlipRxBlock
      BY <3>1, <3>2, <3>4, <2>2 DEF TypeOK
    <3>5. CASE b # SlipRxBlock
      <4>1. Whole(b)
        BY <3>3, <3>5, <1>1, <1>5 DEF Stored, WaitingIsWhole
      <4> QED
        BY <4>1, <3>1, <3>5, <2>2 DEF TypeOK, Whole
    <3> QED
      BY <3>4, <3>5
  <2>4. CASE ~FrameEnds
    <3>1. len' = len /\ SlipRxQueue' = SlipRxQueue
      BY <2>4 DEF IsrEnd
    <3>2. Whole(b)
      BY <3>1, <1>1, <1>5 DEF Stored, WaitingIsWhole, IsQueued
    <3> QED
      BY <3>1, <3>2, <2>2 DEF Whole
  <2> QED
    BY <2>3, <2>4
<1>6. WaitingIsWhole'
  BY <1>5 DEF WaitingIsWhole, Whole
<1> QED
  BY <1>4, <1>6 DEF Stored

\* A byte is counted and stored together, or not at all.
LEMMA ByteStored ==
  ASSUME Owned, Stored, NEW c \in LineBytes, IsrByte(c)
  PROVE  Stored'
<1> USE DEF Owned
<1>0. c \in Bytes /\ Unescaped(c) \in Bytes
  BY RxAssumption DEF Unescaped, Bytes
<1>1. \A x \in Blocks : x # SlipRxBlock => content'[x] = content[x]
  <2>1. content' = content \/ content' = [content EXCEPT ![SlipRxBlock] = Append(@, Unescaped(c))]
    BY DEF IsrByte
  <2> QED
    BY <2>1 DEF TypeOK
<1>2. WaitingIsWhole'
  <2>1. ASSUME NEW b \in Blocks, IsQueued(b)' \/ block' = b PROVE Whole(b)'
    <3>1. Whole(b) /\ b # SlipRxBlock
      BY <2>1, RxAssumption DEF IsrByte, OneOwner, IsQueued, Stored, WaitingIsWhole
    <3> QED
      BY <3>1, <1>1 DEF IsrByte, Whole
  <2> QED
    BY <2>1 DEF WaitingIsWhole
<1>3. NothingCounted'
  BY DEF IsrByte, NothingCounted, Stored, TypeOK
<1>4. CountIsPosition'
  <2> SUFFICES ASSUME SlipRxEnable = 1, "IN_PACKET" \in SlipRxPSW'
               PROVE  Len(content'[SlipRxBlock]) = SlipRxCount'
    BY DEF CountIsPosition, IsrByte
  <2>1. SlipRxBlock \in Blocks /\ content[SlipRxBlock] \in Seq(Bytes)
    BY DEF Ctl, TypeOK
  <2>2. CASE content' = content /\ SlipRxCount' = SlipRxCount /\ "IN_PACKET" \in SlipRxPSW
    BY <2>2 DEF Stored, CountIsPosition
  <2>3. CASE /\ "IN_PACKET" \in SlipRxPSW /\ SlipRxCount' = SlipRxCount + 1
             /\ content' = [content EXCEPT ![SlipRxBlock] = Append(@, Unescaped(c))]
    <3>1. Len(content[SlipRxBlock]) = SlipRxCount
      BY <2>3 DEF Stored, CountIsPosition
    <3>2. content'[SlipRxBlock] = Append(content[SlipRxBlock], Unescaped(c))
      BY <2>1, <2>3 DEF TypeOK
    <3>3. Len(Append(content[SlipRxBlock], Unescaped(c))) = Len(content[SlipRxBlock]) + 1
      BY <2>1, <1>0
    <3> QED
      BY <2>3, <3>1, <3>2, <3>3
  <2> QED
    BY <2>2, <2>3 DEF IsrByte
<1> QED
  BY <1>2, <1>3, <1>4 DEF Stored

\* Only Get and Handle touch a frame that waits.
LEMMA TaskStored ==
  ASSUME Owned, Stored, Get \/ Handle
  PROVE  Stored'
<1> USE DEF Owned
<1>1. CASE Get
  <2>1. UNCHANGED <<content, len, SlipRxBlock, SlipRxEnable, SlipRxPSW, SlipRxCount>>
    BY <1>1 DEF Get, isrVars
  <2>2. \A b \in Blocks : IsQueued(b)' \/ block' = b => IsQueued(b) \/ block = b
    <3>1. CASE SlipRxQueue = <<>>
      BY <1>1, <3>1 DEF Get, IsQueued
    <3>2. CASE SlipRxQueue # <<>>
      <4>1. block' = Head(SlipRxQueue) /\ SlipRxQueue' = Tail(SlipRxQueue) /\ Distinct(SlipRxQueue)
        BY <1>1, <3>2, OneOwnerIs DEF Get, Apart
      <4> QED
        BY <3>2, <4>1, QueueTail DEF TypeOK
    <3> QED
      BY <3>1, <3>2
  <2> QED
    BY <2>1, <2>2 DEF Stored, CountIsPosition, NothingCounted, WaitingIsWhole, Whole
<1>2. CASE Handle
  <2>1. /\ UNCHANGED <<SlipRxQueue, SlipRxBlock, SlipRxEnable, SlipRxPSW, SlipRxCount>>
        /\ block \in Blocks /\ block' = NONE /\ SlipRxBlock # block /\ ~IsQueued(block)
        /\ \A b \in Blocks : b # block => content'[b] = content[b] /\ len'[b] = len[b]
    BY <1>2, RxAssumption DEF Handle, TypeOK, Ctl, OneOwner
  <2>2. CountIsPosition' /\ NothingCounted'
    BY <2>1 DEF Stored, CountIsPosition, NothingCounted, TypeOK, Ctl
  <2>3. WaitingIsWhole'
    <3>1. ASSUME NEW b \in Blocks, IsQueued(b)' \/ block' = b PROVE Whole(b)'
      <4>1. IsQueued(b) /\ b # block
        BY <2>1, <3>1, RxAssumption DEF IsQueued
      <4>2. Whole(b)
        BY <4>1 DEF Stored, WaitingIsWhole
      <4> QED
        BY <4>1, <4>2, <2>1 DEF Whole
    <3> QED
      BY <3>1 DEF WaitingIsWhole
  <2> QED
    BY <2>2, <2>3 DEF Stored
<1> QED
  BY <1>1, <1>2

\* Every step keeps what is stored.
LEMMA NextStored == Owned /\ Owned' /\ Stored /\ [Next]_vars => Stored'
<1> SUFFICES ASSUME Owned, Owned', Stored, [Next]_vars PROVE Stored'
  OBVIOUS
<1>1. CASE IsrEnd
  BY <1>1, EndStored
<1>2. CASE \E c \in LineBytes : IsrByte(c)
  BY <1>2, ByteStored
<1>3. CASE Get \/ Handle
  BY <1>3, TaskStored
<1>4. CASE Wait \/ (\E b \in Blocks : OtherGet(b) \/ OtherFree(b)) \/ UNCHANGED vars
  <2>1. UNCHANGED <<content, len, SlipRxBlock, SlipRxEnable, SlipRxPSW, SlipRxCount, SlipRxQueue, block>>
    BY <1>4 DEF Wait, OtherGet, OtherFree, vars, isrVars
  <2> QED
    BY <2>1 DEF Stored, CountIsPosition, NothingCounted, WaitingIsWhole, Whole, IsQueued
<1> QED
  BY <1>1, <1>2, <1>3, <1>4 DEF Next, Receive, ReceiveTask

-----------------------------------------------------------------------------
(***************************************************************************)
(* The theorems.                                                           *)
(***************************************************************************)
THEOREM Invariance == Spec => []IInv
<1>1. Init => IInv
  BY InitOwned, InitStored DEF IInv
<1>2. IInv /\ [Next]_vars => IInv'
  BY NextOwned, NextStored DEF IInv
<1> QED
  BY <1>1, <1>2, PTL DEF Spec

\* Every reachable state is well typed: the count never passes a block's end.
THEOREM TypeCorrect == Spec => []TypeOK
<1>1. IInv => TypeOK
  BY DEF IInv, Owned
<1> QED
  BY <1>1, Invariance, PTL

\* A block that receives, waits or is handled is nobody else's.
THEOREM BlocksHaveOneOwner == Spec => []OneOwner
<1>1. IInv => OneOwner
  BY DEF IInv, Owned
<1> QED
  BY <1>1, Invariance, PTL

\* *SlipRxPos++ stays inside the block, for blocks of any size.
THEOREM PositionIsCounted == Spec => []CountIsPosition
<1>1. IInv => CountIsPosition
  BY DEF IInv, Stored
<1> QED
  BY <1>1, Invariance, PTL

\* A frame that reaches the task has between SLIP_RX_MIN_FRAME and
\* MEMBLOCK_SIZE bytes and a block of exactly these: SU_ReceiveTask may read
\* a header and a checksum without looking at Len first.
THEOREM FramesAreWhole == Spec => []WaitingIsWhole
<1>1. IInv => WaitingIsWhole
  BY DEF IInv, Stored
<1> QED
  BY <1>1, Invariance, PTL

\* The binary event loses wake-ups and no frame: a queue with a frame in it
\* always has a task that will look.
THEOREM FramesAreAnnounced == Spec => []FrameIsAnnounced
<1>1. Init => FrameIsAnnounced
  BY DEF Init, FrameIsAnnounced
<1>2. FrameIsAnnounced /\ [Next]_vars => FrameIsAnnounced'
  <2> SUFFICES ASSUME FrameIsAnnounced, [Next]_vars PROVE FrameIsAnnounced'
    OBVIOUS
  <2>1. CASE IsrEnd
    BY <2>1 DEF IsrEnd, FrameIsAnnounced
  <2>2. CASE (\E c \in LineBytes : IsrByte(c)) \/ (\E b \in Blocks : OtherGet(b) \/ OtherFree(b)) \/ UNCHANGED vars
    <3>1. UNCHANGED <<SlipRxQueue, slipRxEvent, tpc>>
      BY <2>2 DEF IsrByte, OtherGet, OtherFree, vars
    <3> QED
      BY <3>1 DEF FrameIsAnnounced
  <2>3. CASE Wait
    BY <2>3 DEF Wait, FrameIsAnnounced
  <2>4. CASE Get
    BY <2>4 DEF Get, FrameIsAnnounced
  <2>5. CASE Handle
    BY <2>5 DEF Handle, FrameIsAnnounced
  <2> QED
    BY <2>1, <2>2, <2>3, <2>4, <2>5 DEF Next, Receive, ReceiveTask
<1> QED
  BY <1>1, <1>2, PTL DEF Spec

-----------------------------------------------------------------------------
(***************************************************************************)
(* What a run of bytes means.  SlipCode defines it by two recursions over  *)
(* the positions; that a byte more changes nothing before it, and adds at  *)
(* most one byte to the meaning, takes induction.                          *)
(***************************************************************************)
\* Every set of numbers has a least one.
LEMMA Least ==
  ASSUME NEW T \in SUBSET Nat, T # {}
  PROVE  \E n \in T : \A m \in T : n <= m
<1> DEFINE R == OpToRel(<, Nat)
<1>1. IsWellFoundedOn(R, Nat)
  BY NatLessThanWellFounded
<1>2. \A n, m \in Nat : m < n => <<m, n>> \in R
  BY DEF OpToRel
<1> HIDE DEF R
<1>3. PICK n \in T : \A m \in T : <<m, n>> \notin R
  BY <1>1, WFMin
<1>4. ASSUME NEW m \in T PROVE n <= m
  <2>1. m \in Nat /\ n \in Nat /\ <<m, n>> \notin R
    BY <1>3
  <2>2. ~(m < n)
    BY <1>2, <2>1
  <2> QED
    BY <2>1, <2>2
<1> QED
  BY <1>4

\* A set with 0 in it and the successors of its numbers has them all.
LEMMA Induction ==
  ASSUME NEW S, 0 \in S, \A n \in Nat : n \in S => n + 1 \in S
  PROVE  Nat \subseteq S
<1> SUFFICES ASSUME Nat \ S # {} PROVE FALSE
  OBVIOUS
<1>1. PICK n \in Nat \ S : \A m \in Nat \ S : n <= m
  BY Least
<1>2. n # 0 /\ n - 1 \in Nat
  BY <1>1
<1>3. n - 1 \in S
  BY <1>1, <1>2
<1>4. (n - 1) + 1 = n
  OBVIOUS
<1> QED
  BY <1>1, <1>2, <1>3, <1>4

\* The escapes up to position n.
Escapes(r, n, e) ==
  e = [k \in 0 .. n |-> k > 0 /\ r[k] = "ESC" /\ ~e[k - 1]]

\* Such functions exist, for a run of any length.
LEMMA EscapesExist ==
  ASSUME NEW r
  PROVE  \A n \in Nat : \E e : Escapes(r, n, e)
<1> DEFINE S == {n \in Nat : \E e : Escapes(r, n, e)}
<1>1. 0 \in S
  <2> DEFINE e == [k \in 0 .. 0 |-> FALSE]
  <2>1. Escapes(r, 0, e)
    <3>0. (\A k \in 0 .. 0 : k = 0) /\ 0 \in 0 .. 0 /\ ~(0 > 0)
      OBVIOUS
    <3>1. \A k \in 0 .. 0 : e[k] = (k > 0 /\ r[k] = "ESC" /\ ~e[k - 1])
      BY <3>0
    <3>2. e = [k \in 0 .. 0 |-> e[k]]
      OBVIOUS
    <3> HIDE DEF e
    <3> QED
      BY <3>1, <3>2 DEF Escapes
  <2> QED
    BY <2>1
<1>2. ASSUME NEW n \in Nat, n \in S PROVE n + 1 \in S
  <2>1. PICK e : Escapes(r, n, e)
    BY <1>2
  <2> DEFINE x == r[n + 1] = "ESC" /\ ~e[n]
             g == [k \in 0 .. n + 1 |-> IF k = n + 1 THEN x ELSE e[k]]
  <2>2. \A k \in 0 .. n : e[k] = (k > 0 /\ r[k] = "ESC" /\ ~e[k - 1])
    BY <2>1 DEF Escapes
  <2>3. /\ n + 1 \in 0 .. n + 1 /\ (n + 1) - 1 = n /\ n + 1 > 0 /\ n \in 0 .. n + 1 /\ n # n + 1
        /\ \A k \in 0 .. n + 1 : k = n + 1 \/ k \in 0 .. n
        /\ \A k \in 0 .. n : k # n + 1 /\ k \in 0 .. n + 1
        /\ \A k \in 0 .. n : k > 0 => k - 1 \in 0 .. n
    OBVIOUS
  <2>4. g[n + 1] = x /\ \A k \in 0 .. n : g[k] = e[k]
    BY <2>3
  <2>5. g = [k \in 0 .. n + 1 |-> g[k]]
    OBVIOUS
  <2> HIDE DEF g
  <2>6. \A k \in 0 .. n + 1 : g[k] = (k > 0 /\ r[k] = "ESC" /\ ~g[k - 1])
    BY <2>2, <2>3, <2>4
  <2>7. Escapes(r, n + 1, g)
    BY <2>5, <2>6 DEF Escapes
  <2> QED
    BY <2>7
<1> HIDE DEF S
<1>3. Nat \subseteq S
  BY <1>1, <1>2, Induction
<1> QED
  BY <1>3 DEF S

\* What IsEscape says of each position.
LEMMA IsEscapeIs ==
  ASSUME NEW r \in Seq(Bytes)
  PROVE  LET e == Code!IsEscape(r)
         IN  /\ DOMAIN e = 0 .. Len(r) /\ ~e[0]
             /\ \A k \in 1 .. Len(r) : e[k] <=> r[k] = "ESC" /\ ~e[k - 1]
<1> DEFINE e == Code!IsEscape(r)
<1>1. e = CHOOSE f : f = [k \in 0 .. Len(r) |-> k > 0 /\ r[k] = "ESC" /\ ~f[k - 1]]
  BY DEF Code!IsEscape
<1>2. \E f : Escapes(r, Len(r), f)
  BY EscapesExist
<1> HIDE DEF e
<1>3. Escapes(r, Len(r), e)
  BY <1>1, <1>2 DEF Escapes
<1>4. e = [k \in 0 .. Len(r) |-> k > 0 /\ r[k] = "ESC" /\ ~e[k - 1]]
  BY <1>3 DEF Escapes
<1>5. Len(r) \in Nat /\ 0 \in 0 .. Len(r) /\ \A k \in 1 .. Len(r) : k \in 0 .. Len(r) /\ k > 0
  OBVIOUS
<1>6. DOMAIN e = 0 .. Len(r) /\ \A k \in 0 .. Len(r) : e[k] <=> (k > 0 /\ r[k] = "ESC" /\ ~e[k - 1])
  BY <1>4
<1> QED
  BY <1>5, <1>6 DEF e

\* A byte more changes no escape before it.
LEMMA EscapesAgree ==
  ASSUME NEW r \in Seq(Bytes), NEW c \in Bytes
  PROVE  \A k \in 0 .. Len(r) : Code!IsEscape(Append(r, c))[k] <=> Code!IsEscape(r)[k]
<1> DEFINE n == Len(r)
           a == Append(r, c)
           e == Code!IsEscape(r)
           f == Code!IsEscape(a)
           S == {k \in Nat : k <= n => (f[k] <=> e[k])}
<1>1. n \in Nat /\ a \in Seq(Bytes) /\ Len(a) = n + 1 /\ \A k \in 1 .. n : a[k] = r[k]
  BY AppendProperties
<1>2. ~e[0] /\ ~f[0]
  BY <1>1, IsEscapeIs
<1>3. \A k \in 1 .. n : e[k] <=> r[k] = "ESC" /\ ~e[k - 1]
  BY IsEscapeIs
<1>4. \A k \in 1 .. n + 1 : f[k] <=> a[k] = "ESC" /\ ~f[k - 1]
  BY <1>1, IsEscapeIs
<1> HIDE DEF e, f, a, n
<1>5. 0 \in S
  BY <1>2
<1>6. ASSUME NEW k \in Nat, k \in S PROVE k + 1 \in S
  <2> SUFFICES ASSUME k + 1 <= n PROVE f[k + 1] <=> e[k + 1]
    OBVIOUS
  <2>1. k + 1 \in 1 .. n /\ k + 1 \in 1 .. n + 1 /\ (k + 1) - 1 = k /\ k <= n
    BY <1>1
  <2>2. f[k] <=> e[k]
    BY <1>6, <2>1
  <2> QED
    BY <1>1, <1>3, <1>4, <2>1, <2>2
<1> HIDE DEF S
<1>7. Nat \subseteq S
  BY <1>5, <1>6, Induction
<1> QED
  BY <1>1, <1>7 DEF S, e, f, a, n

\* The meanings up to position n.
Means(r, n, m) ==
  m = [k \in 0 .. n |-> IF k = 0 THEN <<>>
                        ELSE IF Code!IsEscape(r)[k] THEN m[k - 1]
                        ELSE Append(m[k - 1], Code!Unstuffed(r, k))]

\* Such functions exist, too.
LEMMA MeansExist ==
  ASSUME NEW r
  PROVE  \A n \in Nat : \E m : Means(r, n, m)
<1> DEFINE S == {n \in Nat : \E m : Means(r, n, m)}
           E(k) == Code!IsEscape(r)[k]
           U(k) == Code!Unstuffed(r, k)
<1>0. \A n, m : Means(r, n, m) <=>
         m = [k \in 0 .. n |-> IF k = 0 THEN <<>> ELSE IF E(k) THEN m[k - 1] ELSE Append(m[k - 1], U(k))]
  BY DEF Means
<1> HIDE DEF E, U
<1>1. 0 \in S
  <2> DEFINE m == [k \in 0 .. 0 |-> <<>>]
  <2>1. Means(r, 0, m)
    <3>0. (\A k \in 0 .. 0 : k = 0) /\ 0 \in 0 .. 0
      OBVIOUS
    <3>1. \A k \in 0 .. 0 : m[k] = (IF k = 0 THEN <<>> ELSE IF E(k) THEN m[k - 1] ELSE Append(m[k - 1], U(k)))
      BY <3>0
    <3>2. m = [k \in 0 .. 0 |-> m[k]]
      OBVIOUS
    <3> HIDE DEF m
    <3> QED
      BY <1>0, <3>1, <3>2
  <2> QED
    BY <2>1
<1>2. ASSUME NEW n \in Nat, n \in S PROVE n + 1 \in S
  <2>1. PICK m : Means(r, n, m)
    BY <1>2
  <2> DEFINE x == IF E(n + 1) THEN m[n] ELSE Append(m[n], U(n + 1))
             g == [k \in 0 .. n + 1 |-> IF k = n + 1 THEN x ELSE m[k]]
  <2>2. \A k \in 0 .. n : m[k] = (IF k = 0 THEN <<>> ELSE IF E(k) THEN m[k - 1] ELSE Append(m[k - 1], U(k)))
    BY <1>0, <2>1
  <2>3. /\ n + 1 \in 0 .. n + 1 /\ (n + 1) - 1 = n /\ n + 1 > 0 /\ n \in 0 .. n + 1 /\ n # n + 1
        /\ \A k \in 0 .. n + 1 : k = n + 1 \/ k \in 0 .. n
        /\ \A k \in 0 .. n : k # n + 1 /\ k \in 0 .. n + 1
        /\ \A k \in 0 .. n : k = 0 \/ k - 1 \in 0 .. n
        /\ n \in 0 .. n /\ n + 1 # 0
    OBVIOUS
  <2>4. g[n + 1] = x /\ \A k \in 0 .. n : g[k] = m[k]
    BY <2>3
  <2>5. g = [k \in 0 .. n + 1 |-> g[k]]
    OBVIOUS
  <2> HIDE DEF g
  <2>6. \A k \in 0 .. n + 1 : g[k] = (IF k = 0 THEN <<>> ELSE IF E(k) THEN g[k - 1] ELSE Append(g[k - 1], U(k)))
    <3>1. \A k \in 0 .. n : g[k] = (IF k = 0 THEN <<>> ELSE IF E(k) THEN g[k - 1] ELSE Append(g[k - 1], U(k)))
      BY <2>2, <2>3, <2>4
    <3>2. g[n + 1] = (IF n + 1 = 0 THEN <<>> ELSE IF E(n + 1) THEN g[(n + 1) - 1] ELSE Append(g[(n + 1) - 1], U(n + 1)))
      BY <2>3, <2>4
    <3> QED
      BY <2>3, <3>1, <3>2
  <2>7. Means(r, n + 1, g)
    BY <1>0, <2>5, <2>6
  <2> QED
    BY <2>7
<1> HIDE DEF S
<1>3. Nat \subseteq S
  BY <1>1, <1>2, Induction
<1> QED
  BY <1>3 DEF S

\* A meaning is the end of a sequence of meanings, byte by byte.
LEMMA MeaningIs ==
  ASSUME NEW r \in Seq(Bytes)
  PROVE  \E m : /\ Code!Meaning(r) = m[Len(r)] /\ m[0] = <<>>
                /\ \A k \in 1 .. Len(r) :
                     m[k] = IF Code!IsEscape(r)[k] THEN m[k - 1]
                            ELSE Append(m[k - 1], Code!Unstuffed(r, k))
<1> DEFINE E(k) == Code!IsEscape(r)[k]
           U(k) == Code!Unstuffed(r, k)
           P(m) == m = [k \in 0 .. Len(r) |-> IF k = 0 THEN <<>> ELSE IF E(k) THEN m[k - 1] ELSE Append(m[k - 1], U(k))]
           m == CHOOSE m : P(m)
<1>1. Code!Meaning(r) = m[Len(r)]
  BY DEF Code!Meaning
<1>2. Len(r) \in Nat
  OBVIOUS
<1>3. P(m)
  <2>1. \E x : P(x)
    BY <1>2, MeansExist DEF Means
  <2> HIDE DEF P
  <2> QED
    BY <2>1
<1> HIDE DEF m, E, U
<1>4. m = [k \in 0 .. Len(r) |-> IF k = 0 THEN <<>> ELSE IF E(k) THEN m[k - 1] ELSE Append(m[k - 1], U(k))]
  BY <1>3
<1>5. 0 \in 0 .. Len(r) /\ \A k \in 1 .. Len(r) : k \in 0 .. Len(r) /\ k # 0
  BY <1>2
<1>6. \A k \in 0 .. Len(r) : m[k] = IF k = 0 THEN <<>> ELSE IF E(k) THEN m[k - 1] ELSE Append(m[k - 1], U(k))
  BY <1>4
<1>7. m[0] = <<>> /\ \A k \in 1 .. Len(r) : m[k] = IF E(k) THEN m[k - 1] ELSE Append(m[k - 1], U(k))
  BY <1>5, <1>6
<1> QED
  BY <1>1, <1>7 DEF E, U

\* The run ends in an escape: the next byte is escaped.
Pending(r) == Code!IsEscape(r)[Len(r)]

\* What a byte becomes after an escape.
Decoded(c) == IF c = "ESC_END" THEN "END" ELSE IF c = "ESC_ESC" THEN "ESC" ELSE c

\* Unstuffed in these terms.
LEMMA UnstuffedIs ==
  ASSUME NEW r, NEW k
  PROVE  Code!Unstuffed(r, k) = IF Code!IsEscape(r)[k - 1] THEN Decoded(r[k]) ELSE r[k]
  BY DEF Code!Unstuffed, Decoded

\* It is a byte.
LEMMA UnstuffedType ==
  ASSUME NEW r \in Seq(Bytes), NEW k \in 1 .. Len(r)
  PROVE  Code!Unstuffed(r, k) \in Bytes
<1>1. r[k] \in Bytes
  OBVIOUS
<1>2. Decoded(r[k]) \in Bytes
  BY <1>1 DEF Decoded, Bytes
<1> QED
  BY <1>1, <1>2, UnstuffedIs

\* Nothing means nothing.
LEMMA MeaningOfNothing == Code!Meaning(<<>>) = <<>> /\ ~Pending(<<>>)
<1>1. <<>> \in Seq(Bytes) /\ Len(<<>>) = 0
  OBVIOUS
<1> QED
  BY <1>1, MeaningIs, IsEscapeIs DEF Pending

\* One byte more on the line: an ESC that is not escaped means nothing yet,
\* any other byte is one byte of the frame.
LEMMA MeaningNext ==
  ASSUME NEW r \in Seq(Bytes), NEW c \in Bytes
  PROVE  LET a == Append(r, c)
         IN  /\ a \in Seq(Bytes) /\ Code!Meaning(r) \in Seq(Bytes)
             /\ Pending(a) <=> c = "ESC" /\ ~Pending(r)
             /\ c = "ESC" /\ ~Pending(r) => Code!Meaning(a) = Code!Meaning(r)
             /\ ~(c = "ESC" /\ ~Pending(r)) =>
                  Code!Meaning(a) = Append(Code!Meaning(r), IF Pending(r) THEN Decoded(c) ELSE c)
<1> DEFINE n == Len(r)
           a == Append(r, c)
           e == Code!IsEscape(r)
           f == Code!IsEscape(a)
           u(k) == Code!Unstuffed(r, k)
           v(k) == Code!Unstuffed(a, k)
<1>1. /\ n \in Nat /\ a \in Seq(Bytes) /\ Len(a) = n + 1 /\ a[n + 1] = c
      /\ \A k \in 1 .. n : a[k] = r[k]
  BY AppendProperties
<1>2. \A k \in 0 .. n : f[k] <=> e[k]
  BY EscapesAgree
<1>3. \A k \in 1 .. n : v(k) = u(k)
  <2>1. \A k \in 1 .. n : k - 1 \in 0 .. n
    BY <1>1
  <2> QED
    BY <1>1, <1>2, <2>1, UnstuffedIs
<1>4. \A k \in 1 .. n : u(k) \in Bytes
  BY UnstuffedType
<1>5. v(n + 1) = IF e[n] THEN Decoded(c) ELSE c
  <2>1. (n + 1) - 1 = n /\ n \in 0 .. n
    BY <1>1
  <2>2. v(n + 1) = IF f[(n + 1) - 1] THEN Decoded(a[n + 1]) ELSE a[n + 1]
    BY UnstuffedIs
  <2> QED
    BY <1>1, <1>2, <2>1, <2>2
<1>6. f[n + 1] <=> c = "ESC" /\ ~e[n]
  <2>1. n + 1 \in 1 .. n + 1 /\ (n + 1) - 1 = n /\ n \in 0 .. n
    BY <1>1
  <2>2. f[n + 1] <=> a[n + 1] = "ESC" /\ ~f[(n + 1) - 1]
    BY <1>1, <2>1, IsEscapeIs
  <2> QED
    BY <1>1, <1>2, <2>1, <2>2
<1>7. PICK m : /\ Code!Meaning(r) = m[n] /\ m[0] = <<>>
               /\ \A k \in 1 .. n : m[k] = IF e[k] THEN m[k - 1] ELSE Append(m[k - 1], u(k))
  BY MeaningIs
<1>8. PICK h : /\ Code!Meaning(a) = h[n + 1] /\ h[0] = <<>>
               /\ \A k \in 1 .. n + 1 : h[k] = IF f[k] THEN h[k - 1] ELSE Append(h[k - 1], v(k))
  BY <1>1, MeaningIs
<1>9. Pending(r) = e[n] /\ Pending(a) = f[n + 1]
  BY <1>1 DEF Pending
<1> HIDE DEF e, f, u, v, a, n
<1>10. \A k \in 0 .. n : h[k] = m[k] /\ m[k] \in Seq(Bytes)
  <2> DEFINE S == {k \in Nat : k <= n => h[k] = m[k] /\ m[k] \in Seq(Bytes)}
  <2>1. 0 \in S
    <3>1. m[0] = <<>> /\ h[0] = <<>> /\ <<>> \in Seq(Bytes)
      BY <1>7, <1>8
    <3>2. h[0] = m[0] /\ m[0] \in Seq(Bytes)
      BY <3>1
    <3> QED
      BY <3>2
  <2>2. ASSUME NEW k \in Nat, k \in S PROVE k + 1 \in S
    <3> SUFFICES ASSUME k + 1 <= n PROVE h[k + 1] = m[k + 1] /\ m[k + 1] \in Seq(Bytes)
      OBVIOUS
    <3>1. k + 1 \in 1 .. n /\ k + 1 \in 0 .. n /\ k + 1 \in 1 .. n + 1 /\ (k + 1) - 1 = k /\ k <= n
      BY <1>1
    <3>2. h[k] = m[k] /\ m[k] \in Seq(Bytes)
      BY <2>2, <3>1
    <3>3. m[k + 1] = IF e[k + 1] THEN m[k] ELSE Append(m[k], u(k + 1))
      BY <1>7, <3>1
    <3>4. h[k + 1] = IF f[k + 1] THEN h[k] ELSE Append(h[k], v(k + 1))
      BY <1>8, <3>1
    <3>5. (f[k + 1] <=> e[k + 1]) /\ v(k + 1) = u(k + 1) /\ u(k + 1) \in Bytes
      BY <1>2, <1>3, <1>4, <3>1
    <3> QED
      BY <3>2, <3>3, <3>4, <3>5
  <2> HIDE DEF S
  <2>3. Nat \subseteq S
    BY <2>1, <2>2, Induction
  <2> QED
    BY <1>1, <2>3 DEF S
<1>11. Code!Meaning(r) \in Seq(Bytes) /\ h[n] = Code!Meaning(r)
  BY <1>1, <1>7, <1>10
<1>12. Code!Meaning(a) = IF f[n + 1] THEN h[n] ELSE Append(h[n], v(n + 1))
  <2>1. n + 1 \in 1 .. n + 1 /\ (n + 1) - 1 = n
    BY <1>1
  <2> QED
    BY <1>8, <2>1
<1>13. Pending(a) <=> c = "ESC" /\ ~Pending(r)
  BY <1>6, <1>9
<1>14. c = "ESC" /\ ~Pending(r) => Code!Meaning(a) = Code!Meaning(r)
  BY <1>6, <1>9, <1>11, <1>12
<1>15. ~(c = "ESC" /\ ~Pending(r)) =>
         Code!Meaning(a) = Append(Code!Meaning(r), IF Pending(r) THEN Decoded(c) ELSE c)
  BY <1>5, <1>6, <1>9, <1>11, <1>12
<1> QED
  BY <1>1, <1>11, <1>13, <1>14, <1>15 DEF a

-----------------------------------------------------------------------------
(***************************************************************************)
(* The handler's reading: its state between two bytes is the meaning of    *)
(* the bytes since the last delimiter.                                     *)
(***************************************************************************)
\* Inside a packet the count and the block hold what the bytes since the
\* delimiter mean; a frame that was given up is too long whatever follows.
Following ==
  "IN_PACKET" \in SlipRxPSW =>
    /\ "ESCAPE" \in SlipRxPSW <=> Pending(raw)
    /\ SlipRxCount = Len(Code!Meaning(raw))
    /\ SlipRxEnable = 1 => content[SlipRxBlock] = Code!Meaning(raw)
GivenUp ==
  "IN_PACKET" \notin SlipRxPSW /\ raw # NONE => Len(Code!Meaning(raw)) > MEMBLOCK_SIZE
WaitingWasHeard == \A b \in Blocks : Waiting(b) => content[b] = Code!Meaning(heard[b])

Understood == Following /\ GivenUp /\ WaitingWasHeard

\* Nothing was heard yet.
LEMMA InitUnderstood == Init => Understood
<1> SUFFICES ASSUME Init PROVE Understood
  OBVIOUS
<1>1. SlipRxPSW = {} /\ raw = NONE /\ SlipRxQueue = <<>> /\ block = NONE
  BY DEF Init
<1>2. \A b \in Blocks : ~Waiting(b)
  BY <1>1, RxAssumption DEF Waiting, IsQueued
<1> QED
  BY <1>1, <1>2 DEF Understood, Following, GivenUp, WaitingWasHeard

\* A delimiter: what was counted and stored is the meaning of what was
\* heard, and the next frame begins with neither.
LEMMA EndUnderstood ==
  ASSUME IInv, Owned', Understood, IsrEnd
  PROVE  Understood'
<1> USE DEF IInv, Owned
<1>1. /\ SlipRxPSW' = {"IN_PACKET"} /\ SlipRxCount' = 0 /\ content' = Rewound(SlipRxBlock')
      /\ raw' = <<>> /\ UNCHANGED block
  BY DEF IsrEnd
<1>2. /\ SlipRxBlock' \in Blocks \cup {NONE} /\ (SlipRxEnable' = 1 <=> SlipRxBlock' # NONE)
      /\ SlipRxBlock' # NONE => SlipRxBlock' # block' /\ ~(\E k \in DOMAIN SlipRxQueue' : SlipRxQueue'[k] = SlipRxBlock')
  BY DEF TypeOK, Ctl, OneOwner, IsQueued
<1>3. /\ SlipRxBlock' # NONE => content'[SlipRxBlock'] = <<>>
      /\ \A x \in Blocks : x # SlipRxBlock' => content'[x] = content[x]
  BY <1>1, <1>2, RewoundGives
<1>4. Following' /\ GivenUp'
  <2>1. ~Pending(<<>>) /\ Code!Meaning(<<>>) = <<>> /\ Len(<<>>) = 0
    BY MeaningOfNothing
  <2>2. ~Pending(raw)' /\ Code!Meaning(raw)' = <<>>
    BY <1>1, <2>1
  <2> QED
    BY <1>1, <1>2, <1>3, <2>1, <2>2 DEF Following, GivenUp
<1>5. ASSUME NEW b \in Blocks, IsQueued(b)' \/ block' = b
      PROVE  content'[b] = Code!Meaning(heard'[b])
  <2>1. b # SlipRxBlock'
    BY <1>2, <1>5, RxAssumption DEF IsQueued
  <2>2. content'[b] = content[b]
    BY <2>1, <1>3
  <2>3. CASE FrameEnds
    <3>1. /\ SlipRxEnable = 1 /\ SlipRxCount > 0 /\ SlipRxBlock \in Blocks
          /\ SlipRxQueue' = Append(SlipRxQueue, SlipRxBlock)
          /\ heard' = [heard EXCEPT ![SlipRxBlock] = raw]
      <4>1. SlipRxEnable = 1 /\ SlipRxBlock \in Blocks
        BY <2>3 DEF FrameEnds, TypeOK, Ctl
      <4>2. SlipRxCount > 0
        BY <2>3, RxAssumption DEF FrameEnds, TypeOK
      <4> QED
        BY <2>3, <4>1, <4>2 DEF IsrEnd
    <3>2. content[SlipRxBlock] = Code!Meaning(raw)
      BY <3>1 DEF Stored, NothingCounted, Understood, Following
    <3>3. IsQueued(b)' <=> IsQueued(b) \/ b = SlipRxBlock
      BY <3>1, QueueAppend DEF TypeOK
    <3>4. CASE b = SlipRxBlock
      BY <3>1, <3>2, <3>4, <2>2 DEF TypeOK
    <3>5. CASE b # SlipRxBlock
      <4>1. content[b] = Code!Meaning(heard[b])
        BY <3>3, <3>5, <1>1, <1>5 DEF Understood, WaitingWasHeard, Waiting
      <4> QED
        BY <4>1, <3>1, <3>5, <2>2 DEF TypeOK
    <3> QED
      BY <3>4, <3>5
  <2>4. CASE ~FrameEnds
    <3>1. heard' = heard /\ SlipRxQueue' = SlipRxQueue
      BY <2>4 DEF IsrEnd
    <3>2. content[b] = Code!Meaning(heard[b])
      BY <3>1, <1>1, <1>5 DEF Understood, WaitingWasHeard, Waiting, IsQueued
    <3> QED
      BY <3>1, <3>2, <2>2
  <2> QED
    BY <2>3, <2>4
<1>6. WaitingWasHeard'
  BY <1>5 DEF WaitingWasHeard, Waiting
<1> QED
  BY <1>4, <1>6 DEF Understood

\* Every byte keeps the handler's reading and the meaning together.
LEMMA ByteUnderstood ==
  ASSUME IInv, Understood, NEW c \in LineBytes, IsrByte(c)
  PROVE  Understood'
<1> USE DEF IInv, Owned
<1>0. c \in Bytes /\ Unescaped(c) \in Bytes
  BY RxAssumption DEF Unescaped, Bytes
<1>1. \A x \in Blocks : x # SlipRxBlock => content'[x] = content[x]
  <2>1. content' = content \/ content' = [content EXCEPT ![SlipRxBlock] = Append(@, Unescaped(c))]
    BY DEF IsrByte
  <2> QED
    BY <2>1 DEF TypeOK
<1>2. WaitingWasHeard'
  <2>1. ASSUME NEW b \in Blocks, Waiting(b)' PROVE content'[b] = Code!Meaning(heard'[b])
    <3>1. Waiting(b) /\ b # SlipRxBlock /\ heard' = heard
      BY <2>1, RxAssumption DEF IsrByte, OneOwner, IsQueued, Waiting
    <3> QED
      BY <3>1, <1>1 DEF Understood, WaitingWasHeard
  <2> QED
    BY <2>1 DEF WaitingWasHeard
<1>3. CASE raw = NONE
  <2>1. "IN_PACKET" \notin SlipRxPSW
    BY <1>3, RxAssumption DEF Ctl
  <2>2. SlipRxPSW' = SlipRxPSW /\ raw' = NONE
    BY <1>3, <2>1 DEF IsrByte
  <2> QED
    BY <1>2, <2>1, <2>2 DEF Understood, Following, GivenUp
<1>4. CASE raw # NONE
  <2> DEFINE p == Pending(raw)
             m == Code!Meaning(raw)
             x == IF p THEN Decoded(c) ELSE c
  <2>1. raw \in Seq(Bytes) /\ raw' = Append(raw, c)
    BY <1>4 DEF TypeOK, IsrByte
  <2>2. /\ m \in Seq(Bytes)
        /\ Pending(raw') <=> c = "ESC" /\ ~p
        /\ c = "ESC" /\ ~p => Code!Meaning(raw') = m
        /\ ~(c = "ESC" /\ ~p) => Code!Meaning(raw') = Append(m, x)
    BY <1>0, <2>1, MeaningNext
  <2>3. x \in Bytes /\ Len(m) \in Nat /\ Len(Append(m, x)) = Len(m) + 1 /\ MEMBLOCK_SIZE \in Nat
    <3>1. x \in Bytes
      BY <1>0 DEF Decoded, Bytes
    <3> HIDE DEF x, m
    <3> QED
      BY <2>2, <3>1, RxAssumption
  <2>4. CASE "IN_PACKET" \notin SlipRxPSW
    <3>1. SlipRxPSW' = SlipRxPSW
      BY <2>4 DEF IsrByte
    <3>2. Len(m) > MEMBLOCK_SIZE
      BY <1>4, <2>4 DEF Understood, GivenUp
    <3>3. Len(Code!Meaning(raw')) > MEMBLOCK_SIZE
      <4> HIDE DEF m, x
      <4> QED
        BY <2>2, <2>3, <3>2
    <3> QED
      BY <1>2, <2>4, <3>1, <3>3 DEF Understood, Following, GivenUp
  <2>5. CASE "IN_PACKET" \in SlipRxPSW
    <3>1. ("ESCAPE" \in SlipRxPSW <=> p) /\ SlipRxCount = Len(m)
          /\ (SlipRxEnable = 1 => content[SlipRxBlock] = m)
      BY <2>5 DEF Understood, Following
    <3>2. ~(c = "ESC" /\ ~p) => Unescaped(c) = x
      BY <3>1 DEF Unescaped, Decoded
    <3>3. SlipRxEnable' = SlipRxEnable /\ SlipRxBlock' = SlipRxBlock
      BY DEF IsrByte
    <3>4. SlipRxEnable = 1 => SlipRxBlock \in Blocks
      BY DEF TypeOK, Ctl
    <3>5. CASE c = "ESC" /\ ~p
      <4>1. SlipRxPSW' = SlipRxPSW \cup {"ESCAPE"} /\ UNCHANGED <<SlipRxCount, content>>
        BY <2>5, <3>1, <3>5 DEF IsrByte
      <4>2. Code!Meaning(raw') = m /\ Pending(raw')
        BY <2>2, <3>5
      <4>3. Following' /\ GivenUp'
        BY <2>5, <3>1, <3>3, <4>1, <4>2 DEF Following, GivenUp
      <4> QED
        BY <1>2, <4>3 DEF Understood
    <3>6. CASE ~(c = "ESC" /\ ~p) /\ SlipRxCount < MEMBLOCK_SIZE
      <4>1. /\ SlipRxPSW' = SlipRxPSW \ {"ESCAPE"} /\ SlipRxCount' = SlipRxCount + 1
            /\ SlipRxEnable = 1 => content' = [content EXCEPT ![SlipRxBlock] = Append(@, Unescaped(c))]
        <5>1. ~("ESCAPE" \notin SlipRxPSW /\ c = "ESC") /\ ~(SlipRxCount >= MEMBLOCK_SIZE)
          BY <3>1, <3>6, RxAssumption DEF TypeOK
        <5>2. /\ SlipRxPSW' = SlipRxPSW \ {"ESCAPE"} /\ SlipRxCount' = SlipRxCount + 1
              /\ content' = IF SlipRxEnable = 1
                              THEN [content EXCEPT ![SlipRxBlock] = Append(@, Unescaped(c))]
                              ELSE content
          BY <2>5, <5>1 DEF IsrByte
        <5> QED
          BY <5>2
      <4>2. Code!Meaning(raw') = Append(m, x) /\ ~Pending(raw')
        BY <2>2, <3>6
      <4>3. SlipRxEnable = 1 => content'[SlipRxBlock] = Append(m, x)
        BY <3>1, <3>2, <3>4, <3>6, <4>1 DEF TypeOK
      <4>4. SlipRxCount' = Len(Code!Meaning(raw'))
        <5> HIDE DEF m, x
        <5> QED
          BY <2>3, <3>1, <4>1, <4>2
      <4>5. "IN_PACKET" \in SlipRxPSW' /\ "ESCAPE" \notin SlipRxPSW'
        BY <2>5, <4>1
      <4>6. Following' /\ GivenUp'
        BY <3>3, <4>2, <4>3, <4>4, <4>5 DEF Following, GivenUp
      <4> QED
        BY <1>2, <4>6 DEF Understood
    <3>7. CASE ~(c = "ESC" /\ ~p) /\ SlipRxCount >= MEMBLOCK_SIZE
      <4>1. SlipRxPSW' = {}
        BY <2>3, <2>5, <3>1, <3>7 DEF IsrByte
      <4>2. Len(Code!Meaning(raw')) > MEMBLOCK_SIZE
        <5>1. Code!Meaning(raw') = Append(m, x)
          BY <2>2, <3>7
        <5> HIDE DEF m, x
        <5> QED
          BY <2>3, <3>1, <3>7, <5>1
      <4>3. Following' /\ GivenUp'
        BY <4>1, <4>2 DEF Following, GivenUp
      <4> QED
        BY <1>2, <4>3 DEF Understood
    <3>8. SlipRxCount < MEMBLOCK_SIZE \/ SlipRxCount >= MEMBLOCK_SIZE
      BY RxAssumption DEF TypeOK
    <3> QED
      BY <3>5, <3>6, <3>7, <3>8
  <2> QED
    BY <2>4, <2>5
<1> QED
  BY <1>3, <1>4

\* Only Handle changes what a block was heard as, and its block waits no more.
LEMMA TaskUnderstood ==
  ASSUME IInv, Understood, Get \/ Handle
  PROVE  Understood'
<1> USE DEF IInv, Owned
<1>1. CASE Get
  <2>1. UNCHANGED <<content, heard, raw, SlipRxBlock, SlipRxEnable, SlipRxPSW, SlipRxCount>>
    BY <1>1 DEF Get, isrVars
  <2>2. \A b \in Blocks : IsQueued(b)' \/ block' = b => IsQueued(b) \/ block = b
    <3>1. CASE SlipRxQueue = <<>>
      BY <1>1, <3>1 DEF Get, IsQueued
    <3>2. CASE SlipRxQueue # <<>>
      <4>1. block' = Head(SlipRxQueue) /\ SlipRxQueue' = Tail(SlipRxQueue) /\ Distinct(SlipRxQueue)
        BY <1>1, <3>2, OneOwnerIs DEF Get, Apart
      <4> QED
        BY <3>2, <4>1, QueueTail DEF TypeOK
    <3> QED
      BY <3>1, <3>2
  <2> QED
    BY <2>1, <2>2 DEF Understood, Following, GivenUp, WaitingWasHeard, Waiting
<1>2. CASE Handle
  <2>1. /\ UNCHANGED <<SlipRxQueue, SlipRxBlock, SlipRxEnable, SlipRxPSW, SlipRxCount, raw>>
        /\ block \in Blocks /\ block' = NONE /\ SlipRxBlock # block /\ ~IsQueued(block)
        /\ \A b \in Blocks : b # block => content'[b] = content[b] /\ heard'[b] = heard[b]
    BY <1>2, RxAssumption DEF Handle, TypeOK, Ctl, OneOwner
  <2>2. Following' /\ GivenUp'
    BY <2>1 DEF Understood, Following, GivenUp, TypeOK, Ctl
  <2>3. WaitingWasHeard'
    <3>1. ASSUME NEW b \in Blocks, Waiting(b)' PROVE content'[b] = Code!Meaning(heard'[b])
      <4>1. IsQueued(b) /\ b # block
        BY <2>1, <3>1, RxAssumption DEF IsQueued, Waiting
      <4>2. content[b] = Code!Meaning(heard[b])
        BY <4>1 DEF Understood, WaitingWasHeard, Waiting
      <4> QED
        BY <4>1, <4>2, <2>1
    <3> QED
      BY <3>1 DEF WaitingWasHeard
  <2> QED
    BY <2>2, <2>3 DEF Understood
<1> QED
  BY <1>1, <1>2

\* Every step keeps what was read and what was meant the same.
LEMMA NextUnderstood == IInv /\ Owned' /\ Understood /\ [Next]_vars => Understood'
<1> SUFFICES ASSUME IInv, Owned', Understood, [Next]_vars PROVE Understood'
  OBVIOUS
<1>1. CASE IsrEnd
  BY <1>1, EndUnderstood
<1>2. CASE \E c \in LineBytes : IsrByte(c)
  BY <1>2, ByteUnderstood
<1>3. CASE Get \/ Handle
  BY <1>3, TaskUnderstood
<1>4. CASE Wait \/ (\E b \in Blocks : OtherGet(b) \/ OtherFree(b)) \/ UNCHANGED vars
  <2>1. UNCHANGED <<content, heard, raw, SlipRxBlock, SlipRxEnable, SlipRxPSW, SlipRxCount, SlipRxQueue, block>>
    BY <1>4 DEF Wait, OtherGet, OtherFree, vars, isrVars
  <2> QED
    BY <2>1 DEF Understood, Following, GivenUp, WaitingWasHeard, Waiting, IsQueued
<1> QED
  BY <1>1, <1>2, <1>3, <1>4 DEF Next, Receive, ReceiveTask

\* Understood holds in every reachable state.
THEOREM Reading == Spec => []Understood
<1>1. IInv => Owned
  BY DEF IInv
<1> QED
  BY <1>1, InitUnderstood, NextUnderstood, Invariance, PTL DEF Spec

\* What the task gets is what the line said between two delimiters, whole.
THEOREM TaskGetsWhatWasHeard == Spec => []FramesAreWhatWasHeard
<1>1. IInv /\ Understood => FramesAreWhatWasHeard
  BY DEF IInv, Stored, WaitingIsWhole, Whole, Understood, WaitingWasHeard, FramesAreWhatWasHeard, Waiting
<1> QED
  BY <1>1, Invariance, Reading, PTL

\* A frame that fits in a block is queued at its closing delimiter whenever
\* the handler has a block, after whatever garbage came before it.
THEOREM FittingFramesAreQueued == Spec => FittingFrameIsQueued
<1> DEFINE Queued == raw' = <<>> /\ raw # <<>> /\ Fits /\ SlipRxEnable = 1
                       => SlipRxQueue' = Append(SlipRxQueue, SlipRxBlock)
<1>1. IInv /\ Understood /\ [Next]_vars => [Queued]_vars
  <2> SUFFICES ASSUME IInv, Understood, Next, raw' = <<>>, raw # <<>>, Fits, SlipRxEnable = 1
               PROVE  SlipRxQueue' = Append(SlipRxQueue, SlipRxBlock)
    OBVIOUS
  <2>1. raw \in Seq(Bytes)
    BY DEF Fits, IInv, Owned, TypeOK
  <2>2. IsrEnd
    <3>1. ASSUME NEW c \in LineBytes, IsrByte(c) PROVE FALSE
      <4>1. c \in Bytes /\ raw' = Append(raw, c)
        BY <3>1, RxAssumption DEF IsrByte, Fits
      <4>2. Append(raw, c) # <<>>
        BY <2>1, <4>1
      <4> QED
        BY <4>1, <4>2
    <3>2. CASE ReceiveTask \/ \E b \in Blocks : OtherGet(b) \/ OtherFree(b)
      BY <3>2 DEF ReceiveTask, Wait, Get, Handle, OtherGet, OtherFree, isrVars
    <3> QED
      BY <3>1, <3>2 DEF Next, Receive
  <2>3. "IN_PACKET" \in SlipRxPSW
    <3>1. Len(Code!Meaning(raw)) \in Nat
      BY RxAssumption DEF Fits
    <3> QED
      BY <3>1, RxAssumption DEF Understood, GivenUp, Fits
  <2>4. SlipRxCount >= SLIP_RX_MIN_FRAME
    BY <2>3, RxAssumption DEF Understood, Following, Fits
  <2> QED
    BY <2>2, <2>4 DEF IsrEnd, FrameEnds
<1> QED
  BY <1>1, Invariance, Reading, PTL DEF Spec, FittingFrameIsQueued
=============================================================================
