---------------------------- MODULE SlipTxProofs ----------------------------
(***************************************************************************)
(* The hand-over of the transmitter between task and handler, and what it   *)
(* puts on the line, for any number of senders, blocks and frames.          *)
(*                                                                          *)
(* OneOwner is not inductive: that the task may load a frame follows from   *)
(* what READY means (the handler has left, DR has drained), and that the    *)
(* handler may not run before Enable from what the task has done since.     *)
(***************************************************************************)
EXTENDS SlipTx, FiniteSetTheorems, SequenceTheorems, WellFoundedInduction, TLAPS

Ctl ==
  /\ tpc \in {"wait", "check", "get", "load", "start", "enable"}
  /\ SlipTxPSW \in {"READY", "NOT_READY", "ESCAPE", "END"}
  /\ TXEIE \in {0, 1}
  /\ SlipTxPSW = "READY" => TXEIE = 0 /\ DR = NONE
  /\ TXEIE = 1 => tpc \in {"wait", "check"}
  /\ tpc \in {"get", "load"} => SlipTxPSW = "READY"
  /\ tpc \in {"start", "enable"} => TXEIE = 0 /\ SlipTxPSW = "NOT_READY"
  /\ tpc = "start" => DR = NONE

\* The transmitter starts idle.
THEOREM InitCtl == Init => Ctl
BY DEF Init, Ctl

\* Nothing the senders do touches what task and handler share.
LEMMA SenderCtl ==
  ASSUME Ctl, NEW s \in Senders, Sender(s) \/ (\E b \in Blocks, f \in Frames : Send(s, b, f))
  PROVE  Ctl'
BY DEF Ctl, Sender, Send, Insert, Signal, isrVars

\* Every access of the transmit task leaves the transmitter to one of the two.
LEMMA TaskCtl == ASSUME Ctl, TransmitTask PROVE Ctl'
<1>1. CASE Wait
  BY <1>1 DEF Ctl, Wait, isrVars
<1>2. CASE Check
  BY <1>2 DEF Ctl, Check, isrVars
<1>3. CASE Get
  BY <1>3 DEF Ctl, Get, isrVars
<1>4. CASE Load
  BY <1>4 DEF Ctl, Load
<1>5. CASE Start
  BY <1>5 DEF Ctl, Start, isrVars
<1>6. CASE Enable
  BY <1>6 DEF Ctl, Enable, isrVars
<1> QED
  BY <1>1, <1>2, <1>3, <1>4, <1>5, <1>6 DEF TransmitTask

\* So does every run of the handler; it gives up the line only when DR is empty.
LEMMA IsrCtl == ASSUME Ctl, Isr PROVE Ctl'
<1>1. CASE IsrEscaped
  BY <1>1 DEF Ctl, IsrEscaped, TxInterrupt
<1>2. CASE IsrDone
  BY <1>2 DEF Ctl, IsrDone, TxInterrupt
<1>3. CASE IsrByte
  <2>1. SlipTxPSW' \in {"ESCAPE", SlipTxPSW} /\ UNCHANGED <<tpc, TXEIE>>
    BY <1>3 DEF IsrByte
  <2>2. TXEIE = 1
    BY <1>3 DEF IsrByte, TxInterrupt
  <2> QED
    BY <2>1, <2>2 DEF Ctl
<1>4. CASE IsrEnd
  BY <1>4 DEF Ctl, IsrEnd, TxInterrupt
<1> QED
  BY <1>1, <1>2, <1>3, <1>4 DEF Isr

\* The control invariant is preserved by every step.
THEOREM NextCtl == Ctl /\ [Next]_vars => Ctl'
<1> SUFFICES ASSUME Ctl, [Next]_vars PROVE Ctl'
  OBVIOUS
<1>1. CASE \E s \in Senders : Sender(s) \/ \E b \in Blocks, f \in Frames : Send(s, b, f)
  BY <1>1, SenderCtl
<1>2. CASE TransmitTask
  BY <1>2, TaskCtl
<1>3. CASE Isr
  BY <1>3, IsrCtl
<1>4. CASE Shift
  BY <1>4 DEF Ctl, Shift, isrVars
<1>5. CASE UNCHANGED vars
  BY <1>5 DEF Ctl, vars, isrVars
<1> QED
  BY <1>1, <1>2, <1>3, <1>4, <1>5 DEF Next

\* Ctl holds in every reachable state.
THEOREM Control == Spec => []Ctl
BY InitCtl, NextCtl, PTL DEF Spec

\* The task and the handler never own the transmitter at the same time.
THEOREM ExclusiveTransmitter == Spec => []OneOwner
<1>1. Ctl => OneOwner
  BY DEF Ctl, OneOwner
<1> QED
  BY <1>1, Control, PTL

\* Neither of them ever writes over a byte that is still in DR.
THEOREM NoByteLost == Spec => NoByteReplaced
<1> DEFINE Kept == DR # NONE => ~Start /\ (DR' = DR \/ (DR' = NONE /\ line' = Append(line, DR)))
<1>1. Ctl /\ [Next]_vars => [Kept]_vars
  <2> SUFFICES ASSUME Ctl, Next, DR # NONE
               PROVE  ~Start /\ (DR' = DR \/ (DR' = NONE /\ line' = Append(line, DR)))
    OBVIOUS
  <2>1. ~Start
    BY DEF Ctl, Start
  <2>2. ~Isr
    BY DEF Isr, IsrEscaped, IsrDone, IsrByte, IsrEnd, TxInterrupt
  <2>3. CASE Shift
    BY <2>1, <2>3 DEF Shift
  <2>4. CASE TransmitTask
    BY <2>1, <2>4 DEF TransmitTask, Wait, Check, Get, Load, Enable
  <2>5. CASE \E s \in Senders : Sender(s) \/ \E b \in Blocks, f \in Frames : Send(s, b, f)
    BY <2>1, <2>5 DEF Sender, Send, Insert, Signal
  <2> QED
    BY <2>1, <2>2, <2>3, <2>4, <2>5 DEF Next
<1> QED
  BY <1>1, Control, PTL DEF Spec, NoByteReplaced

-----------------------------------------------------------------------------
(***************************************************************************)
(* Where a block is.  Every block is in exactly one of five places, and     *)
(* every step moves at most one of them to the next place.                  *)
(***************************************************************************)
Held(b) == \E s \in Senders : holds[s] = b

OwnType ==
  /\ free \subseteq Blocks
  /\ holds \in [Senders -> Blocks \cup {NONE}]
  /\ spc \in [Senders -> {"idle", "insert", "signal"}]
  /\ SlipTxQueue \in Seq(Blocks)
  /\ block \in Blocks \cup {NONE}
  /\ SlipTxBlock \in Blocks \cup {NONE}

Pointers ==
  /\ \A s \in Senders : spc[s] = "insert" <=> holds[s] # NONE
  /\ tpc \in {"load", "start", "enable"} <=> block # NONE
  /\ tpc \in {"start", "enable"} => SlipTxBlock = block
  /\ TXEIE = 1 => SlipTxBlock # NONE
  /\ \A r, s \in Senders : holds[s] # NONE /\ holds[r] = holds[s] => r = s
  /\ \A j, k \in 1 .. Len(SlipTxQueue) : SlipTxQueue[j] = SlipTxQueue[k] => j = k

OnePlace(b) ==
  /\ b \in free \/ Held(b) \/ IsQueued(b) \/ block = b \/ InFlight(b)
  /\ b \in free => ~Held(b) /\ ~IsQueued(b) /\ block # b /\ ~InFlight(b)
  /\ Held(b) => ~IsQueued(b) /\ block # b /\ ~InFlight(b)
  /\ IsQueued(b) => block # b /\ ~InFlight(b)
  /\ block = b => ~InFlight(b)

Own == OwnType /\ Pointers /\ \A b \in Blocks : OnePlace(b)

\* What an insertion at the end does to membership.
LEMMA QueuedAfterAppend ==
  ASSUME NEW x \in Blocks, SlipTxQueue \in Seq(Blocks), SlipTxQueue' = Append(SlipTxQueue, x)
  PROVE  \A b \in Blocks : IsQueued(b)' <=> IsQueued(b) \/ b = x
<1>1. Len(SlipTxQueue') = Len(SlipTxQueue) + 1 /\ SlipTxQueue' \in Seq(Blocks)
  OBVIOUS
<1>2. SlipTxQueue'[Len(SlipTxQueue) + 1] = x
  OBVIOUS
<1>3. \A k \in 1 .. Len(SlipTxQueue) : SlipTxQueue'[k] = SlipTxQueue[k]
  OBVIOUS
<1>4. DOMAIN SlipTxQueue = 1 .. Len(SlipTxQueue) /\ DOMAIN SlipTxQueue' = 1 .. (Len(SlipTxQueue) + 1)
  BY <1>1
<1> QED
  BY <1>1, <1>2, <1>3, <1>4 DEF IsQueued

\* What a removal at the front does to membership, blocks being queued once.
LEMMA QueuedAfterTail ==
  ASSUME SlipTxQueue \in Seq(Blocks), SlipTxQueue # <<>>, SlipTxQueue' = Tail(SlipTxQueue),
         \A j, k \in 1 .. Len(SlipTxQueue) : SlipTxQueue[j] = SlipTxQueue[k] => j = k
  PROVE  \A b \in Blocks : IsQueued(b)' <=> IsQueued(b) /\ b # Head(SlipTxQueue)
<1>1. Len(SlipTxQueue) \in Nat /\ Len(SlipTxQueue) > 0 /\ Head(SlipTxQueue) = SlipTxQueue[1]
  OBVIOUS
<1>2. Len(SlipTxQueue') = Len(SlipTxQueue) - 1
      /\ \A k \in 1 .. Len(SlipTxQueue) - 1 : SlipTxQueue'[k] = SlipTxQueue[k + 1]
  BY <1>1
<1>3. DOMAIN SlipTxQueue = 1 .. Len(SlipTxQueue) /\ DOMAIN SlipTxQueue' = 1 .. (Len(SlipTxQueue) - 1)
  BY <1>1, <1>2
<1> TAKE b \in Blocks
<1>4. ASSUME IsQueued(b)' PROVE IsQueued(b) /\ b # Head(SlipTxQueue)
  <2>1. PICK k \in 1 .. Len(SlipTxQueue) - 1 : SlipTxQueue'[k] = b
    BY <1>3, <1>4 DEF IsQueued
  <2>2. k + 1 \in 1 .. Len(SlipTxQueue) /\ SlipTxQueue[k + 1] = b /\ k + 1 # 1
    BY <1>1, <1>2, <2>1
  <2> QED
    BY <1>1, <1>3, <2>2 DEF IsQueued
<1>5. ASSUME IsQueued(b), b # Head(SlipTxQueue) PROVE IsQueued(b)'
  <2>1. PICK k \in 1 .. Len(SlipTxQueue) : SlipTxQueue[k] = b
    BY <1>3, <1>5 DEF IsQueued
  <2>2. k # 1 /\ k - 1 \in 1 .. (Len(SlipTxQueue) - 1)
    BY <1>1, <1>5, <2>1
  <2>3. SlipTxQueue'[k - 1] = b
    BY <1>1, <1>2, <2>1, <2>2
  <2> QED
    BY <1>3, <2>2, <2>3 DEF IsQueued
<1> QED
  BY <1>4, <1>5

\* Every block starts free.
LEMMA InitOwn == Init => Own
<1> SUFFICES ASSUME Init PROVE Own
  OBVIOUS
<1>1. OwnType
  BY DEF Init, OwnType
<1>2. Pointers
  BY TxAssumption DEF Init, Pointers
<1>3. \A b \in Blocks : OnePlace(b)
  BY TxAssumption DEF Init, OnePlace, Held, IsQueued, InFlight
<1> QED
  BY <1>1, <1>2, <1>3 DEF Own

\* The senders' steps: a free block is taken, a block in hand is queued.
LEMMA SenderOwn ==
  ASSUME Own, Ctl, NEW s \in Senders, Sender(s) \/ (\E b \in Blocks, f \in Frames : Send(s, b, f))
  PROVE  Own'
<1>1. ASSUME NEW x \in Blocks, NEW f \in Frames, Send(s, x, f) PROVE Own'
  <2>1. x \in free /\ x # NONE /\ holds[s] = NONE /\ OnePlace(x)
    BY <1>1, TxAssumption DEF Send, Own, OwnType, Pointers
  <2>2. OwnType'
    BY <1>1 DEF Send, Own, OwnType, isrVars
  <2>3. \A b \in Blocks : Held(b)' <=> Held(b) \/ b = x
    BY <1>1, <2>1, TxAssumption DEF Send, Own, OwnType, Held
  <2>4. Pointers'
    <3>1. \A t \in Senders : holds'[t] = (IF t = s THEN x ELSE holds[t])
      BY <1>1 DEF Send, Own, OwnType
    <3>2. \A t \in Senders : holds[t] # x
      BY <2>1 DEF OnePlace, Held
    <3>3. \A q, r \in Senders : holds'[r] # NONE /\ holds'[q] = holds'[r] => q = r
      BY <2>1, <3>1, <3>2 DEF Own, Pointers
    <3>4. \A t \in Senders : spc'[t] = "insert" <=> holds'[t] # NONE
      BY <1>1, <2>1, <3>1 DEF Send, Own, OwnType, Pointers
    <3> QED
      BY <1>1, <3>3, <3>4 DEF Send, Own, Pointers, isrVars
  <2>5. ASSUME NEW b \in Blocks PROVE OnePlace(b)'
    <3>1. OnePlace(b) /\ (IsQueued(b)' <=> IsQueued(b)) /\ (InFlight(b)' <=> InFlight(b)) /\ block' = block
      BY <1>1 DEF Send, Own, IsQueued, InFlight, isrVars
    <3>2. b \in free' <=> b \in free /\ b # x
      BY <1>1 DEF Send
    <3> QED
      BY <2>1, <2>3, <3>1, <3>2 DEF OnePlace
  <2> QED
    BY <2>2, <2>4, <2>5 DEF Own
<1>2. CASE Insert(s)
  <2> DEFINE x == holds[s]
  <2>1. x \in Blocks /\ x # NONE /\ OnePlace(x) /\ Held(x)
    BY <1>2 DEF Insert, Own, OwnType, Pointers, Held
  <2>2. OwnType'
    BY <1>2, <2>1 DEF Insert, Own, OwnType, isrVars
  <2>3. \A b \in Blocks : IsQueued(b)' <=> IsQueued(b) \/ b = x
    BY <1>2, <2>1, QueuedAfterAppend DEF Insert, Own, OwnType
  <2>4. \A t \in Senders : holds'[t] = (IF t = s THEN NONE ELSE holds[t])
    BY <1>2 DEF Insert, Own, OwnType
  <2>5. \A b \in Blocks : Held(b)' <=> Held(b) /\ b # x
    BY <2>1, <2>4, TxAssumption DEF Held, Own, Pointers
  <2>6. Pointers'
    <3>1. \A q, r \in Senders : holds'[r] # NONE /\ holds'[q] = holds'[r] => q = r
      BY <2>4 DEF Own, Pointers
    <3>2. \A t \in Senders : spc'[t] = "insert" <=> holds'[t] # NONE
      BY <1>2, <2>4 DEF Insert, Own, OwnType, Pointers
    <3>3. Len(SlipTxQueue) \in Nat /\ SlipTxQueue' = Append(SlipTxQueue, x) /\ SlipTxQueue \in Seq(Blocks)
      BY <1>2 DEF Insert, Own, OwnType
    <3>4. \A k \in 1 .. Len(SlipTxQueue) : SlipTxQueue[k] # x
      BY <2>1, <3>3 DEF OnePlace, IsQueued
    <3>5. \A j, k \in 1 .. Len(SlipTxQueue') : SlipTxQueue'[j] = SlipTxQueue'[k] => j = k
      BY <2>1, <3>3, <3>4 DEF Own, Pointers
    <3> QED
      BY <1>2, <3>1, <3>2, <3>5 DEF Insert, Own, Pointers, isrVars
  <2>7. ASSUME NEW b \in Blocks PROVE OnePlace(b)'
    <3>1. OnePlace(b) /\ free' = free /\ (InFlight(b)' <=> InFlight(b)) /\ block' = block
      BY <1>2 DEF Insert, Own, InFlight, isrVars
    <3> QED
      BY <2>1, <2>3, <2>5, <3>1 DEF OnePlace
  <2> QED
    BY <2>2, <2>6, <2>7 DEF Own
<1>3. CASE Signal(s)
  <2>1. OwnType'
    BY <1>3 DEF Signal, Own, OwnType, isrVars
  <2>2. Pointers'
    BY <1>3 DEF Signal, Own, OwnType, Pointers, isrVars
  <2>3. \A b \in Blocks : OnePlace(b)'
    BY <1>3 DEF Signal, Own, OnePlace, Held, IsQueued, InFlight, isrVars
  <2> QED
    BY <2>1, <2>2, <2>3 DEF Own
<1> QED
  BY <1>1, <1>2, <1>3 DEF Sender

\* The task's steps: the first queued block becomes the task's, the task's
\* block the handler's.
LEMMA TaskOwn == ASSUME Own, Ctl, TransmitTask PROVE Own'
<1>1. CASE Wait \/ Check
  BY <1>1 DEF Wait, Check, Own, OwnType, Pointers, OnePlace, Held, IsQueued, InFlight, Ctl, swVars, isrVars
<1>2. CASE Get /\ SlipTxQueue = <<>>
  BY <1>2 DEF Get, Own, OwnType, Pointers, OnePlace, Held, IsQueued, InFlight, Ctl, isrVars
<1>3. CASE Get /\ SlipTxQueue # <<>>
  <2> DEFINE x == Head(SlipTxQueue)
  <2>1. SlipTxQueue \in Seq(Blocks) /\ Len(SlipTxQueue) \in Nat /\ Len(SlipTxQueue) > 0
    BY <1>3 DEF Own, OwnType
  <2>2. x \in Blocks /\ x = SlipTxQueue[1] /\ x # NONE
    BY <1>3, <2>1, TxAssumption
  <2>3. IsQueued(x) /\ OnePlace(x)
    BY <2>1, <2>2 DEF IsQueued, Own
  <2>4. block' = x /\ SlipTxQueue' = Tail(SlipTxQueue) /\ tpc' = "load"
        /\ UNCHANGED <<free, holds, spc, SlipTxBlock, TXEIE>>
    BY <1>3 DEF Get, isrVars
  <2>5. block = NONE
    BY <1>3 DEF Get, Own, OwnType, Pointers
  <2>6. \A b \in Blocks : IsQueued(b)' <=> IsQueued(b) /\ b # x
    BY <1>3, <2>1, <2>4, QueuedAfterTail DEF Own, Pointers
  <2>7. OwnType'
    BY <1>3, <2>1, <2>2, <2>4 DEF Own, OwnType
  <2>8. Pointers'
    <3>1. Len(SlipTxQueue') = Len(SlipTxQueue) - 1
          /\ \A k \in 1 .. Len(SlipTxQueue) - 1 : SlipTxQueue'[k] = SlipTxQueue[k + 1]
      BY <1>3, <2>1, <2>4
    <3>2. ASSUME NEW j \in 1 .. Len(SlipTxQueue'), NEW k \in 1 .. Len(SlipTxQueue'),
                 SlipTxQueue'[j] = SlipTxQueue'[k]
          PROVE  j = k
      <4>1. j + 1 \in 1 .. Len(SlipTxQueue) /\ k + 1 \in 1 .. Len(SlipTxQueue)
            /\ SlipTxQueue[j + 1] = SlipTxQueue[k + 1]
        BY <2>1, <3>1, <3>2
      <4>2. j + 1 = k + 1
        BY <4>1 DEF Own, Pointers
      <4> QED
        BY <4>2, <2>1, <3>1
    <3> QED
      BY <2>2, <2>4, <3>2 DEF Own, Pointers
  <2>9. ASSUME NEW b \in Blocks PROVE OnePlace(b)'
    <3>1. OnePlace(b) /\ (Held(b)' <=> Held(b)) /\ (InFlight(b)' <=> InFlight(b))
      BY <2>4 DEF Own, Held, InFlight
    <3>2. block # b
      BY <2>5, TxAssumption
    <3> QED
      BY <2>3, <2>4, <2>6, <3>1, <3>2 DEF OnePlace
  <2> QED
    BY <2>7, <2>8, <2>9 DEF Own
<1>4. CASE Load
  <2>1. TXEIE = 0
    BY <1>4 DEF Load, Ctl
  <2>2. block \in Blocks
    BY <1>4 DEF Load, Own, OwnType, Pointers
  <2>3. OwnType' /\ Pointers'
    BY <1>4, <2>1, <2>2 DEF Load, Own, OwnType, Pointers, swVars
  <2>4. ASSUME NEW b \in Blocks PROVE OnePlace(b)'
    <3>1. ~InFlight(b) /\ ~InFlight(b)'
      BY <1>4, <2>1 DEF Load, InFlight
    <3>2. OnePlace(b) /\ (Held(b)' <=> Held(b)) /\ (IsQueued(b)' <=> IsQueued(b))
          /\ free' = free /\ block' = block
      BY <1>4 DEF Load, Own, Held, IsQueued, swVars
    <3> QED
      BY <3>1, <3>2 DEF OnePlace
  <2> QED
    BY <2>3, <2>4 DEF Own
<1>5. CASE Start
  BY <1>5 DEF Start, Own, OwnType, Pointers, OnePlace, Held, IsQueued, InFlight, Ctl, swVars, isrVars
<1>6. CASE Enable
  <2>1. TXEIE = 0 /\ block \in Blocks /\ SlipTxBlock = block /\ block # NONE
    BY <1>6, TxAssumption DEF Enable, Ctl, Own, OwnType, Pointers
  <2>2. block' = NONE /\ TXEIE' = 1 /\ tpc' = "wait"
        /\ UNCHANGED <<free, holds, spc, SlipTxQueue, SlipTxBlock>>
    BY <1>6 DEF Enable, swVars, isrVars
  <2>3. OwnType' /\ Pointers'
    BY <2>1, <2>2 DEF Own, OwnType, Pointers
  <2>4. ASSUME NEW b \in Blocks PROVE OnePlace(b)'
    <3>1. ~InFlight(b) /\ (InFlight(b)' <=> block = b) /\ block' # b
      BY <2>1, <2>2, TxAssumption DEF InFlight
    <3>2. OnePlace(b) /\ (Held(b)' <=> Held(b)) /\ (IsQueued(b)' <=> IsQueued(b)) /\ free' = free
      BY <2>2 DEF Own, Held, IsQueued
    <3> QED
      BY <3>1, <3>2 DEF OnePlace
  <2> QED
    BY <2>3, <2>4 DEF Own
<1> QED
  BY <1>1, <1>2, <1>3, <1>4, <1>5, <1>6 DEF TransmitTask, Get

\* The handler's runs: only the end of a frame moves a block, back to the pool.
LEMMA IsrOwn == ASSUME Own, Ctl, Isr PROVE Own'
<1>1. CASE IsrDone
  <2> DEFINE x == SlipTxBlock
  <2>1. TXEIE = 1 /\ tpc \in {"wait", "check"} /\ x # NONE /\ x \in Blocks /\ InFlight(x) /\ OnePlace(x)
    BY <1>1 DEF IsrDone, TxInterrupt, Ctl, Own, OwnType, Pointers, InFlight
  <2>2. free' = free \cup {x} /\ TXEIE' = 0
        /\ UNCHANGED <<holds, spc, SlipTxQueue, block, SlipTxBlock, tpc>>
    BY <1>1 DEF IsrDone, swVars
  <2>3. OwnType' /\ Pointers'
    BY <2>1, <2>2 DEF Own, OwnType, Pointers
  <2>4. ASSUME NEW b \in Blocks PROVE OnePlace(b)'
    <3>1. (InFlight(b) <=> b = x) /\ ~InFlight(b)'
      BY <2>1, <2>2 DEF InFlight
    <3>2. OnePlace(b) /\ (Held(b)' <=> Held(b)) /\ (IsQueued(b)' <=> IsQueued(b)) /\ block' = block
      BY <2>2 DEF Own, Held, IsQueued
    <3> QED
      BY <2>2, <3>1, <3>2 DEF OnePlace
  <2> QED
    BY <2>3, <2>4 DEF Own
<1>2. CASE IsrEscaped \/ IsrByte \/ IsrEnd
  <2>1. UNCHANGED <<free, holds, spc, SlipTxQueue, block, SlipTxBlock, tpc, TXEIE>>
    BY <1>2 DEF IsrEscaped, IsrByte, IsrEnd, swVars
  <2> QED
    BY <2>1 DEF Own, OwnType, Pointers, OnePlace, Held, IsQueued, InFlight
<1> QED
  BY <1>1, <1>2 DEF Isr

\* Every step leaves every block in exactly one place.
LEMMA NextOwn == Own /\ Ctl /\ [Next]_vars => Own'
<1> SUFFICES ASSUME Own, Ctl, [Next]_vars PROVE Own'
  OBVIOUS
<1>1. CASE \E s \in Senders : Sender(s) \/ \E b \in Blocks, f \in Frames : Send(s, b, f)
  BY <1>1, SenderOwn
<1>2. CASE TransmitTask
  BY <1>2, TaskOwn
<1>3. CASE Isr
  BY <1>3, IsrOwn
<1>4. CASE Shift
  BY <1>4 DEF Shift, Own, OwnType, Pointers, OnePlace, Held, IsQueued, InFlight, swVars, isrVars
<1>5. CASE UNCHANGED vars
  BY <1>5 DEF vars, Own, OwnType, Pointers, OnePlace, Held, IsQueued, InFlight, swVars, isrVars
<1> QED
  BY <1>1, <1>2, <1>3, <1>4, <1>5 DEF Next

\* Ownership holds in every reachable state.
THEOREM Ownership == Spec => []Own
BY InitOwn, NextOwn, Control, PTL DEF Spec

\* Being in exactly one place is what counting the owners says.
LEMMA OwnersAreOne == ASSUME Own, NEW b \in Blocks PROVE Owners(b) = 1
<1> DEFINE S == {s \in Senders : holds[s] = b}
           Q == {k \in DOMAIN SlipTxQueue : SlipTxQueue[k] = b}
<1>0. b # NONE
  BY TxAssumption
<1>1. Cardinality(S) = IF Held(b) THEN 1 ELSE 0
  <2>1. CASE Held(b)
    <3>1. PICK s \in Senders : holds[s] = b
      BY <2>1 DEF Held
    <3>2. S = {s}
      BY <1>0, <3>1 DEF Own, Pointers
    <3> QED
      BY <2>1, <3>2, FS_Singleton
  <2>2. CASE ~Held(b)
    <3>1. S = {}
      BY <2>2 DEF Held
    <3> QED
      BY <2>2, <3>1, FS_EmptySet
  <2> QED
    BY <2>1, <2>2
<1>2. Cardinality(Q) = IF IsQueued(b) THEN 1 ELSE 0
  <2>0. DOMAIN SlipTxQueue = 1 .. Len(SlipTxQueue)
    BY DEF Own, OwnType
  <2>1. CASE IsQueued(b)
    <3>1. PICK k \in DOMAIN SlipTxQueue : SlipTxQueue[k] = b
      BY <2>1 DEF IsQueued
    <3>2. Q = {k}
      BY <2>0, <3>1 DEF Own, Pointers
    <3> QED
      BY <2>1, <3>2, FS_Singleton
  <2>2. CASE ~IsQueued(b)
    <3>1. Q = {}
      BY <2>2 DEF IsQueued
    <3> QED
      BY <2>2, <3>1, FS_EmptySet
  <2> QED
    BY <2>1, <2>2
<1>3. OnePlace(b)
  BY DEF Own
<1>4. Owners(b) = Cardinality(S) + Cardinality(Q) + (IF block = b THEN 1 ELSE 0)
                  + (IF InFlight(b) THEN 1 ELSE 0) + (IF b \in free THEN 1 ELSE 0)
  BY DEF Owners
<1> HIDE DEF S, Q
<1> QED
  BY <1>1, <1>2, <1>3, <1>4 DEF OnePlace

\* From SU_Send to MB_Free a block has one owner, and is not free.
THEOREM BlocksHaveOneOwner == Spec => []OneOwnerPerBlock
<1>1. Own => OneOwnerPerBlock
  BY OwnersAreOne DEF OneOwnerPerBlock
<1> QED
  BY <1>1, Ownership, PTL

-----------------------------------------------------------------------------
(***************************************************************************)
(* Types.  That the handler reads bytes of the block it sends, and not what *)
(* lies behind them, needs ownership: nobody refills the block meanwhile.   *)
(***************************************************************************)
Sent == TXEIE = 1 \/ tpc \in {"start", "enable"}

Data ==
  /\ content \in [Blocks -> Seq(Bytes)]
  /\ slipTxEvent \in {0, 1}
  /\ SlipTxTSB \in Bytes \cup {NONE}
  /\ pos \in Nat /\ SlipTxLength \in Nat
  /\ DR \in Bytes \cup {NONE}
  /\ line \in Seq(Bytes)
  /\ taken \in Seq(Seq(Bytes))
  /\ Sent => SlipTxBlock \in Blocks /\ pos + SlipTxLength = Len(content[SlipTxBlock])

\* No byte was read yet.
LEMMA InitData == Init => Data
BY DEF Init, Data, Sent, Bytes

\* A sender fills only a block that is free, so not the one being sent.
LEMMA SenderData ==
  ASSUME Own, Ctl, Data,
         NEW s \in Senders, Sender(s) \/ (\E b \in Blocks, f \in Frames : Send(s, b, f))
  PROVE  Data'
<1>1. ASSUME NEW x \in Blocks, NEW f \in Frames, Send(s, x, f) PROVE Data'
  <2>1. f \in Seq(Bytes) /\ content' = [content EXCEPT ![x] = f]
    BY <1>1, TxAssumption DEF Send
  <2>2. content' \in [Blocks -> Seq(Bytes)] /\ \A b \in Blocks : b # x => content'[b] = content[b]
    BY <2>1 DEF Data
  <2>3. ASSUME Sent, SlipTxBlock \in Blocks PROVE SlipTxBlock # x
    <3>1. x \in free /\ OnePlace(x)
      BY <1>1 DEF Send, Own
    <3>2. InFlight(SlipTxBlock) \/ block = SlipTxBlock
      BY <2>3 DEF Sent, InFlight, Own, Pointers
    <3> QED
      BY <3>1, <3>2 DEF OnePlace
  <2>4. UNCHANGED <<slipTxEvent, tpc, SlipTxTSB, SlipTxBlock, pos, SlipTxLength, DR, TXEIE, line, taken>>
    BY <1>1 DEF Send, isrVars
  <2> QED
    BY <2>2, <2>3, <2>4 DEF Data, Sent
<1>2. CASE Sender(s)
  BY <1>2 DEF Sender, Insert, Signal, Data, Sent, isrVars
<1> QED
  BY <1>1, <1>2

\* The task loads the length of the block and starts at its first byte.
LEMMA TaskData == ASSUME Own, Ctl, Data, TransmitTask PROVE Data'
<1>1. CASE Wait \/ Check
  BY <1>1 DEF Wait, Check, Ctl, Data, Sent, swVars, isrVars
<1>2. CASE Get
  <2>1. ASSUME NEW x \in Blocks, taken' = Append(taken, content[x])
        PROVE  taken' \in Seq(Seq(Bytes))
    <3>1. content[x] \in Seq(Bytes) /\ taken \in Seq(Seq(Bytes))
      BY DEF Data
    <3> DEFINE F == Seq(Bytes)
    <3>2. ASSUME NEW t \in Seq(F), NEW e \in F PROVE Append(t, e) \in Seq(F)
      <4> HIDE DEF F
      <4> QED
        OBVIOUS
    <3> QED
      BY <2>1, <3>1, <3>2
  <2>2. taken' \in Seq(Seq(Bytes))
    <3>1. CASE SlipTxQueue = <<>>
      BY <1>2, <3>1 DEF Get, Data
    <3>2. CASE SlipTxQueue # <<>>
      <4>1. Head(SlipTxQueue) \in Blocks
        BY <3>2 DEF Own, OwnType
      <4> QED
        BY <1>2, <2>1, <3>2, <4>1 DEF Get
    <3> QED
      BY <3>1, <3>2
  <2>3. ~Sent' /\ UNCHANGED <<content, slipTxEvent, SlipTxTSB, pos, SlipTxLength, DR, line>>
    BY <1>2 DEF Get, Ctl, Sent, isrVars
  <2> QED
    BY <2>2, <2>3 DEF Data
<1>3. CASE Load
  <2>1. block \in Blocks
    BY <1>3 DEF Load, Own, OwnType, Pointers
  <2>2. Len(content[block]) \in Nat
    BY <2>1 DEF Data
  <2> QED
    BY <1>3, <2>1, <2>2 DEF Load, Data, Sent
<1>4. CASE Start
  BY <1>4 DEF Start, Data, Sent, Bytes, isrVars
<1>5. CASE Enable
  BY <1>5 DEF Enable, Data, Sent, isrVars
<1> QED
  BY <1>1, <1>2, <1>3, <1>4, <1>5 DEF TransmitTask

\* The handler counts down as it advances, so position and rest stay the block.
LEMMA IsrData == ASSUME Own, Ctl, Data, Isr PROVE Data'
<1>1. CASE IsrEscaped
  BY <1>1 DEF IsrEscaped, Data, Sent
<1>2. CASE IsrDone
  BY <1>2 DEF IsrDone, TxInterrupt, Ctl, Data, Sent
<1>3. CASE IsrByte
  <2> DEFINE c == content[SlipTxBlock][pos + 1]
  <2>1. SlipTxBlock \in Blocks /\ pos + SlipTxLength = Len(content[SlipTxBlock]) /\ SlipTxLength > 0
    BY <1>3 DEF IsrByte, TxInterrupt, Data, Sent
  <2>2. content[SlipTxBlock] \in Seq(Bytes) /\ pos + 1 \in 1 .. Len(content[SlipTxBlock])
    BY <2>1 DEF Data
  <2>3. c \in Bytes
    BY <2>2
  <2>4. DR' \in Bytes /\ SlipTxTSB' \in Bytes \cup {NONE}
    <3>1. DR' = IF c = "END" THEN "ESC" ELSE c
      BY <1>3 DEF IsrByte
    <3>2. SlipTxTSB' = IF c = "END" THEN "ESC_END" ELSE IF c = "ESC" THEN "ESC_ESC" ELSE SlipTxTSB
      BY <1>3 DEF IsrByte
    <3> HIDE DEF c
    <3> QED
      BY <2>3, <3>1, <3>2 DEF Data, Bytes
  <2>5. pos' = pos + 1 /\ SlipTxLength' = SlipTxLength - 1
        /\ UNCHANGED <<content, slipTxEvent, tpc, SlipTxBlock, TXEIE, line, taken>>
    BY <1>3 DEF IsrByte
  <2>6. pos' \in Nat /\ SlipTxLength' \in Nat /\ pos' + SlipTxLength' = pos + SlipTxLength
    BY <2>1, <2>5 DEF Data
  <2>7. Sent' => SlipTxBlock' \in Blocks /\ pos' + SlipTxLength' = Len(content'[SlipTxBlock'])
    BY <2>1, <2>5, <2>6
  <2> HIDE DEF c
  <2> QED
    BY <2>4, <2>5, <2>6, <2>7 DEF Data
<1>4. CASE IsrEnd
  BY <1>4 DEF IsrEnd, Data, Sent, Bytes
<1> QED
  BY <1>1, <1>2, <1>3, <1>4 DEF Isr

\* Every step keeps the data typed and the handler inside its block.
LEMMA NextData == Own /\ Ctl /\ Data /\ [Next]_vars => Data'
<1> SUFFICES ASSUME Own, Ctl, Data, [Next]_vars PROVE Data'
  OBVIOUS
<1>1. CASE \E s \in Senders : Sender(s) \/ \E b \in Blocks, f \in Frames : Send(s, b, f)
  BY <1>1, SenderData
<1>2. CASE TransmitTask
  BY <1>2, TaskData
<1>3. CASE Isr
  BY <1>3, IsrData
<1>4. CASE Shift
  BY <1>4 DEF Shift, Data, Sent, swVars, isrVars
<1>5. CASE UNCHANGED vars
  BY <1>5 DEF vars, Data, Sent, swVars, isrVars
<1> QED
  BY <1>1, <1>2, <1>3, <1>4, <1>5 DEF Next

\* Every reachable state is well typed; the handler puts only bytes of the
\* frame it was given on the line.
THEOREM TypeCorrect == Spec => []TypeOK
<1>1. Ctl /\ Own /\ Data => TypeOK
  BY DEF Ctl, Own, OwnType, Data, TypeOK
<1> QED
  BY <1>1, InitData, NextData, Control, Ownership, PTL DEF Spec

-----------------------------------------------------------------------------
(***************************************************************************)
(* Sequences behind each other.  FlattenSeq is a fold, and what it is for  *)
(* any number of sequences takes induction, over the least prefix that is  *)
(* wrong.                                                                  *)
(***************************************************************************)
\* Two sequences behind each other.
LEMMA Joined ==
  ASSUME NEW S, NEW a \in Seq(S), NEW b \in Seq(S)
  PROVE  /\ a \o b \in Seq(S) /\ Len(a \o b) = Len(a) + Len(b)
         /\ Len(a) \in Nat /\ Len(b) \in Nat
         /\ \A k \in 1 .. Len(a) : (a \o b)[k] = a[k]
         /\ \A k \in 1 .. Len(b) : (a \o b)[Len(a) + k] = b[k]
<1>1. /\ a \o b \in Seq(S) /\ Len(a \o b) = Len(a) + Len(b)
      /\ \A k \in 1 .. Len(a) + Len(b) : (a \o b)[k] = IF k <= Len(a) THEN a[k] ELSE b[k - Len(a)]
  BY ConcatProperties
<1>2. Len(a) \in Nat /\ Len(b) \in Nat
  OBVIOUS
<1>3. ASSUME NEW k \in 1 .. Len(a) PROVE (a \o b)[k] = a[k]
  BY <1>1, <1>2
<1>4. ASSUME NEW k \in 1 .. Len(b) PROVE (a \o b)[Len(a) + k] = b[k]
  <2>1. Len(a) + k \in 1 .. Len(a) + Len(b) /\ ~(Len(a) + k <= Len(a)) /\ (Len(a) + k) - Len(a) = k
    BY <1>2
  <2> QED
    BY <1>1, <2>1
<1> QED
  BY <1>1, <1>2, <1>3, <1>4

\* Every set of numbers has a least one.
LEMMA Least ==
  ASSUME NEW T \in SUBSET Nat, T # {}
  PROVE  \E n \in T : \A m \in T : n <= m
<1> DEFINE R == OpToRel(<, Nat)
<1>1. IsWellFoundedOn(R, Nat)
  BY NatLessThanWellFounded
<1>2. \A n, m \in Nat : m < n => <<m, n>> \in R
  BY DEF OpToRel
<1> HIDE DEF R
<1>3. PICK n \in T : \A m \in T : <<m, n>> \notin R
  BY <1>1, WFMin
<1>4. ASSUME NEW m \in T PROVE n <= m
  <2>1. m \in Nat /\ n \in Nat /\ <<m, n>> \notin R
    BY <1>3
  <2>2. ~(m < n)
    BY <1>2, <2>1
  <2> QED
    BY <2>1, <2>2
<1> QED
  BY <1>4

\* A set with 0 in it and the successors of its numbers has them all.
LEMMA Induction ==
  ASSUME NEW S, 0 \in S, \A n \in Nat : n \in S => n + 1 \in S
  PROVE  Nat \subseteq S
<1> SUFFICES ASSUME Nat \ S # {} PROVE FALSE
  OBVIOUS
<1>1. PICK n \in Nat \ S : \A m \in Nat \ S : n <= m
  BY Least
<1>2. n # 0 /\ n - 1 \in Nat
  BY <1>1
<1>3. n - 1 \in S
  BY <1>1, <1>2
<1>4. (n - 1) + 1 = n
  OBVIOUS
<1> QED
  BY <1>1, <1>2, <1>3, <1>4

\* Up to a bound.
LEMMA InductionUpTo ==
  ASSUME NEW m \in Nat, NEW S, 0 \in S, \A n \in 0 .. m - 1 : n \in S => n + 1 \in S
  PROVE  0 .. m \subseteq S
<1> DEFINE T == {n \in Nat : n <= m => n \in S}
<1>1. 0 \in T
  OBVIOUS
<1>2. ASSUME NEW n \in Nat, n \in T PROVE n + 1 \in T
  <2>1. CASE n + 1 <= m
    <3>1. n \in 0 .. m - 1 /\ n \in S
      BY <1>2, <2>1
    <3> QED
      BY <3>1
  <2> QED
    BY <2>1
<1> HIDE DEF T
<1>3. Nat \subseteq T
  BY <1>1, <1>2, Induction
<1> QED
  BY <1>3 DEF T

\* The flattening of the first n sequences of s is a function of n.
FlatOf(s, n, f) ==
  f = [k \in 1 .. n |-> IF k = 1 THEN s[k] ELSE f[k - 1] \o s[k]]

\* There is such a function, one end more at a time.
LEMMA FlatExists ==
  ASSUME NEW s, NEW n \in Nat
  PROVE  \E f : FlatOf(s, n, f)
<1> DEFINE S == {k \in Nat : \E f : FlatOf(s, k, f)}
<1>1. 0 \in S
  <2> DEFINE f == [k \in 1 .. 0 |-> <<>>]
             h == [k \in 1 .. 0 |-> IF k = 1 THEN s[k] ELSE f[k - 1] \o s[k]]
  <2>1. f = h
    OBVIOUS
  <2> QED
    BY <2>1 DEF FlatOf
<1>2. ASSUME NEW k \in Nat, k \in S PROVE k + 1 \in S
  <2>1. PICK g : FlatOf(s, k, g)
    BY <1>2
  <2> DEFINE f == [j \in 1 .. k + 1 |-> IF j = k + 1 THEN IF j = 1 THEN s[j] ELSE g[k] \o s[j] ELSE g[j]]
             h == [j \in 1 .. k + 1 |-> IF j = 1 THEN s[j] ELSE f[j - 1] \o s[j]]
  <2>2. ASSUME NEW j \in 1 .. k + 1 PROVE f[j] = h[j]
    <3>0. h[j] = IF j = 1 THEN s[j] ELSE f[j - 1] \o s[j]
      OBVIOUS
    <3>1. CASE j = k + 1
      <4>1. f[j] = IF j = 1 THEN s[j] ELSE g[k] \o s[j]
        BY <3>1
      <4>2. j # 1 => f[j - 1] = g[k]
        <5>1. j # 1 => j - 1 \in 1 .. k + 1 /\ j - 1 # k + 1 /\ j - 1 = k
          BY <3>1
        <5> QED
          BY <5>1
      <4> HIDE DEF f, h
      <4> QED
        BY <3>0, <4>1, <4>2
    <3>2. CASE j # k + 1
      <4>1. f[j] = g[j] /\ j \in 1 .. k
        BY <3>2
      <4>2. g[j] = IF j = 1 THEN s[j] ELSE g[j - 1] \o s[j]
        BY <2>1, <4>1 DEF FlatOf
      <4>3. j # 1 => f[j - 1] = g[j - 1]
        <5>1. j # 1 => j - 1 \in 1 .. k + 1 /\ j - 1 # k + 1
          BY <4>1
        <5> QED
          BY <5>1
      <4> HIDE DEF f, h
      <4> QED
        BY <3>0, <4>1, <4>2, <4>3
    <3> QED
      BY <3>1, <3>2
  <2>3. f = h
    BY <2>2
  <2>4. FlatOf(s, k + 1, f)
    BY <2>3 DEF FlatOf
  <2> HIDE DEF f, h
  <2> QED
    BY <2>4
<1> HIDE DEF S
<1>3. Nat \subseteq S
  BY <1>1, <1>2, Induction
<1> QED
  BY <1>3 DEF S


\* FlattenSeq goes from one end to the next.
Flattens(s, f) ==
  /\ f[0] = <<>>
  /\ \A k \in 1 .. Len(s) : f[k] = f[k - 1] \o s[k]

\* FlattenSeq puts the sequences behind each other.
LEMMA FlattenIs ==
  ASSUME NEW S, NEW s \in Seq(Seq(S))
  PROVE  \E f \in [0 .. Len(s) -> Seq(S)] : Flattens(s, f) /\ Code!FlattenSeq(s) = f[Len(s)]
<1> DEFINE n == Len(s)
<1>1. n \in Nat /\ (n = 0 => s = <<>>) /\ \A k \in 1 .. n : s[k] \in Seq(S)
  <2> DEFINE F == Seq(S)
  <2>1. \A t \in Seq(F) : Len(t) \in Nat /\ (Len(t) = 0 => t = <<>>) /\ \A k \in 1 .. Len(t) : t[k] \in F
    <3> HIDE DEF F
    <3> QED
      OBVIOUS
  <2> QED
    BY <2>1
<1>2. Code!FlattenSeq(s) = IF n = 0 THEN s ELSE (CHOOSE f : FlatOf(s, n, f))[n]
  BY DEF Code!FlattenSeq, FlatOf
<1> HIDE DEF n
<1>3. \E f : FlatOf(s, n, f)
  BY <1>1, FlatExists
<1> DEFINE g == CHOOSE f : FlatOf(s, n, f)
<1>4. FlatOf(s, n, g)
  BY <1>3
<1>5. Code!FlattenSeq(s) = IF n = 0 THEN s ELSE g[n]
  BY <1>2
<1> HIDE DEF g
<1> DEFINE T == {k \in 0 .. n : k = 0 \/ g[k] \in Seq(S)}
<1>6. 0 \in T
  BY <1>1
<1>7. ASSUME NEW k \in 0 .. n - 1, k \in T PROVE k + 1 \in T
  <2>1. k + 1 \in 1 .. n /\ k + 1 \in 0 .. n /\ (k + 1) - 1 = k /\ (k # 0 => k + 1 # 1)
    BY <1>1
  <2>2. g[k + 1] = IF k + 1 = 1 THEN s[k + 1] ELSE g[k] \o s[k + 1]
    BY <1>4, <2>1 DEF FlatOf
  <2>3. s[k + 1] \in Seq(S)
    BY <1>1, <2>1
  <2>4. k # 0 => g[k] \o s[k + 1] \in Seq(S)
    BY <1>7, <2>3, Joined
  <2>5. k = 0 => k + 1 = 1
    OBVIOUS
  <2>6. g[k + 1] \in Seq(S)
    BY <2>1, <2>2, <2>3, <2>4, <2>5
  <2> QED
    BY <2>1, <2>6
<1> HIDE DEF T
<1>8. 0 .. n \subseteq T
  BY <1>1, <1>6, <1>7, InductionUpTo
<1> DEFINE f == [k \in 0 .. n |-> IF k = 0 THEN <<>> ELSE g[k]]
<1>9. f \in [0 .. n -> Seq(S)]
  <2>1. <<>> \in Seq(S)
    OBVIOUS
  <2>2. \A k \in 0 .. n : k = 0 \/ g[k] \in Seq(S)
    BY <1>8 DEF T
  <2> QED
    BY <2>1, <2>2
<1>10. f[0] = <<>> /\ \A k \in 1 .. n : f[k] = g[k]
  BY <1>1
<1> HIDE DEF f
<1>11. ASSUME NEW k \in 1 .. n PROVE f[k] = f[k - 1] \o s[k]
  <2>1. g[k] = IF k = 1 THEN s[k] ELSE g[k - 1] \o s[k]
    BY <1>4 DEF FlatOf
  <2>2. CASE k = 1
    <3>1. k - 1 = 0 /\ f[k] = g[k] /\ s[k] \in Seq(S)
      BY <1>1, <1>10, <2>2
    <3>2. \A t \in Seq(S) : <<>> \o t = t
      OBVIOUS
    <3> QED
      BY <1>10, <2>1, <2>2, <3>1, <3>2
  <2>3. CASE k # 1
    <3>1. k - 1 \in 1 .. n
      BY <1>1, <2>3
    <3> QED
      BY <1>10, <2>1, <2>3, <3>1
  <2> QED
    BY <2>2, <2>3
<1>12. Code!FlattenSeq(s) = f[n]
  BY <1>1, <1>5, <1>10
<1> QED
  BY <1>9, <1>10, <1>11, <1>12 DEF Flattens, n

\* One sequence more at the end.
LEMMA FlattenAppend ==
  ASSUME NEW S, NEW s \in Seq(Seq(S)), NEW x \in Seq(S)
  PROVE  /\ Code!FlattenSeq(s) \in Seq(S)
         /\ Code!FlattenSeq(Append(s, x)) = Code!FlattenSeq(s) \o x
<1> DEFINE t == Append(s, x)
           n == Len(s)
<1>1. /\ t \in Seq(Seq(S)) /\ Len(t) = n + 1 /\ n \in Nat
      /\ \A k \in 1 .. n : s[k] = t[k]
      /\ t[n + 1] = x
  BY AppendProperties
<1>2. PICK f \in [0 .. n -> Seq(S)] : Flattens(s, f) /\ Code!FlattenSeq(s) = f[n]
  BY FlattenIs
<1> HIDE DEF t
<1>3. PICK g : Flattens(t, g) /\ Code!FlattenSeq(t) = g[n + 1]
  <2>1. \E g \in [0 .. Len(t) -> Seq(S)] : Flattens(t, g) /\ Code!FlattenSeq(t) = g[Len(t)]
    BY <1>1, FlattenIs
  <2> QED
    BY <1>1, <2>1
<1>4. f[0] = <<>> /\ \A k \in 1 .. n : f[k] = f[k - 1] \o s[k]
  BY <1>2 DEF Flattens
<1>5. g[0] = <<>> /\ \A k \in 1 .. n + 1 : g[k] = g[k - 1] \o t[k]
  BY <1>1, <1>3 DEF Flattens
<1> HIDE DEF n
<1> DEFINE T == {k \in 0 .. n : f[k] = g[k]}
<1>6. 0 \in T
  BY <1>1, <1>4, <1>5, SMTT(30)
<1>7. ASSUME NEW k \in 0 .. n - 1, k \in T PROVE k + 1 \in T
  <2>1. k + 1 \in 1 .. n /\ k + 1 \in 1 .. n + 1 /\ k + 1 \in 0 .. n /\ (k + 1) - 1 = k
    BY <1>1
  <2> QED
    BY <1>1, <1>4, <1>5, <1>7, <2>1
<1> HIDE DEF T
<1>8. 0 .. n \subseteq T
  BY <1>1, <1>6, <1>7, InductionUpTo
<1>9. f[n] = g[n] /\ g[n + 1] = g[n] \o x
  <2>1. n \in 0 .. n /\ n + 1 \in 1 .. n + 1 /\ (n + 1) - 1 = n
    BY <1>1
  <2> QED
    BY <1>1, <1>5, <1>8, <2>1 DEF T
<1>10. f[n] \in Seq(S)
  BY <1>1, <1>2
<1> QED
  BY <1>2, <1>3, <1>9, <1>10 DEF t

\* One sequence more at the beginning.
LEMMA FlattenCons ==
  ASSUME NEW S, NEW s \in Seq(Seq(S)), NEW x \in Seq(S), NEW t \in Seq(Seq(S)),
         Len(t) = Len(s) + 1, t[1] = x, \A k \in 1 .. Len(s) : t[k + 1] = s[k]
  PROVE  Code!FlattenSeq(t) = x \o Code!FlattenSeq(s)
<1> DEFINE n == Len(s)
<1>1. n \in Nat /\ \A k \in 1 .. n : s[k] \in Seq(S)
  <2> DEFINE F == Seq(S)
  <2>1. \A r \in Seq(F) : Len(r) \in Nat /\ \A k \in 1 .. Len(r) : r[k] \in F
    <3> HIDE DEF F
    <3> QED
      OBVIOUS
  <2> QED
    BY <2>1
<1>2. PICK f \in [0 .. n -> Seq(S)] : Flattens(s, f) /\ Code!FlattenSeq(s) = f[n]
  BY FlattenIs
<1>3. PICK g : Flattens(t, g) /\ Code!FlattenSeq(t) = g[n + 1]
  <2>1. \E g \in [0 .. Len(t) -> Seq(S)] : Flattens(t, g) /\ Code!FlattenSeq(t) = g[Len(t)]
    BY <1>1, FlattenIs
  <2> QED
    BY <1>1, <2>1
<1>4. f[0] = <<>> /\ \A k \in 1 .. n : f[k] = f[k - 1] \o s[k]
  BY <1>2 DEF Flattens
<1>5. g[0] = <<>> /\ \A k \in 1 .. n + 1 : g[k] = g[k - 1] \o t[k]
  BY <1>1, <1>3 DEF Flattens
<1>6. \A k \in 1 .. n : t[k + 1] = s[k]
  OBVIOUS
<1> HIDE DEF n
<1> DEFINE T == {k \in 0 .. n : g[k + 1] = x \o f[k]}
<1>7. 0 \in T
  <2>1. g[1] = g[0] \o x
    <3>1. 1 \in 1 .. n + 1 /\ 1 - 1 = 0
      BY <1>1
    <3> QED
      BY <1>5, <3>1
  <2>2. <<>> \o x = x /\ x \o <<>> = x
    OBVIOUS
  <2>3. 0 + 1 = 1 /\ 0 \in 0 .. n
    BY <1>1
  <2> QED
    BY <1>4, <1>5, <2>1, <2>2, <2>3
<1>8. ASSUME NEW k \in 0 .. n - 1, k \in T PROVE k + 1 \in T
  <2>1. k + 1 \in 1 .. n /\ (k + 1) + 1 \in 1 .. n + 1 /\ k + 1 \in 0 .. n /\ (k + 1) - 1 = k
        /\ ((k + 1) + 1) - 1 = k + 1 /\ k \in 0 .. n
    BY <1>1
  <2>2. g[(k + 1) + 1] = g[k + 1] \o s[k + 1]
    BY <1>5, <1>6, <2>1
  <2>3. g[k + 1] = x \o f[k] /\ f[k + 1] = f[k] \o s[k + 1]
    BY <1>4, <1>8, <2>1
  <2>4. f[k] \in Seq(S) /\ s[k + 1] \in Seq(S)
    BY <1>1, <2>1
  <2>5. ASSUME NEW a \in Seq(S), NEW b \in Seq(S), NEW c \in Seq(S)
        PROVE  (a \o b) \o c = a \o (b \o c)
    BY SMTT(30)
  <2>6. x \in Seq(S)
    OBVIOUS
  <2>7. (x \o f[k]) \o s[k + 1] = x \o (f[k] \o s[k + 1])
    BY <2>4, <2>5, <2>6
  <2> QED
    BY <2>1, <2>2, <2>3, <2>7
<1> HIDE DEF T
<1>9. 0 .. n \subseteq T
  BY <1>1, <1>7, <1>8, InductionUpTo
<1>10. g[n + 1] = x \o f[n]
  <2>1. n \in 0 .. n
    BY <1>1
  <2> QED
    BY <1>9, <2>1 DEF T
<1> QED
  BY <1>2, <1>3, <1>10

-----------------------------------------------------------------------------
(***************************************************************************)
(* The code of a frame, byte by byte and frame by frame.                   *)
(***************************************************************************)

\* What one byte becomes on the line.
LEMMA StuffedIs ==
  ASSUME NEW c \in Bytes
  PROVE  /\ Code!Stuffed(c) \in Seq(Bytes)
         /\ c = "END" => Code!Stuffed(c) = <<"ESC", "ESC_END">>
         /\ c = "ESC" => Code!Stuffed(c) = <<"ESC", "ESC_ESC">>
         /\ c \notin {"END", "ESC"} => Code!Stuffed(c) = <<c>>
<1>1. /\ c = "END" => Code!Stuffed(c) = <<"ESC", "ESC_END">>
      /\ c = "ESC" => Code!Stuffed(c) = <<"ESC", "ESC_ESC">>
      /\ c \notin {"END", "ESC"} => Code!Stuffed(c) = <<c>>
  BY DEF Code!Stuffed
<1>2. <<"ESC", "ESC_END">> \in Seq(Bytes) /\ <<"ESC", "ESC_ESC">> \in Seq(Bytes) /\ <<c>> \in Seq(Bytes)
  BY DEF Bytes
<1> QED
  BY <1>1, <1>2

\* The encoding of a frame is made of bytes.
LEMMA EncodeType == ASSUME NEW f \in Seq(Bytes) PROVE Code!Encode(f) \in Seq(Bytes)
<1> DEFINE s == [k \in DOMAIN f |-> Code!Stuffed(f[k])]
<1>1. s \in Seq(Seq(Bytes))
  <2>1. Len(f) \in Nat /\ DOMAIN f = 1 .. Len(f) /\ \A k \in 1 .. Len(f) : f[k] \in Bytes
    OBVIOUS
  <2>2. \A k \in 1 .. Len(f) : s[k] \in Seq(Bytes)
    BY <2>1, StuffedIs
  <2> HIDE DEF s
  <2>3. s = [k \in 1 .. Len(f) |-> s[k]]
    BY <2>1 DEF s
  <2> QED
    BY <2>1, <2>2, <2>3
<1>2. Code!Encode(f) = Code!FlattenSeq(s)
  BY DEF Code!Encode
<1> HIDE DEF s
<1>3. <<>> \in Seq(Bytes)
  OBVIOUS
<1> QED
  BY <1>1, <1>2, <1>3, FlattenAppend

\* The encoding of nothing.
LEMMA EncodeNothing == Code!Encode(<<>>) = <<>>
<1> DEFINE s == [k \in DOMAIN <<>> |-> Code!Stuffed(<<>>[k])]
<1>1. s = <<>>
  OBVIOUS
<1>2. <<>> \in Seq(Seq(Bytes)) /\ Len(<<>>) = 0
  OBVIOUS
<1>3. Code!FlattenSeq(<<>>) = <<>>
  BY <1>2, FlattenIs, ZenonT(60) DEF Flattens
<1> QED
  BY <1>1, <1>3 DEF Code!Encode

\* The encoding of a frame begins with what its first byte becomes.
LEMMA EncodeNext ==
  ASSUME NEW f \in Seq(Bytes), NEW n \in 1 .. Len(f)
  PROVE  Code!Encode(SubSeq(f, n, Len(f)))
           = Code!Stuffed(f[n]) \o Code!Encode(SubSeq(f, n + 1, Len(f)))
<1> DEFINE p == SubSeq(f, n, Len(f))
           q == SubSeq(f, n + 1, Len(f))
           s == [k \in DOMAIN p |-> Code!Stuffed(p[k])]
           t == [k \in DOMAIN q |-> Code!Stuffed(q[k])]
           m == Len(f) - n
<1>1. m \in Nat /\ n \in Nat /\ f[n] \in Bytes /\ \A k \in 1 .. Len(f) : f[k] \in Bytes
  OBVIOUS
<1>2. /\ p \in Seq(Bytes) /\ Len(p) = m + 1 /\ DOMAIN p = 1 .. m + 1
      /\ p[1] = f[n] /\ \A k \in 1 .. m : p[k + 1] = f[n + k]
  BY <1>1
<1>3. /\ q \in Seq(Bytes) /\ Len(q) = m /\ DOMAIN q = 1 .. m
      /\ \A k \in 1 .. m : q[k] = f[n + k]
  BY <1>1
<1>4. Code!Encode(p) = Code!FlattenSeq(s) /\ Code!Encode(q) = Code!FlattenSeq(t)
  BY DEF Code!Encode
<1> HIDE DEF p, q, m
<1>5. s \in Seq(Seq(Bytes)) /\ Len(s) = m + 1
      /\ \A k \in 1 .. m + 1 : s[k] = Code!Stuffed(p[k])
  <2>1. \A k \in 1 .. m + 1 : Code!Stuffed(p[k]) \in Seq(Bytes)
    BY <1>1, <1>2, StuffedIs
  <2> QED
    BY <1>1, <1>2, <2>1
<1>6. t \in Seq(Seq(Bytes)) /\ Len(t) = m
      /\ \A k \in 1 .. m : t[k] = Code!Stuffed(q[k])
  <2>1. \A k \in 1 .. m : Code!Stuffed(q[k]) \in Seq(Bytes)
    BY <1>1, <1>3, StuffedIs
  <2> QED
    BY <1>1, <1>3, <2>1
<1> HIDE DEF s, t
<1>7. s[1] = Code!Stuffed(f[n])
  BY <1>1, <1>2, <1>5
<1>8. ASSUME NEW k \in 1 .. m PROVE s[k + 1] = t[k]
  <2>1. k + 1 \in 1 .. m + 1
    BY <1>1
  <2>2. s[k + 1] = Code!Stuffed(p[k + 1]) /\ t[k] = Code!Stuffed(q[k])
    BY <1>5, <1>6, <2>1
  <2>3. p[k + 1] = q[k]
    BY <1>2, <1>3
  <2> QED
    BY <2>2, <2>3
<1>9. Code!Stuffed(f[n]) \in Seq(Bytes)
  BY <1>1, StuffedIs
<1>10. Code!FlattenSeq(s) = Code!Stuffed(f[n]) \o Code!FlattenSeq(t)
  BY <1>5, <1>6, <1>7, <1>8, <1>9, FlattenCons
<1> QED
  BY <1>4, <1>10 DEF p, q

\* One frame more on the line.
LEMMA StreamGrows ==
  ASSUME NEW s \in Seq(Seq(Bytes)), NEW f \in Seq(Bytes)
  PROVE  Code!Stream(Append(s, f)) = Code!Stream(s) \o Code!Framed(f)
<1> DEFINE F == Seq(Bytes)
           a == Append(s, f)
           p == [k \in DOMAIN s |-> Code!Framed(s[k])]
           q == [k \in DOMAIN a |-> Code!Framed(a[k])]
           x == Code!Framed(f)
           n == Len(s)
<1>1. \A g \in F : Code!Framed(g) \in F
  <2>1. <<"END">> \in F
    BY DEF Bytes
  <2>2. ASSUME NEW b \in F, NEW c \in F PROVE b \o c \in F
    BY <2>2, Joined
  <2>3. \A g \in F : Code!Encode(g) \in F
    BY EncodeType
  <2> HIDE DEF F
  <2> QED
    BY <2>1, <2>2, <2>3 DEF Code!Framed
<1>2. s \in Seq(F) /\ f \in F
  OBVIOUS
<1> HIDE DEF F
<1>3. n \in Nat /\ DOMAIN s = 1 .. n /\ \A k \in 1 .. n : s[k] \in F
  BY <1>2
<1>4. /\ a \in Seq(F) /\ Len(a) = n + 1 /\ DOMAIN a = 1 .. n + 1
      /\ (\A k \in 1 .. n : a[k] = s[k]) /\ a[n + 1] = f
  BY <1>2, AppendProperties
<1> HIDE DEF a, n
<1>5. p \in Seq(F) /\ Len(p) = n /\ \A k \in 1 .. n : p[k] = Code!Framed(s[k])
  BY <1>1, <1>3
<1>6. q \in Seq(F) /\ Len(q) = n + 1 /\ \A k \in 1 .. n + 1 : q[k] = Code!Framed(a[k])
  <2>1. \A k \in 1 .. n + 1 : a[k] \in F
    BY <1>4
  <2> QED
    BY <1>1, <1>3, <1>4, <2>1
<1>7. x \in F
  BY <1>1, <1>2
<1>8. Code!Stream(a) = Code!FlattenSeq(q) /\ Code!Stream(s) = Code!FlattenSeq(p)
  BY DEF Code!Stream
<1> HIDE DEF p, q
<1>9. q = Append(p, x)
  <2> DEFINE b == Append(p, x)
  <2>1. b \in Seq(F) /\ Len(b) = n + 1 /\ (\A k \in 1 .. n : b[k] = p[k]) /\ b[n + 1] = x
    BY <1>5, <1>7, AppendProperties
  <2>2. \A k \in 1 .. n + 1 : k = n + 1 \/ k \in 1 .. n
    BY <1>3
  <2>3. \A k \in 1 .. n + 1 : b[k] = q[k]
    <3>1. n + 1 \in 1 .. n + 1 /\ \A k \in 1 .. n : k \in 1 .. n + 1
      BY <1>3
    <3> QED
      BY <1>4, <1>5, <1>6, <2>1, <2>2, <3>1
  <2> HIDE DEF b
  <2>4. b = q
    BY <1>6, <2>1, <2>3, SeqEqual
  <2> QED
    BY <2>4 DEF b
<1> HIDE DEF x
<1>10. Code!FlattenSeq(Append(p, x)) = Code!FlattenSeq(p) \o x
  BY <1>5, <1>7, FlattenAppend DEF F
<1> QED
  BY <1>8, <1>9, <1>10 DEF a, x

-----------------------------------------------------------------------------
(***************************************************************************)
(* The line.  A byte moves from what is left of the block to DR and from   *)
(* DR to the line, so the three behind each other change only when the     *)
(* task takes a frame.  That what is left is left of the frame that was    *)
(* taken needs ownership, as the types do; that an escape pair has its     *)
(* second byte is in Busy.                                                 *)
(***************************************************************************)
\* The parts of the line: what the USART has, and what is left of the block.
InDR == IF DR = NONE THEN <<>> ELSE <<DR>>
Left == Code!Encode(SubSeq(content[SlipTxBlock], pos + 1, pos + SlipTxLength)) \o <<"END">>

\* While the line is not READY there is a block on it, and an escape pair has
\* its second byte.
Busy ==
  /\ SlipTxPSW # "READY" => Sent
  /\ SlipTxPSW = "ESCAPE" => SlipTxTSB \in Bytes

\* What is still to be sent, by the state the transmitter is in.
LEMMA RestIs ==
  ASSUME Ctl
  PROVE  /\ tpc = "load" => Rest = Code!Framed(content[block])
         /\ tpc # "load" /\ SlipTxPSW = "READY" => Rest = <<>>
         /\ tpc = "start" => Rest = <<"END">> \o Left
         /\ tpc \notin {"load", "start"} /\ SlipTxPSW = "NOT_READY" => Rest = <<>> \o Left
         /\ tpc \notin {"load", "start"} /\ SlipTxPSW = "ESCAPE" => Rest = <<SlipTxTSB>> \o Left
         /\ tpc \notin {"load", "start"} /\ SlipTxPSW = "END" => Rest = <<>>
  BY DEF Ctl, Rest, Left

\* The same after a step.
LEMMA RestIsNext ==
  ASSUME Ctl'
  PROVE  /\ tpc' = "load" => Rest' = Code!Framed(content[block])'
         /\ tpc' # "load" /\ SlipTxPSW' = "READY" => Rest' = <<>>
         /\ tpc' = "start" => Rest' = <<"END">> \o Left'
         /\ tpc' \notin {"load", "start"} /\ SlipTxPSW' = "NOT_READY" => Rest' = <<>> \o Left'
         /\ tpc' \notin {"load", "start"} /\ SlipTxPSW' = "ESCAPE" => Rest' = <<SlipTxTSB'>> \o Left'
         /\ tpc' \notin {"load", "start"} /\ SlipTxPSW' = "END" => Rest' = <<>>
  BY DEF Ctl, Rest, Left

\* The property in the terms of the proof.
LEMMA LineIs == (LineIsEncoding <=> (line \o InDR) \o Rest = Code!Stream(taken))
  BY DEF LineIsEncoding, InDR

\* The same after a step.
LEMMA LineIsNext == (LineIsEncoding' <=> (line' \o InDR') \o Rest' = Code!Stream(taken'))
  BY DEF LineIsEncoding, InDR

\* A byte goes from what is left into DR, and from there to the line.
LEMMA OneByte ==
  ASSUME NEW a \in Seq(Bytes), NEW x \in Bytes, NEW b \in Seq(Bytes)
  PROVE  /\ (a \o <<>>) \o (<<x>> \o b) = (a \o <<x>>) \o b
         /\ <<>> \o b = b /\ b \o <<>> = b
         /\ Append(a, x) \o <<>> = a \o <<x>>
<1>1. <<x>> \in Seq(Bytes) /\ a \o <<>> = a /\ b \o <<>> = b /\ <<>> \o b = b /\ Append(a, x) = a \o <<x>>
  OBVIOUS
<1>2. ASSUME NEW p \in Seq(Bytes), NEW q \in Seq(Bytes), NEW r \in Seq(Bytes)
      PROVE  (p \o q) \o r = p \o (q \o r)
  OBVIOUS
<1>3. Append(a, x) \o <<>> = Append(a, x)
  OBVIOUS
<1> QED
  BY <1>1, <1>2, <1>3

\* What is left of the block on the line.
LEMMA LeftIs ==
  ASSUME Data, Sent
  PROVE  /\ content[SlipTxBlock] \in Seq(Bytes) /\ SlipTxBlock \in Blocks
         /\ pos + SlipTxLength = Len(content[SlipTxBlock])
         /\ Left = Code!Encode(SubSeq(content[SlipTxBlock], pos + 1, Len(content[SlipTxBlock]))) \o <<"END">>
         /\ Left \in Seq(Bytes)
<1> DEFINE f == content[SlipTxBlock]
<1>1. f \in Seq(Bytes) /\ SlipTxBlock \in Blocks /\ pos + SlipTxLength = Len(f)
      /\ pos \in Nat /\ SlipTxLength \in Nat
  BY DEF Data
<1>2. Left = Code!Encode(SubSeq(f, pos + 1, Len(f))) \o <<"END">>
  BY <1>1 DEF Left
<1> HIDE DEF f
<1>3. SubSeq(f, pos + 1, Len(f)) \in Seq(Bytes)
  BY <1>1
<1>4. Code!Encode(SubSeq(f, pos + 1, Len(f))) \in Seq(Bytes)
  BY <1>3, EncodeType
<1>5. <<"END">> \in Seq(Bytes)
  BY DEF Bytes
<1>6. Code!Encode(SubSeq(f, pos + 1, Len(f))) \o <<"END">> \in Seq(Bytes)
  BY <1>4, <1>5, Joined
<1> QED
  BY <1>1, <1>2, <1>6 DEF f

\* The handler takes the next byte: what is left without it.
LEMMA LeftNext ==
  ASSUME Data, Sent, SlipTxLength > 0, NEW c, c = content[SlipTxBlock][pos + 1],
         UNCHANGED <<content, SlipTxBlock>>, pos' = pos + 1, SlipTxLength' = SlipTxLength - 1
  PROVE  /\ c \in Bytes /\ Left' \in Seq(Bytes)
         /\ Left = Code!Stuffed(c) \o Left'
<1> DEFINE f == content[SlipTxBlock]
           E == Code!Encode(SubSeq(f, (pos + 1) + 1, Len(f)))
<1>1. f \in Seq(Bytes) /\ pos + SlipTxLength = Len(f) /\ pos \in Nat /\ SlipTxLength \in Nat
      /\ Left = Code!Encode(SubSeq(f, pos + 1, Len(f))) \o <<"END">>
  BY LeftIs DEF Data
<1>2. pos + 1 \in 1 .. Len(f) /\ (pos + 1) + (SlipTxLength - 1) = Len(f)
  <2>1. pos + SlipTxLength = Len(f) /\ pos \in Nat /\ SlipTxLength \in Nat
    BY <1>1
  <2> QED
    BY <2>1
<1>3. Left' = E \o <<"END">>
  <2>1. Left' = Code!Encode(SubSeq(f, (pos + 1) + 1, (pos + 1) + (SlipTxLength - 1))) \o <<"END">>
    BY DEF Left
  <2> QED
    BY <1>2, <2>1
<1>4. c = f[pos + 1] /\ c \in Bytes
  BY <1>1, <1>2
<1> HIDE DEF f
<1>5. SubSeq(f, (pos + 1) + 1, Len(f)) \in Seq(Bytes)
  BY <1>1
<1>6. E \in Seq(Bytes) /\ Code!Stuffed(c) \in Seq(Bytes)
  BY <1>4, <1>5, EncodeType, StuffedIs
<1>7. <<"END">> \in Seq(Bytes)
  BY DEF Bytes
<1>8. Code!Encode(SubSeq(f, pos + 1, Len(f))) = Code!Stuffed(c) \o E
  BY <1>1, <1>2, <1>4, EncodeNext
<1> HIDE DEF E
<1>9. ASSUME NEW p \in Seq(Bytes), NEW q \in Seq(Bytes), NEW r \in Seq(Bytes)
      PROVE  (p \o q) \o r = p \o (q \o r)
  OBVIOUS
<1>10. (Code!Stuffed(c) \o E) \o <<"END">> = Code!Stuffed(c) \o (E \o <<"END">>)
  BY <1>6, <1>7, <1>9
<1>11. E \o <<"END">> \in Seq(Bytes)
  BY <1>6, <1>7, Joined
<1>12. Left = Code!Stuffed(c) \o Left'
  BY <1>1, <1>3, <1>8, <1>10
<1> QED
  BY <1>3, <1>4, <1>11, <1>12

LInv == Ctl /\ Own /\ Data /\ Busy /\ LineIsEncoding

\* A step that touches neither the line nor what is left.
LEMMA LineStays ==
  ASSUME LineIsEncoding, UNCHANGED <<line, DR, taken>>, Rest' = Rest
  PROVE  LineIsEncoding'
  BY LineIs, LineIsNext DEF InDR

\* A sender fills a block that nobody sends: the line does not notice.
LEMMA SenderLine ==
  ASSUME LInv, NEW s \in Senders, Sender(s) \/ (\E b \in Blocks, f \in Frames : Send(s, b, f))
  PROVE  Busy' /\ LineIsEncoding'
<1>1. UNCHANGED <<tpc, block, isrVars, DR, TXEIE, line, taken>>
  BY DEF Sender, Insert, Signal, Send
<1>2. Busy'
  BY <1>1 DEF LInv, Busy, Sent, isrVars
<1>3. /\ tpc = "load" => content'[block] = content[block]
      /\ Sent => content'[SlipTxBlock] = content[SlipTxBlock]
  <2>1. ASSUME NEW x \in Blocks, NEW f \in Frames, Send(s, x, f)
        PROVE  /\ tpc = "load" => content'[block] = content[block]
               /\ Sent => content'[SlipTxBlock] = content[SlipTxBlock]
    <3>1. x \in free /\ OnePlace(x) /\ \A b \in Blocks : b # x => content'[b] = content[b]
      BY <2>1 DEF Send, LInv, Own, Data
    <3>2. tpc = "load" => block \in Blocks /\ block # x
      BY <3>1 DEF LInv, Own, OwnType, Pointers, OnePlace
    <3>3. Sent => SlipTxBlock \in Blocks /\ SlipTxBlock # x
      <4>1. ASSUME Sent PROVE SlipTxBlock \in Blocks /\ SlipTxBlock # x
        <5>1. InFlight(SlipTxBlock) \/ block = SlipTxBlock
          BY <4>1 DEF Sent, InFlight, LInv, Own, Pointers
        <5> QED
          BY <3>1, <4>1, <5>1 DEF OnePlace, LInv, Data
      <4> QED
        BY <4>1
    <3> QED
      BY <3>1, <3>2, <3>3
  <2>2. CASE Sender(s)
    BY <2>2 DEF Sender, Insert, Signal
  <2> QED
    BY <2>1, <2>2
<1>4. Rest' = Rest
  <2>1. Ctl
    BY DEF LInv
  <2>2. SlipTxPSW # "READY" => Left' = Left
    BY <1>1, <1>3 DEF LInv, Busy, Left, isrVars
  <2>3. tpc = "load" => Code!Framed(content[block])' = Code!Framed(content[block])
    BY <1>1, <1>3
  <2> QED
    BY <1>1, <2>1, <2>2, <2>3, RestIs DEF Rest, Left, isrVars, Ctl
<1> QED
  BY <1>1, <1>2, <1>4, LineStays DEF LInv

\* The line and the frames taken are typed, and so is what is left of a block.
LEMMA LineTypes ==
  ASSUME LInv
  PROVE  /\ line \in Seq(Bytes) /\ taken \in Seq(Seq(Bytes)) /\ InDR \in Seq(Bytes)
         /\ SlipTxPSW # "READY" => Left \in Seq(Bytes)
<1>1. line \in Seq(Bytes) /\ taken \in Seq(Seq(Bytes)) /\ DR \in Bytes \cup {NONE}
  BY DEF LInv, Data
<1>2. InDR \in Seq(Bytes)
  BY <1>1 DEF InDR
<1>3. SlipTxPSW # "READY" => Left \in Seq(Bytes)
  BY LeftIs DEF LInv, Busy
<1> QED
  BY <1>1, <1>2, <1>3

\* The task takes a frame: its whole encoding is still to be sent.
LEMMA GetLine == ASSUME LInv, Get PROVE LineIsEncoding'
<1>1. SlipTxPSW = "READY" /\ tpc = "get" /\ DR = NONE
      /\ UNCHANGED <<content, SlipTxPSW, DR, line>> /\ tpc' # "start"
  BY DEF Get, LInv, Ctl, isrVars
<1>2. Ctl /\ Ctl'
  BY TaskCtl DEF TransmitTask, LInv
<1>3. Rest = <<>>
  BY <1>1, <1>2, RestIs
<1>4. CASE SlipTxQueue = <<>>
  <2>1. tpc' = "wait" /\ taken' = taken
    BY <1>4 DEF Get
  <2>2. Rest' = Rest
    BY <1>1, <1>2, <1>3, <2>1, RestIsNext
  <2> QED
    BY <1>1, <2>1, <2>2, LineStays DEF LInv
<1>5. CASE SlipTxQueue # <<>>
  <2> DEFINE f == content[Head(SlipTxQueue)]
  <2>1. tpc' = "load" /\ block' = Head(SlipTxQueue) /\ taken' = Append(taken, f)
    BY <1>5 DEF Get
  <2>2. f \in Seq(Bytes)
    <3>1. Head(SlipTxQueue) \in Blocks
      BY <1>5 DEF LInv, Own, OwnType
    <3> QED
      BY <3>1 DEF LInv, Data
  <2>3. Rest' = Code!Framed(f)
    BY <1>1, <1>2, <2>1, RestIsNext
  <2> HIDE DEF f
  <2>4. Code!Stream(taken') = Code!Stream(taken) \o Code!Framed(f)
    BY <2>1, <2>2, LineTypes, StreamGrows
  <2>5. InDR = <<>> /\ InDR' = <<>> /\ line' = line
    BY <1>1 DEF InDR
  <2>6. (line \o <<>>) \o <<>> = line \o <<>>
    BY LineTypes
  <2> QED
    BY <1>3, <2>3, <2>4, <2>5, <2>6, LineIs, LineIsNext DEF LInv
<1> QED
  BY <1>4, <1>5

\* The task loads it: the first delimiter, and the frame from its first byte.
LEMMA LoadLine == ASSUME LInv, Load PROVE LineIsEncoding'
<1> DEFINE f == content[block]
           E == Code!Encode(f)
<1>1. Ctl /\ Ctl' /\ tpc = "load" /\ tpc' = "start" /\ UNCHANGED <<line, DR, taken>>
  BY TaskCtl DEF TransmitTask, LInv, Load
<1>2. f \in Seq(Bytes)
  BY <1>1 DEF LInv, Own, OwnType, Pointers, Data
<1>3. Left' = Code!Encode(SubSeq(f, 0 + 1, 0 + Len(f))) \o <<"END">>
  BY DEF Load, Left
<1>4. Rest = Code!Framed(f) /\ Rest' = <<"END">> \o Left'
  BY <1>1, RestIs, RestIsNext
<1> HIDE DEF f
<1>5. SubSeq(f, 0 + 1, 0 + Len(f)) = f
  BY <1>2
<1>6. Code!Framed(f) = (<<"END">> \o E) \o <<"END">>
  BY DEF Code!Framed
<1>7. E \in Seq(Bytes)
  BY <1>2, EncodeType
<1>8. <<"END">> \in Seq(Bytes)
  BY DEF Bytes
<1>9. Left' = E \o <<"END">>
  BY <1>3, <1>5
<1> HIDE DEF E
<1>10. ASSUME NEW p \in Seq(Bytes), NEW q \in Seq(Bytes), NEW r \in Seq(Bytes)
       PROVE  (p \o q) \o r = p \o (q \o r)
  OBVIOUS
<1>11. (<<"END">> \o E) \o <<"END">> = <<"END">> \o (E \o <<"END">>)
  BY <1>7, <1>8, <1>10
<1>12. Rest' = Rest
  BY <1>4, <1>6, <1>9, <1>11
<1> QED
  BY <1>1, <1>12, LineStays DEF LInv

\* A byte x of what is left goes into the empty DR, whoever writes it.
LEMMA ByteToDR ==
  ASSUME LInv, DR = NONE, NEW x \in Bytes, NEW b \in Seq(Bytes), DR' = x,
         UNCHANGED <<line, taken>>, Rest = <<x>> \o b, Rest' = b
  PROVE  LineIsEncoding'
<1>1. InDR = <<>> /\ InDR' = <<x>>
  BY TxAssumption DEF InDR
<1>2. line \in Seq(Bytes)
  BY LineTypes
<1>3. (line \o <<>>) \o (<<x>> \o b) = (line \o <<x>>) \o b
  BY <1>2, OneByte
<1> QED
  BY <1>1, <1>3, LineIs, LineIsNext DEF LInv

\* The task writes the first delimiter.
LEMMA StartLine == ASSUME LInv, Start PROVE LineIsEncoding'
<1>1. Ctl /\ Ctl' /\ tpc = "start" /\ tpc' = "enable" /\ DR = NONE /\ DR' = "END"
      /\ SlipTxPSW = "NOT_READY" /\ UNCHANGED <<SlipTxPSW, line, taken>>
  BY TaskCtl DEF TransmitTask, LInv, Ctl, Start, isrVars
<1>2. Left' = Left
  BY DEF Start, Left, isrVars
<1>3. Left \in Seq(Bytes) /\ "END" \in Bytes
  BY <1>1, LineTypes DEF Bytes
<1>4. Rest = <<"END">> \o Left /\ Rest' = <<>> \o Left'
  BY <1>1, RestIs, RestIsNext
<1>5. Rest' = Left
  BY <1>2, <1>3, <1>4
<1> QED
  BY <1>1, <1>3, <1>4, <1>5, ByteToDR

\* The task's steps: what it takes is still to be sent, and its first
\* delimiter goes to DR.
LEMMA TaskLine == ASSUME LInv, TransmitTask PROVE Busy' /\ LineIsEncoding'
<1>1. Ctl /\ Ctl'
  BY TaskCtl DEF LInv
<1>2. CASE Wait \/ Check \/ Enable
  <2>1. UNCHANGED <<content, isrVars, DR, line, taken>> /\ tpc \notin {"load", "start"}
        /\ tpc' \notin {"load", "start"} /\ (Sent => Sent')
    BY <1>2 DEF Wait, Check, Enable, LInv, Ctl, Sent
  <2>2. Left' = Left /\ UNCHANGED <<SlipTxPSW, SlipTxTSB>>
    BY <2>1 DEF Left, isrVars
  <2>3. Rest' = Rest
    BY <1>1, <2>1, <2>2, RestIs, RestIsNext DEF Ctl
  <2> QED
    BY <2>1, <2>2, <2>3, LineStays DEF LInv, Busy
<1>3. CASE Get
  <2>1. SlipTxPSW' = "READY"
    BY <1>3 DEF Get, LInv, Ctl, isrVars
  <2> QED
    BY <1>3, <2>1, GetLine DEF Busy
<1>4. CASE Load
  BY <1>4, LoadLine DEF Load, Busy, Sent
<1>5. CASE Start
  <2>1. Busy'
    BY <1>5 DEF Start, LInv, Ctl, Busy, Sent, isrVars
  <2> QED
    BY <1>5, <2>1, StartLine
<1> QED
  BY <1>2, <1>3, <1>4, <1>5 DEF TransmitTask

\* The handler reads a byte: it goes out as it is, or as an escape pair.
LEMMA ByteLine == ASSUME LInv, IsrByte PROVE Busy' /\ LineIsEncoding'
<1> DEFINE c == content[SlipTxBlock][pos + 1]
<1>1. Ctl /\ Ctl' /\ DR = NONE /\ SlipTxPSW = "NOT_READY" /\ tpc \notin {"load", "start"} /\ tpc' = tpc
      /\ Sent /\ Sent' /\ Data /\ UNCHANGED <<line, taken>>
  <2>1. Ctl /\ Ctl'
    BY IsrCtl DEF Isr, LInv
  <2> QED
    BY <2>1 DEF IsrByte, TxInterrupt, LInv, Ctl, Sent
<1>2. SlipTxLength > 0 /\ UNCHANGED <<content, SlipTxBlock>> /\ pos' = pos + 1
      /\ SlipTxLength' = SlipTxLength - 1
  BY DEF IsrByte
<1>3. /\ DR' = IF c = "END" THEN "ESC" ELSE c
      /\ SlipTxPSW' = IF c \in {"END", "ESC"} THEN "ESCAPE" ELSE SlipTxPSW
      /\ SlipTxTSB' = IF c = "END" THEN "ESC_END" ELSE IF c = "ESC" THEN "ESC_ESC" ELSE SlipTxTSB
  BY DEF IsrByte
<1>4. c \in Bytes /\ Left' \in Seq(Bytes) /\ Left = Code!Stuffed(c) \o Left'
  BY <1>1, <1>2, LeftNext
<1> HIDE DEF c
<1>5. Rest = <<>> \o Left
  BY <1>1, RestIs
<1>6. Left \in Seq(Bytes)
  BY <1>1, LineTypes
<1>7. Rest = Code!Stuffed(c) \o Left'
  BY <1>4, <1>5, <1>6
<1>8. CASE c \in {"END", "ESC"}
  <2> DEFINE x == IF c = "END" THEN "ESC_END" ELSE "ESC_ESC"
  <2>1. DR' = "ESC" /\ SlipTxPSW' = "ESCAPE" /\ SlipTxTSB' = x
    BY <1>3, <1>8
  <2>2. Code!Stuffed(c) = <<"ESC", x>>
    BY <1>4, <1>8, StuffedIs
  <2>3. "ESC" \in Bytes /\ x \in Bytes
    BY DEF Bytes
  <2>4. Rest' = <<x>> \o Left'
    BY <1>1, <2>1, RestIsNext
  <2> HIDE DEF x
  <2>5. <<"ESC", x>> = <<"ESC">> \o <<x>> /\ <<"ESC">> \in Seq(Bytes) /\ <<x>> \in Seq(Bytes)
    BY <2>3
  <2>6. ASSUME NEW p \in Seq(Bytes), NEW q \in Seq(Bytes), NEW r \in Seq(Bytes)
        PROVE  (p \o q) \o r = p \o (q \o r)
    OBVIOUS
  <2>7. Rest = <<"ESC">> \o (<<x>> \o Left')
    BY <1>4, <1>7, <2>2, <2>5, <2>6
  <2>8. <<x>> \o Left' \in Seq(Bytes)
    BY <1>4, <2>5, Joined
  <2>9. LineIsEncoding'
    BY <1>1, <2>1, <2>3, <2>4, <2>7, <2>8, ByteToDR
  <2> QED
    BY <1>1, <2>1, <2>3, <2>9 DEF Busy
<1>9. CASE c \notin {"END", "ESC"}
  <2>1. DR' = c /\ SlipTxPSW' = "NOT_READY"
    BY <1>1, <1>3, <1>9
  <2>2. Rest = <<c>> \o Left'
    BY <1>4, <1>7, <1>9, StuffedIs
  <2>3. Rest' = <<>> \o Left'
    BY <1>1, <2>1, RestIsNext
  <2>4. Rest' = Left'
    BY <1>4, <2>3
  <2>5. LineIsEncoding'
    BY <1>1, <1>4, <2>1, <2>2, <2>4, ByteToDR
  <2> QED
    BY <1>1, <2>1, <2>5 DEF Busy
<1> QED
  BY <1>8, <1>9

\* The other runs of the handler: the second byte of a pair, the last
\* delimiter, and the end of the frame, when nothing is left.
LEMMA IsrLine == ASSUME LInv, Isr PROVE Busy' /\ LineIsEncoding'
<1>1. Ctl /\ Ctl' /\ DR = NONE /\ tpc \notin {"load", "start"} /\ tpc' = tpc /\ Sent /\ Data
      /\ UNCHANGED <<line, taken>>
  <2>1. Ctl /\ Ctl'
    BY IsrCtl DEF LInv
  <2> QED
    BY <2>1 DEF Isr, IsrEscaped, IsrDone, IsrByte, IsrEnd, TxInterrupt, LInv, Ctl, Sent
<1>2. CASE IsrEscaped
  <2>1. SlipTxPSW = "ESCAPE" /\ SlipTxPSW' = "NOT_READY" /\ DR' = SlipTxTSB /\ TXEIE' = TXEIE /\ Left' = Left
    BY <1>2 DEF IsrEscaped, Left
  <2>2. SlipTxTSB \in Bytes /\ Left \in Seq(Bytes) /\ Sent'
    BY <1>1, <2>1, LineTypes DEF LInv, Busy, Sent
  <2>3. Rest = <<SlipTxTSB>> \o Left /\ Rest' = <<>> \o Left'
    BY <1>1, <2>1, RestIs, RestIsNext
  <2>4. Rest' = Left
    BY <2>1, <2>2, <2>3
  <2>5. LineIsEncoding'
    BY <1>1, <2>1, <2>2, <2>3, <2>4, ByteToDR
  <2> QED
    BY <2>1, <2>2, <2>5 DEF Busy
<1>3. CASE IsrDone
  <2>1. SlipTxPSW = "END" /\ SlipTxPSW' = "READY" /\ DR' = DR
    BY <1>3 DEF IsrDone
  <2>2. Rest' = Rest
    BY <1>1, <2>1, RestIs, RestIsNext
  <2> QED
    BY <1>1, <2>1, <2>2, LineStays DEF LInv, Busy
<1>4. CASE IsrByte
  BY <1>4, ByteLine
<1>5. CASE IsrEnd
  <2>1. SlipTxPSW = "NOT_READY" /\ SlipTxPSW' = "END" /\ DR' = "END" /\ TXEIE' = TXEIE /\ SlipTxLength = 0
    BY <1>1, <1>5 DEF IsrEnd, TxInterrupt, Ctl
  <2> DEFINE f == content[SlipTxBlock]
  <2>2. f \in Seq(Bytes) /\ pos = Len(f) /\ Left = Code!Encode(SubSeq(f, pos + 1, Len(f))) \o <<"END">>
    BY <1>1, <2>1, LeftIs DEF Data
  <2> HIDE DEF f
  <2>3. SubSeq(f, pos + 1, Len(f)) = <<>>
    BY <2>2
  <2>4. Left = <<>> \o <<"END">>
    BY <2>2, <2>3, EncodeNothing
  <2>5. Rest = <<>> \o Left /\ Rest' = <<>>
    BY <1>1, <2>1, RestIs, RestIsNext
  <2>6. Rest = <<"END">> \o <<>>
    BY <2>4, <2>5
  <2>7. "END" \in Bytes /\ <<>> \in Seq(Bytes)
    BY DEF Bytes
  <2>8. LineIsEncoding'
    BY <1>1, <2>1, <2>5, <2>6, <2>7, ByteToDR
  <2>9. Sent'
    BY <1>1, <2>1 DEF Sent
  <2> QED
    BY <2>1, <2>8, <2>9 DEF Busy
<1> QED
  BY <1>2, <1>3, <1>4, <1>5 DEF Isr

\* The USART moves the byte in DR to the line.
LEMMA ShiftLine == ASSUME LInv, Shift PROVE Busy' /\ LineIsEncoding'
<1>1. DR # NONE /\ line' = Append(line, DR) /\ DR' = NONE
      /\ UNCHANGED <<content, block, isrVars, tpc, TXEIE, taken>>
  BY DEF Shift
<1>2. Rest' = Rest /\ Busy'
  BY <1>1 DEF LInv, Rest, Busy, Sent, isrVars
<1>3. InDR = <<DR>> /\ InDR' = <<>>
  BY <1>1 DEF InDR
<1>4. DR \in Bytes /\ line \in Seq(Bytes)
  BY <1>1 DEF LInv, Data
<1>5. line' \o InDR' = line \o InDR
  <2>1. <<>> \in Seq(Bytes)
    OBVIOUS
  <2> QED
    BY <1>1, <1>3, <1>4, <2>1, OneByte
<1> QED
  BY <1>1, <1>2, <1>5, LineIs, LineIsNext DEF LInv

\* Nothing was taken and nothing is on the line.
LEMMA InitLine == Init => Busy /\ LineIsEncoding
<1> SUFFICES ASSUME Init PROVE Busy /\ LineIsEncoding
  OBVIOUS
<1>1. Busy
  BY DEF Init, Busy, Sent
<1>2. Rest = <<>> /\ InDR = <<>> /\ line = <<>> /\ taken = <<>>
  BY DEF Init, Rest, InDR
<1>3. Code!Stream(<<>>) = <<>>
  <2> DEFINE s == [k \in DOMAIN <<>> |-> Code!Framed(<<>>[k])]
  <2>1. s = <<>>
    OBVIOUS
  <2>2. <<>> \in Seq(Seq(Bytes)) /\ Len(<<>>) = 0
    OBVIOUS
  <2>3. Code!FlattenSeq(<<>>) = <<>>
    BY <2>2, FlattenIs, ZenonT(60) DEF Flattens
  <2> QED
    BY <2>1, <2>3 DEF Code!Stream
<1> QED
  BY <1>1, <1>2, <1>3, LineIs

\* Every step sends the next byte of the encoding, or none.
LEMMA NextLine == LInv /\ [Next]_vars => (Busy /\ LineIsEncoding)'
<1> SUFFICES ASSUME LInv, [Next]_vars PROVE Busy' /\ LineIsEncoding'
  OBVIOUS
<1>1. CASE \E s \in Senders : Sender(s) \/ \E b \in Blocks, f \in Frames : Send(s, b, f)
  BY <1>1, SenderLine
<1>2. CASE TransmitTask
  BY <1>2, TaskLine
<1>3. CASE Isr
  BY <1>3, IsrLine
<1>4. CASE Shift
  BY <1>4, ShiftLine
<1>5. CASE UNCHANGED vars
  <2>1. Rest' = Rest /\ Busy'
    BY <1>5 DEF vars, LInv, Rest, Busy, Sent, isrVars
  <2> QED
    BY <1>5, <2>1, LineStays DEF vars, LInv
<1> QED
  BY <1>1, <1>2, <1>3, <1>4, <1>5 DEF Next

\* At any moment the line, DR and what is still to be sent are the encoding
\* of the frames taken, in their order: no byte is lost, repeated or escaped
\* twice.
THEOREM LineCarriesTheFrames == Spec => []LineIsEncoding
<1> QED
  BY InitLine, NextLine, InitData, NextData, Control, Ownership, PTL DEF Spec, LInv
=============================================================================
