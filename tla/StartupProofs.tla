---------------------------- MODULE StartupProofs ----------------------------
(***************************************************************************)
(* Proofs about the start of the serial demo, for any pool, any number of  *)
(* sockets and permits, and any set of creations that may fail.            *)
(*                                                                         *)
(* Three layers.  Boot: where main() is decides what exists, what is still *)
(* untouched and that the interrupts are masked; a crash then needs a      *)
(* creation that failed.  Placed: no block is in two places.  Served: no   *)
(* socket is offered twice or offered and served; with that the permits    *)
(* can be counted.                                                         *)
(***************************************************************************)
EXTENDS Startup, FiniteSetTheorems, TLAPS

\* TypeOK, but for the upper bound of the permits, which follows later.
Types ==
  /\ main \in {"hal", "sockets", "pool", "uart", "block", "queues", "rxEvent",
               "txEvent", "tasks", "kernel", "started", "returned"}
  /\ masked \in BOOLEAN /\ tick \in {0, 1} /\ irq \in BOOLEAN /\ dr \in {"end", "data", NONE}
  /\ made \subseteq Objects \cup Tasks
  /\ failed \subseteq MayFail
  /\ crashed \subseteq Objects \cup {"scheduler"}
  /\ busy \subseteq Blocks /\ rxBlock \in Blocks \cup {NONE}
  /\ inPacket \in BOOLEAN /\ count \in 0 .. 1
  /\ rxq \in Seq(Frames) /\ rxSignal \in {0, 1} /\ awake \in BOOLEAN
  /\ txq \in Seq(Blocks) /\ txSignal \in {0, 1}
  /\ used \subseteq Sockets /\ acceptq \in Seq(Sockets) /\ clients \subseteq Sockets
  /\ permits \in Nat
  /\ server \in {"create", "permit", "accept"}

Untouched == /\ rxq = <<>> /\ txq = <<>>
             /\ used = {} /\ acceptq = <<>> /\ clients = {}
             /\ permits = 0 /\ server = "create"

\* From the first kernel call to the start of the scheduler the interrupts
\* are masked, and the receive interrupt is switched on only in between.
Phase ==
  /\ main \notin {"hal", "sockets", "started"} => masked
  /\ main \in {"hal", "sockets", "pool", "uart"} => ~irq
  /\ main \in {"hal", "sockets", "pool", "uart", "block"} => busy = {} /\ rxBlock = NONE
  /\ main # "started" => Untouched

\* What main() or the server task has tried to make exists or failed.
Known ==
  /\ main \notin {"hal", "sockets"} => {"acceptQueue"} \cup Sockets \subseteq made \cup failed
  /\ main \in {"txEvent", "tasks", "kernel", "started", "returned"} => "rxEvent" \in made \cup failed
  /\ main \in {"tasks", "kernel", "started", "returned"} => "txEvent" \in made \cup failed
  /\ server # "create" => "semaphore" \in made \cup failed

Boot == Types /\ Phase /\ Known /\ CrashNeedsFailure

-----------------------------------------------------------------------------
(***************************************************************************)
(* Queues of blocks, of sockets and of frames.                             *)
(***************************************************************************)
Once(q) == \A i, j \in DOMAIN q : i # j => q[i] # q[j]
OnceFrames(q) == \A i, j \in DOMAIN q : i # j => q[i].blk # q[j].blk

\* The items of a sequence after an append.
LEMMA AppendAt ==
  ASSUME NEW S, NEW s \in Seq(S), NEW e \in S
  PROVE  /\ Append(s, e) \in Seq(S) /\ Append(s, e) # <<>> /\ Len(s) \in Nat
         /\ DOMAIN s = 1 .. Len(s) /\ DOMAIN Append(s, e) = 1 .. Len(s) + 1
         /\ Append(s, e)[Len(s) + 1] = e
         /\ \A k \in 1 .. Len(s) : Append(s, e)[k] = s[k]
  OBVIOUS

\* The items of a sequence after its head is taken.
LEMMA TailAt ==
  ASSUME NEW S, NEW s \in Seq(S), s # <<>>
  PROVE  /\ Tail(s) \in Seq(S) /\ Head(s) \in S /\ Head(s) = s[1] /\ Len(s) >= 1 /\ Len(s) \in Nat
         /\ DOMAIN s = 1 .. Len(s) /\ DOMAIN Tail(s) = 1 .. Len(s) - 1
         /\ \A k \in 1 .. Len(s) - 1 : Tail(s)[k] = s[k + 1]
  OBVIOUS

\* An append adds one block, and none twice if it was not there.
LEMMA Appended ==
  ASSUME NEW S, NEW q \in Seq(S), NEW e \in S
  PROVE  /\ Append(q, e) \in Seq(S)
         /\ \A b : InQueue(b, Append(q, e)) <=> InQueue(b, q) \/ b = e
         /\ Once(q) /\ ~InQueue(e, q) => Once(Append(q, e))
<1> DEFINE r == Append(q, e)
<1>1. /\ r \in Seq(S) /\ Len(q) \in Nat /\ DOMAIN q = 1 .. Len(q) /\ DOMAIN r = 1 .. Len(q) + 1
      /\ r[Len(q) + 1] = e /\ \A k \in 1 .. Len(q) : r[k] = q[k]
  BY AppendAt
<1>2. /\ \A k \in 1 .. Len(q) + 1 : k = Len(q) + 1 \/ k \in 1 .. Len(q)
      /\ 1 .. Len(q) \subseteq 1 .. Len(q) + 1 /\ Len(q) + 1 \in 1 .. Len(q) + 1
  BY <1>1
<1> HIDE DEF r
<1>3. \A b : InQueue(b, r) <=> InQueue(b, q) \/ b = e
  BY <1>1, <1>2 DEF InQueue
<1>4. Once(q) /\ ~InQueue(e, q) => Once(r)
  BY <1>1, <1>2 DEF InQueue, Once
<1> QED
  BY <1>1, <1>3, <1>4 DEF r

\* Taking the head removes one block.
LEMMA Removed ==
  ASSUME NEW S, NEW q \in Seq(S), q # <<>>, Once(q)
  PROVE  /\ Tail(q) \in Seq(S) /\ Head(q) \in S /\ Once(Tail(q))
         /\ ~InQueue(Head(q), Tail(q))
         /\ \A b : InQueue(b, q) <=> InQueue(b, Tail(q)) \/ b = Head(q)
<1> DEFINE r == Tail(q)
           h == Head(q)
<1>1. /\ r \in Seq(S) /\ h \in S /\ Len(q) \in Nat /\ Len(q) >= 1
      /\ DOMAIN q = 1 .. Len(q) /\ DOMAIN r = 1 .. Len(q) - 1
      /\ h = q[1] /\ \A k \in 1 .. Len(q) - 1 : r[k] = q[k + 1]
  BY TailAt
<1>2. /\ 1 \in 1 .. Len(q) /\ \A k \in 1 .. Len(q) - 1 : k + 1 \in 1 .. Len(q) /\ k + 1 # 1
      /\ \A k \in 1 .. Len(q) : k = 1 \/ (k - 1 \in 1 .. Len(q) - 1 /\ (k - 1) + 1 = k)
      /\ \A j, k \in 1 .. Len(q) - 1 : j # k => j + 1 # k + 1
  BY <1>1
<1> HIDE DEF r, h
<1>3. Once(r)
  BY <1>1, <1>2, SMTT(30) DEF Once
<1>4. ~InQueue(h, r)
  BY <1>1, <1>2 DEF Once, InQueue
<1>5. \A b : InQueue(b, q) <=> InQueue(b, r) \/ b = h
  <2>1. ASSUME NEW b, InQueue(b, q) PROVE InQueue(b, r) \/ b = h
    <3>1. PICK k \in 1 .. Len(q) : q[k] = b
      BY <1>1, <2>1 DEF InQueue
    <3>2. k # 1 => k - 1 \in 1 .. Len(q) - 1 /\ r[k - 1] = b
      BY <1>1, <1>2, <3>1
    <3> QED
      BY <1>1, <3>1, <3>2 DEF InQueue
  <2>2. ASSUME NEW b, InQueue(b, r) \/ b = h PROVE InQueue(b, q)
    BY <1>1, <1>2, <2>2 DEF InQueue
  <2> QED
    BY <2>1, <2>2
<1> QED
  BY <1>1, <1>3, <1>4, <1>5 DEF r, h

\* The same for a queue of frames.
LEMMA FramesAppended ==
  ASSUME NEW q \in Seq(Frames), NEW e \in Frames
  PROVE  /\ Append(q, e) \in Seq(Frames)
         /\ \A b : InFrames(b, Append(q, e)) <=> InFrames(b, q) \/ b = e.blk
         /\ OnceFrames(q) /\ ~InFrames(e.blk, q) => OnceFrames(Append(q, e))
<1> DEFINE r == Append(q, e)
<1>1. /\ r \in Seq(Frames) /\ Len(q) \in Nat /\ DOMAIN q = 1 .. Len(q) /\ DOMAIN r = 1 .. Len(q) + 1
      /\ r[Len(q) + 1] = e /\ \A k \in 1 .. Len(q) : r[k] = q[k]
  BY AppendAt
<1>2. /\ \A k \in 1 .. Len(q) + 1 : k = Len(q) + 1 \/ k \in 1 .. Len(q)
      /\ 1 .. Len(q) \subseteq 1 .. Len(q) + 1 /\ Len(q) + 1 \in 1 .. Len(q) + 1
  BY <1>1
<1> HIDE DEF r
<1>3. \A b : InFrames(b, r) <=> InFrames(b, q) \/ b = e.blk
  BY <1>1, <1>2 DEF InFrames
<1>4. OnceFrames(q) /\ ~InFrames(e.blk, q) => OnceFrames(r)
  BY <1>1, <1>2 DEF InFrames, OnceFrames
<1> QED
  BY <1>1, <1>3, <1>4 DEF r

\* The same for a queue of frames.
LEMMA FramesRemoved ==
  ASSUME NEW q \in Seq(Frames), q # <<>>, OnceFrames(q)
  PROVE  /\ Tail(q) \in Seq(Frames) /\ Head(q) \in Frames /\ OnceFrames(Tail(q))
         /\ ~InFrames(Head(q).blk, Tail(q))
         /\ \A b : InFrames(b, q) <=> InFrames(b, Tail(q)) \/ b = Head(q).blk
<1> DEFINE r == Tail(q)
           h == Head(q)
<1>1. /\ r \in Seq(Frames) /\ h \in Frames /\ Len(q) \in Nat /\ Len(q) >= 1
      /\ DOMAIN q = 1 .. Len(q) /\ DOMAIN r = 1 .. Len(q) - 1
      /\ h = q[1] /\ \A k \in 1 .. Len(q) - 1 : r[k] = q[k + 1]
  BY TailAt
<1>2. /\ 1 \in 1 .. Len(q) /\ \A k \in 1 .. Len(q) - 1 : k + 1 \in 1 .. Len(q) /\ k + 1 # 1
      /\ \A k \in 1 .. Len(q) : k = 1 \/ (k - 1 \in 1 .. Len(q) - 1 /\ (k - 1) + 1 = k)
      /\ \A j, k \in 1 .. Len(q) - 1 : j # k => j + 1 # k + 1
  BY <1>1
<1> HIDE DEF r, h
<1>3. OnceFrames(r)
  BY <1>1, <1>2 DEF OnceFrames
<1>4. ~InFrames(h.blk, r)
  <2>1. \A k \in 1 .. Len(q) - 1 : r[k].blk # q[1].blk
    BY <1>1, <1>2 DEF OnceFrames
  <2> QED
    BY <1>1, <2>1 DEF InFrames
<1>5. \A b : InFrames(b, q) <=> InFrames(b, r) \/ b = h.blk
  <2>1. ASSUME NEW b, InFrames(b, q) PROVE InFrames(b, r) \/ b = h.blk
    <3>1. PICK k \in 1 .. Len(q) : q[k].blk = b
      BY <1>1, <2>1 DEF InFrames
    <3>2. k # 1 => k - 1 \in 1 .. Len(q) - 1 /\ r[k - 1].blk = b
      BY <1>1, <1>2, <3>1
    <3> QED
      BY <1>1, <3>1, <3>2 DEF InFrames
  <2>2. ASSUME NEW b, InFrames(b, r) \/ b = h.blk PROVE InFrames(b, q)
    <3>1. CASE InFrames(b, r)
      <4>1. PICK k \in 1 .. Len(q) - 1 : r[k].blk = b
        BY <1>1, <3>1 DEF InFrames
      <4>2. q[k + 1].blk = b /\ k + 1 \in 1 .. Len(q)
        BY <1>1, <1>2, <4>1
      <4> QED
        BY <1>1, <4>2 DEF InFrames
    <3>2. CASE b = h.blk
      BY <1>1, <1>2, <3>2 DEF InFrames
    <3> QED
      BY <2>2, <3>1, <3>2
  <2> QED
    BY <2>1, <2>2
<1> QED
  BY <1>1, <1>3, <1>4, <1>5 DEF r, h

-----------------------------------------------------------------------------
(***************************************************************************)
(* Boot                                                                    *)
(***************************************************************************)
LEMMA InitBoot == Init => Boot
<1> SUFFICES ASSUME Init PROVE Boot
  OBVIOUS
<1>1. Types
  <2>1. masked \in BOOLEAN /\ irq \in BOOLEAN /\ inPacket \in BOOLEAN /\ awake \in BOOLEAN
    BY Zenon DEF Init
  <2>2. main = "hal" /\ server = "create"
    BY DEF Init
  <2>3. <<>> \in Seq(Frames) /\ <<>> \in Seq(Blocks) /\ <<>> \in Seq(Sockets)
    OBVIOUS
  <2> QED
    BY <2>1, <2>2, <2>3 DEF Init, Types
<1>2. Phase
  BY DEF Init, Phase, Untouched
<1>3. Known /\ CrashNeedsFailure
  BY DEF Init, Known, CrashNeedsFailure
<1> QED
  BY <1>1, <1>2, <1>3 DEF Boot

\* A crash on what is known to have failed.
LEMMA CrashBoot ==
  ASSUME Boot, NEW S, S \subseteq made \cup failed, S \subseteq Objects, Crash(S \ made)
  PROVE  Boot'
<1>1. Types'
  BY DEF Boot, Types, Crash, rxVars, txVars, sockVars
<1>2. Phase' /\ Known'
  BY DEF Boot, Phase, Known, Untouched, Crash, rxVars, txVars, sockVars
<1>3. CrashNeedsFailure'
  BY DEF CrashNeedsFailure, Crash
<1> QED
  BY <1>1, <1>2, <1>3 DEF Boot

\* A creation makes each object or fails.
LEMMA CreateGives ==
  ASSUME Boot, NEW S, S \subseteq Objects \cup Tasks, Create(S)
  PROVE  /\ made' \subseteq Objects \cup Tasks /\ made \subseteq made' /\ made' \subseteq made \cup S
         /\ failed' \subseteq MayFail /\ failed \subseteq failed'
         /\ S \subseteq made' \cup failed'
         /\ masked' \in BOOLEAN /\ (masked => masked') /\ (main # "started" => masked')
         /\ UNCHANGED <<tick, crashed>>
<1>1. PICK F \in SUBSET (S \cap MayFail) : made' = made \cup (S \ F) /\ failed' = failed \cup F
  BY DEF Create
<1>2. masked' = (masked \/ ~Started) /\ masked \in BOOLEAN
  BY DEF Create, KernelCall, Boot, Types
<1>3. masked' \in BOOLEAN /\ (masked => masked') /\ (main # "started" => masked')
  BY <1>2, Zenon DEF Started
<1> QED
  BY <1>1, <1>3 DEF Create, Boot, Types

\* A step of main() keeps the start-up in order.
LEMMA MainBoot ==
  ASSUME Boot, Main
  PROVE  Boot'
<1> USE DEF Boot, After, Calls
<1>1. CASE HalInit \/ PoolInit \/ UartInit \/ QueuesInit
  <2>1. Types'
    <3>1. irq' \in BOOLEAN
      BY <1>1, Zenon DEF HalInit, PoolInit, UartInit, QueuesInit, Types
    <3>2. main' \in {"pool", "uart", "block", "rxEvent", "sockets"}
      BY <1>1 DEF HalInit, PoolInit, UartInit, QueuesInit
    <3>3. /\ busy' \subseteq Blocks /\ rxq' \in Seq(Frames) /\ txq' \in Seq(Blocks)
      <4>1. /\ rxq' = rxq \/ rxq' = <<>>
            /\ txq' = txq \/ txq' = <<>>
            /\ busy' = busy \/ busy' = {}
        BY <1>1 DEF HalInit, PoolInit, UartInit, QueuesInit, rxVars, txVars
      <4>2. <<>> \in Seq(Frames) /\ <<>> \in Seq(Blocks)
        OBVIOUS
      <4> QED
        BY <4>1, <4>2 DEF Types
    <3>4. UNCHANGED <<dr, kernelVars, rxBlock, inPacket, count, rxSignal, awake, txSignal, sockVars>>
      BY <1>1 DEF HalInit, PoolInit, UartInit, QueuesInit, rxVars, txVars
    <3> QED
      BY <3>1, <3>2, <3>3, <3>4 DEF Types, kernelVars, sockVars
  <2>2. Phase' /\ Known'
    BY <1>1 DEF HalInit, PoolInit, UartInit, QueuesInit, Phase, Known, Untouched, kernelVars, rxVars, txVars, sockVars
  <2>3. CrashNeedsFailure'
    BY <1>1 DEF HalInit, PoolInit, UartInit, QueuesInit, CrashNeedsFailure, kernelVars
  <2> QED
    BY <2>1, <2>2, <2>3
<1>2. CASE ReceiverInit
  <2>1. busy' \subseteq Blocks /\ rxBlock' \in Blocks \cup {NONE}
    BY <1>2 DEF ReceiverInit, GetRxBlock, Types
  <2>2. Types'
    BY <1>2, <2>1 DEF ReceiverInit, Types, kernelVars, txVars, sockVars
  <2>3. Phase' /\ Known'
    BY <1>2 DEF ReceiverInit, Phase, Known, Untouched, kernelVars, txVars, sockVars
  <2>4. CrashNeedsFailure'
    BY <1>2 DEF ReceiverInit, CrashNeedsFailure, kernelVars
  <2> QED
    BY <2>2, <2>3, <2>4
<1>3. ASSUME NEW S, S \subseteq Objects \cup Tasks, Create(S),
             \/ SlipSockInit /\ S = {"acceptQueue"} \cup Sockets
             \/ RxEventInit /\ S = {"rxEvent"}
             \/ TxEventInit /\ S = {"txEvent"}
             \/ CreateTasks /\ S = Tasks
      PROVE  Boot'
  <2>1. /\ made' \subseteq Objects \cup Tasks /\ made \subseteq made'
        /\ failed' \subseteq MayFail /\ failed \subseteq failed'
        /\ S \subseteq made' \cup failed'
        /\ masked' \in BOOLEAN /\ (main # "started" => masked')
        /\ UNCHANGED <<tick, crashed>>
    BY <1>3, CreateGives
  <2>2. /\ UNCHANGED <<irq, dr, busy, rxVars, txVars, acceptq, permits, server, clients>>
        /\ used' = {} \/ used' = used
        /\ \/ main = "sockets" /\ main' = "pool" /\ S = {"acceptQueue"} \cup Sockets
           \/ main = "rxEvent" /\ main' = "txEvent" /\ S = {"rxEvent"}
           \/ main = "txEvent" /\ main' = "tasks" /\ S = {"txEvent"}
           \/ main = "tasks" /\ main' = "kernel" /\ S = Tasks
    BY <1>3 DEF SlipSockInit, RxEventInit, TxEventInit, CreateTasks, sockVars
  <2>3. Types'
    BY <2>1, <2>2 DEF Types, rxVars, txVars
  <2>4. Phase'
    BY <2>1, <2>2 DEF Phase, Untouched, rxVars, txVars
  <2>5. Known' /\ CrashNeedsFailure'
    BY <2>1, <2>2 DEF Known, CrashNeedsFailure
  <2> QED
    BY <2>3, <2>4, <2>5
<1>4. CASE SlipSockInit
  BY <1>3, <1>4 DEF SlipSockInit, Objects
<1>5. CASE RxEventInit
  BY <1>3, <1>5 DEF RxEventInit, Objects
<1>6. CASE TxEventInit
  BY <1>3, <1>6 DEF TxEventInit, Objects
<1>7. CASE CreateTasks
  BY <1>3, <1>7 DEF CreateTasks
<1>8. CASE StartKernel
  <2>1. main' \in {"started", "returned"} /\ failed \subseteq failed' /\ failed' \subseteq MayFail
        /\ (main' = "returned" => masked') /\ masked' \in BOOLEAN
    BY <1>8, Zenon DEF StartKernel, Types, Phase
  <2>2. Types'
    BY <1>8, <2>1 DEF StartKernel, Types, rxVars, txVars, sockVars
  <2>3. Phase'
    BY <1>8, <2>1 DEF StartKernel, Phase, Untouched, rxVars, txVars, sockVars
  <2>4. Known' /\ CrashNeedsFailure'
    BY <1>8, <2>1 DEF StartKernel, Known, CrashNeedsFailure, sockVars
  <2> QED
    BY <2>2, <2>3, <2>4
<1> QED
  BY <1>1, <1>2, <1>4, <1>5, <1>6, <1>7, <1>8 DEF Main

\* So does an interrupt.
LEMMA InterruptBoot ==
  ASSUME Boot, SysTick \/ Arrive \/ ReceiveData \/ ReceiveEnd \/ UNCHANGED vars
  PROVE  Boot'
<1> USE DEF Boot
<1>1. CASE SysTick \/ Arrive \/ UNCHANGED vars
  <2>1. Types'
    BY <1>1 DEF SysTick, Arrive, Types, vars, kernelVars, rxVars, txVars, sockVars
  <2>2. Phase' /\ Known' /\ CrashNeedsFailure'
    BY <1>1 DEF SysTick, Arrive, Phase, Known, CrashNeedsFailure, Untouched, vars, kernelVars, rxVars, txVars, sockVars
  <2> QED
    BY <2>1, <2>2
<1>2. CASE ReceiveData
  <2>1. Types'
    BY <1>2 DEF ReceiveData, Types, kernelVars, txVars, sockVars
  <2>2. Phase' /\ Known' /\ CrashNeedsFailure'
    BY <1>2 DEF ReceiveData, Phase, Known, CrashNeedsFailure, Untouched, kernelVars, txVars, sockVars
  <2> QED
    BY <2>1, <2>2
<1>3. CASE ReceiveEnd
  <2>1. main = "started"
    BY <1>3 DEF ReceiveEnd, Interrupts, Phase
  <2>2. CASE rxBlock # NONE /\ count = 1 /\ "rxEvent" \notin made
    <3>1. Crash({"rxEvent"} \ made) /\ {"rxEvent"} \subseteq made \cup failed /\ {"rxEvent"} \subseteq Objects
      BY <1>3, <2>1, <2>2 DEF ReceiveEnd, Known, Objects
    <3> QED
      BY <3>1, CrashBoot
  <2>3. CASE ~(rxBlock # NONE /\ count = 1 /\ "rxEvent" \notin made)
    <3>1. /\ dr' = NONE /\ inPacket' = TRUE /\ count' = 0
          /\ UNCHANGED <<main, irq, kernelVars, awake, txVars, sockVars>>
          /\ \/ /\ rxBlock # NONE
                /\ \E c \in {"Connect", "Damaged"} : rxq' = Append(rxq, [blk |-> rxBlock, cmd |-> c])
                /\ rxSignal' = 1 /\ GetRxBlock
             \/ rxq' = rxq /\ rxSignal' = rxSignal /\ (UNCHANGED <<busy, rxBlock>> \/ GetRxBlock)
      BY <1>3, <2>3 DEF ReceiveEnd
    <3>2. busy' \subseteq Blocks /\ rxBlock' \in Blocks \cup {NONE}
      BY <3>1 DEF GetRxBlock, Types
    <3>3. rxq' \in Seq(Frames) /\ rxSignal' \in {0, 1}
      BY <3>1, FramesAppended DEF Types, Frames
    <3>4. Types'
      BY <3>1, <3>2, <3>3 DEF Types, kernelVars, txVars, sockVars
    <3>5. Phase' /\ Known' /\ CrashNeedsFailure'
      BY <2>1, <3>1 DEF Phase, Known, CrashNeedsFailure, kernelVars, sockVars
    <3> QED
      BY <3>4, <3>5
  <2> QED
    BY <2>2, <2>3
<1> QED
  BY <1>1, <1>2, <1>3

\* What is taken from the queues has their items' type.
LEMMA QueuesTyped ==
  ASSUME Types
  PROVE  /\ rxq # <<>> => Tail(rxq) \in Seq(Frames) /\ Head(rxq).blk \in Blocks
         /\ txq # <<>> => Tail(txq) \in Seq(Blocks)
         /\ acceptq # <<>> => Tail(acceptq) \in Seq(Sockets) /\ Head(acceptq) \in Sockets
         /\ \A b \in Blocks : Append(txq, b) \in Seq(Blocks)
         /\ \A k \in Sockets : Append(acceptq, k) \in Seq(Sockets)
<1>1. rxq # <<>> => Tail(rxq) \in Seq(Frames) /\ Head(rxq) \in Frames
  BY TailAt DEF Types
<1>2. \A f \in Frames : f.blk \in Blocks
  BY DEF Frames
<1> QED
  BY <1>1, <1>2, TailAt, AppendAt DEF Types

\* While the scheduler runs main() has come to its end.
LEMMA KnownObjects ==
  ASSUME Boot, Started
  PROVE  {"acceptQueue", "rxEvent", "txEvent"} \cup Sockets \subseteq made \cup failed
  BY DEF Boot, Known, Started

\* So does the receive task.
LEMMA RxBoot ==
  ASSUME Boot, RxTask
  PROVE  Boot'
<1> USE DEF Boot
<1>0. Started /\ main = "started"
  BY DEF RxTask, RxWake, RxSleep, RxDamaged, RxOffers, RxHasNoQueue, RxRefuses, RxHas, Runs, Started
<1>1. \A S : S \subseteq {"acceptQueue", "rxEvent", "txEvent"} \cup Sockets /\ Crash(S \ made) => Boot'
  BY <1>0, KnownObjects, CrashBoot DEF Objects
<1>2. CASE /\ rxSignal' = 0 /\ awake' = TRUE
           /\ UNCHANGED <<main, irq, dr, kernelVars, busy, rxBlock, inPacket, count, rxq, txVars, sockVars>>
  <2>1. Types'
    BY <1>2 DEF Types, kernelVars, txVars, sockVars
  <2>2. Phase' /\ Known' /\ CrashNeedsFailure'
    BY <1>2 DEF Phase, Known, CrashNeedsFailure, Untouched, kernelVars, txVars, sockVars
  <2> QED
    BY <2>1, <2>2
<1>3. CASE RxSleep
  <2>0. awake' \in BOOLEAN
    BY <1>3, Zenon DEF RxSleep
  <2>1. Types'
    BY <1>3, <2>0 DEF RxSleep, Types, kernelVars, txVars, sockVars
  <2>2. Phase' /\ Known' /\ CrashNeedsFailure'
    BY <1>3 DEF RxSleep, Phase, Known, CrashNeedsFailure, Untouched, kernelVars, txVars, sockVars
  <2> QED
    BY <2>1, <2>2
<1>4. CASE /\ RxTakes /\ rxq # <<>> /\ busy' \subseteq busy
           /\ txSignal' \in {0, 1} /\ txq' \in Seq(Blocks)
           /\ used' \subseteq Sockets /\ acceptq' \in Seq(Sockets)
  <2>1. Types'
    BY <1>4, QueuesTyped DEF RxTakes, Types, kernelVars
  <2>2. Phase' /\ Known' /\ CrashNeedsFailure'
    BY <1>4, <1>0 DEF RxTakes, Phase, Known, CrashNeedsFailure, kernelVars
  <2> QED
    BY <2>1, <2>2
<1>5. CASE RxWake
  BY <1>1, <1>2, <1>5 DEF RxWake, Needing
<1>6. CASE RxDamaged
  BY <1>4, <1>6 DEF RxDamaged, RxHas, txVars, Types
<1>7. CASE RxOffers
  <2>1. PICK k \in Sockets \ used :
          Needing({k},
            /\ used' = used \cup {k} /\ acceptq' = Append(acceptq, k)
            /\ RxTakes /\ busy' = busy \ {Head(rxq).blk} /\ UNCHANGED txVars)
    BY <1>7 DEF RxOffers
  <2>2. CASE {k} \subseteq made
    BY <1>4, <1>7, <2>1, <2>2, QueuesTyped DEF Needing, RxOffers, RxHas, txVars, Types
  <2>3. CASE ~({k} \subseteq made)
    BY <1>1, <2>1, <2>3 DEF Needing
  <2> QED
    BY <2>2, <2>3
<1>8. CASE RxHasNoQueue
  <2>1. PICK k \in Sockets \ used :
          Needing({k, "txEvent"},
            RxTakes /\ SendDisconnect(Head(rxq).blk) /\ UNCHANGED <<busy, used, acceptq>>)
    BY <1>8 DEF RxHasNoQueue
  <2>2. CASE {k, "txEvent"} \subseteq made
    BY <1>4, <1>8, <2>1, <2>2, QueuesTyped DEF Needing, RxHasNoQueue, RxHas, SendDisconnect, Types
  <2>3. CASE ~({k, "txEvent"} \subseteq made)
    BY <1>1, <2>1, <2>3 DEF Needing
  <2> QED
    BY <2>2, <2>3
<1>9. CASE RxRefuses
  <2>2. CASE {"txEvent"} \subseteq made
    BY <1>4, <1>9, <2>2, QueuesTyped DEF Needing, RxRefuses, RxHas, SendDisconnect, Types
  <2>3. CASE ~({"txEvent"} \subseteq made)
    BY <1>1, <1>9, <2>3 DEF Needing, RxRefuses
  <2> QED
    BY <2>2, <2>3
<1> QED
  BY <1>3, <1>5, <1>6, <1>7, <1>8, <1>9 DEF RxTask

\* So does the transmit task.
LEMMA TxBoot ==
  ASSUME Boot, TxFrame
  PROVE  Boot'
<1> USE DEF Boot
<1>0. Started /\ main = "started"
  BY DEF TxFrame, Runs, Started
<1>1. CASE {"txEvent"} \subseteq made
  <2>1. /\ txSignal' \in {0, 1} /\ txq' \in Seq(Blocks) /\ busy' \subseteq busy
        /\ UNCHANGED <<main, irq, dr, kernelVars, rxVars, sockVars>>
    BY <1>1, QueuesTyped DEF TxFrame, Needing, Types
  <2>2. Types'
    BY <2>1 DEF Types, kernelVars, rxVars, sockVars
  <2>3. Phase' /\ Known' /\ CrashNeedsFailure'
    BY <1>0, <2>1 DEF Phase, Known, CrashNeedsFailure, kernelVars, rxVars, sockVars
  <2> QED
    BY <2>2, <2>3
<1>2. CASE ~({"txEvent"} \subseteq made)
  BY <1>0, <1>2, KnownObjects, CrashBoot DEF Objects, TxFrame, Needing
<1> QED
  BY <1>1, <1>2

\* What closing a socket does to blocks and permits.
LEMMA CloseGives ==
  ASSUME Types, NEW k, CloseAndRelease(k)
  PROVE  /\ used' = used \ {k} /\ permits' = permits + 1
         /\ \/ busy' = busy /\ txq' = txq /\ txSignal' = txSignal
            \/ \E b \in Blocks \ busy :
                 busy' = busy \cup {b} /\ txq' = Append(txq, b) /\ txSignal' = 1
  BY DEF CloseAndRelease, SendDisconnect, txVars

\* Once the tasks run, every object a close uses was made or failed.
LEMMA ClosingKnown ==
  ASSUME Boot, Started
  PROVE  ClosingNeeds \subseteq made \cup failed /\ ClosingNeeds \subseteq Objects
  BY KnownObjects DEF ClosingNeeds, Objects

\* A step that closes a socket, or leaves blocks and frames alone.
LEMMA ServiceBoot ==
  ASSUME Boot, Started,
         UNCHANGED <<main, irq, dr, kernelVars, rxVars>>,
         UNCHANGED <<busy, txVars, used>> \/ \E k \in Sockets : CloseAndRelease(k),
         permits' \in Nat, acceptq' \in Seq(Sockets), clients' \subseteq Sockets,
         server' \in {"create", "permit", "accept"}, server' # "create" => server # "create"
  PROVE  Boot'
<1> USE DEF Boot
<1>1. /\ busy' \subseteq Blocks /\ used' \subseteq Sockets
      /\ txq' \in Seq(Blocks) /\ txSignal' \in {0, 1}
  <2>1. CASE UNCHANGED <<busy, txVars, used>>
    BY <2>1 DEF Types, txVars
  <2>2. CASE \E k \in Sockets : CloseAndRelease(k)
    <3>1. PICK k \in Sockets : CloseAndRelease(k)
      BY <2>2
    <3>2. used' = used \ {k}
      BY <3>1, CloseGives
    <3>3. \/ busy' = busy /\ txq' = txq /\ txSignal' = txSignal
          \/ \E b \in Blocks \ busy :
               busy' = busy \cup {b} /\ txq' = Append(txq, b) /\ txSignal' = 1
      BY <3>1, CloseGives
    <3> QED
      BY <3>2, <3>3, QueuesTyped DEF Types
  <2> QED
    BY <2>1, <2>2
<1>2. Types'
  BY <1>1 DEF Types, kernelVars, rxVars
<1>3. Phase' /\ Known' /\ CrashNeedsFailure'
  BY DEF Phase, Known, CrashNeedsFailure, Started, kernelVars
<1> QED
  BY <1>2, <1>3

\* A step of the server keeps the start-up in order.
LEMMA ServerBoot ==
  ASSUME Boot, ServerTask
  PROVE  Boot'
<1> USE DEF Boot
<1>0. Started /\ main = "started"
  BY DEF ServerTask, ServerCreate, ServerPermit, ServerAccept, Runs, Started
<1>1. CASE ServerCreate
  <2>1. /\ made' \subseteq Objects \cup Tasks /\ made \subseteq made'
        /\ failed' \subseteq MayFail /\ failed \subseteq failed'
        /\ "semaphore" \in made' \cup failed'
        /\ masked' \in BOOLEAN /\ UNCHANGED <<tick, crashed>>
    BY <1>1, CreateGives DEF ServerCreate, Objects
  <2>2. permits' \in Nat /\ server' = "permit"
    BY <1>1, StartupAssumption DEF ServerCreate
  <2>3. UNCHANGED <<main, irq, dr, busy, rxVars, txVars, used, acceptq, clients>>
    BY <1>1 DEF ServerCreate
  <2>4. Types'
    BY <2>1, <2>2, <2>3 DEF Types, rxVars, txVars
  <2>5. Phase' /\ Known' /\ CrashNeedsFailure'
    BY <1>0, <2>1, <2>2, <2>3 DEF Phase, Known, CrashNeedsFailure
  <2> QED
    BY <2>4, <2>5
<1>2. CASE ServerPermit
  <2>1. CASE {"semaphore"} \subseteq made
    <3>1. /\ permits' = permits - 1 /\ server' = "accept" /\ permits > 0 /\ server = "permit"
          /\ UNCHANGED <<main, irq, dr, kernelVars, busy, rxVars, txVars, used, acceptq, clients>>
      BY <1>2, <2>1 DEF ServerPermit, Needing
    <3> QED
      BY <1>0, <3>1, ServiceBoot DEF Types
  <2>2. CASE ~({"semaphore"} \subseteq made)
    <3>1. server = "permit" /\ Crash({"semaphore"} \ made)
      BY <1>2, <2>2 DEF ServerPermit, Needing
    <3> QED
      BY <3>1, CrashBoot DEF Known, Objects
  <2> QED
    BY <2>1, <2>2
<1>3. CASE ServerAccept
  <2>1. server = "accept"
    BY <1>3 DEF ServerAccept
  <2>2. CASE /\ server' = "permit"
             /\ UNCHANGED <<main, irq, dr, kernelVars, busy, rxVars, txVars, used, acceptq, permits, clients>>
    BY <1>0, <2>1, <2>2, ServiceBoot DEF Types
  <2>3. CASE /\ acceptq # <<>> /\ server' = "permit"
             /\ acceptq' = Tail(acceptq) /\ clients' = clients \cup {Head(acceptq)}
             /\ UNCHANGED <<main, irq, dr, kernelVars, busy, rxVars, txVars, used, permits>>
    BY <1>0, <2>1, <2>3, ServiceBoot, QueuesTyped DEF Types
  <2>4. CASE acceptq # <<>> /\ ClosingNeeds \subseteq made /\ server' = "permit"
             /\ acceptq' = Tail(acceptq) /\ CloseAndRelease(Head(acceptq))
             /\ UNCHANGED <<main, irq, dr, kernelVars, rxVars, clients>>
    <3>1. permits' \in Nat /\ Head(acceptq) \in Sockets /\ acceptq' \in Seq(Sockets)
      BY <2>4, CloseGives, QueuesTyped DEF Types
    <3> QED
      BY <1>0, <2>1, <2>4, <3>1, ServiceBoot DEF Types
  <2>5. CASE ~(ClosingNeeds \subseteq made) /\ Crash(ClosingNeeds \ made)
    BY <1>0, <2>5, ClosingKnown, CrashBoot
  <2> QED
    BY <1>3, <2>2, <2>3, <2>4, <2>5 DEF ServerAccept, Needing
<1> QED
  BY <1>1, <1>2, <1>3 DEF ServerTask

\* So does a client.
LEMMA ClientBoot ==
  ASSUME Boot, NEW k \in Sockets, ClientEnds(k)
  PROVE  Boot'
<1> USE DEF Boot
<1>0. Started /\ main = "started"
  BY DEF ClientEnds, Started
<1>1. CASE ClosingNeeds \subseteq made
  <2>1. /\ clients' = clients \ {k} /\ CloseAndRelease(k)
        /\ UNCHANGED <<main, irq, dr, kernelVars, rxVars, acceptq, server>>
    BY <1>1 DEF ClientEnds, Needing
  <2>2. permits' \in Nat
    BY <2>1, CloseGives DEF Types
  <2> QED
    BY <1>0, <2>1, <2>2, ServiceBoot DEF Types
<1>2. CASE ~(ClosingNeeds \subseteq made)
  BY <1>0, <1>2, ClosingKnown, CrashBoot DEF ClientEnds, Needing
<1> QED
  BY <1>1, <1>2

\* Every step keeps the start-up in order.
LEMMA NextBoot == Boot /\ [Next]_vars => Boot'
<1> SUFFICES ASSUME Boot, [Next]_vars PROVE Boot'
  OBVIOUS
<1> QED
  BY MainBoot, InterruptBoot, RxBoot, TxBoot, ServerBoot, ClientBoot DEF Next

-----------------------------------------------------------------------------
(***************************************************************************)
(* Placed: every busy block is in one place, and there once.               *)
(***************************************************************************)
Placed == BlocksArePlaced /\ OnceFrames(rxq) /\ Once(txq)

\* A step that moves no block leaves each in its place.
LEMMA PlacedStays ==
  ASSUME Placed, UNCHANGED <<busy, rxBlock, rxq, txq>>
  PROVE  Placed'
  BY DEF Placed, BlocksArePlaced, OnceFrames, Once, InFrames, InQueue

\* Nothing is in an empty queue.
LEMMA EmptyHolds ==
  /\ \A b : ~InFrames(b, <<>>) /\ ~InQueue(b, <<>>)
  /\ OnceFrames(<<>>) /\ Once(<<>>)
  BY DEF InFrames, InQueue, OnceFrames, Once

\* At the start no block is in use.
LEMMA InitPlaced == Init => Placed
  BY EmptyHolds, StartupAssumption DEF Init, Placed, BlocksArePlaced

\* The handler queues its block, or has none, and takes a free one.
LEMMA ReceiveEndPlaced ==
  ASSUME Types, Placed,
         GetRxBlock, txq' = txq,
         \/ /\ rxBlock # NONE
            /\ \E c \in {"Connect", "Damaged"} : rxq' = Append(rxq, [blk |-> rxBlock, cmd |-> c])
         \/ rxBlock = NONE /\ rxq' = rxq
  PROVE  Placed'
<1>1. /\ OnceFrames(rxq')
      /\ \A b : InFrames(b, rxq') <=> InFrames(b, rxq) \/ (b = rxBlock /\ b # NONE)
  <2>1. CASE rxBlock # NONE
    <3>1. PICK c \in {"Connect", "Damaged"} : rxq' = Append(rxq, [blk |-> rxBlock, cmd |-> c])
      BY <2>1
    <3>2. [blk |-> rxBlock, cmd |-> c] \in Frames /\ [blk |-> rxBlock, cmd |-> c].blk = rxBlock
      BY <2>1 DEF Frames, Types
    <3>3. ~InFrames(rxBlock, rxq)
      BY <2>1 DEF Placed, BlocksArePlaced
    <3> HIDE DEF Frames
    <3>4. \A e \in Frames : e.blk = rxBlock =>
            /\ \A b : InFrames(b, Append(rxq, e)) <=> InFrames(b, rxq) \/ b = rxBlock
            /\ OnceFrames(Append(rxq, e))
      BY <3>3, FramesAppended DEF Types, Placed
    <3> QED
      BY <2>1, <3>1, <3>2, <3>4
  <2>2. CASE rxBlock = NONE
    BY <2>2 DEF Placed
  <2> QED
    BY <2>1, <2>2
<1>2. \/ rxBlock' = NONE /\ busy' = busy
      \/ \E b \in Blocks \ busy : rxBlock' = b /\ busy' = busy \cup {b}
  BY DEF GetRxBlock
<1>3. BlocksArePlaced'
  BY <1>1, <1>2, StartupAssumption DEF Placed, BlocksArePlaced, Types
<1> QED
  BY <1>1, <1>3 DEF Placed

\* A frame leaves the receive queue; its block is freed or sent back.
LEMMA RxTakesPlaced ==
  ASSUME Types, Placed, rxq # <<>>, rxq' = Tail(rxq), rxBlock' = rxBlock,
         \/ busy' = busy \ {Head(rxq).blk} /\ txq' = txq
         \/ busy' = busy /\ txq' = Append(txq, Head(rxq).blk)
  PROVE  Placed'
<1> DEFINE h == Head(rxq).blk
<1>1. /\ OnceFrames(rxq') /\ ~InFrames(h, rxq')
      /\ \A b : InFrames(b, rxq) <=> InFrames(b, rxq') \/ b = h
  BY FramesRemoved DEF Types, Placed
<1>2. h \in Blocks
  BY QueuesTyped
<1>3. h \in busy /\ h # rxBlock /\ ~InQueue(h, txq)
  BY <1>1, <1>2, StartupAssumption DEF Placed, BlocksArePlaced
<1>4. \A b : InQueue(b, Append(txq, h)) <=> InQueue(b, txq) \/ b = h
  BY <1>2, Appended DEF Types
<1>5. Once(Append(txq, h))
  BY <1>2, <1>3, Appended DEF Types, Placed
<1> HIDE DEF h
<1>6. CASE busy' = busy \ {h} /\ txq' = txq
  BY <1>1, <1>2, <1>3, <1>6 DEF Placed, BlocksArePlaced
<1>7. CASE busy' = busy /\ txq' = Append(txq, h)
  BY <1>1, <1>2, <1>3, <1>4, <1>5, <1>7 DEF Placed, BlocksArePlaced
<1> QED
  BY <1>6, <1>7 DEF h

\* A frame is sent.
LEMMA TxPlaced ==
  ASSUME Types, Placed, txq # <<>>, txq' = Tail(txq), busy' = busy \ {Head(txq)},
         UNCHANGED <<rxBlock, rxq>>
  PROVE  Placed'
<1> DEFINE h == Head(txq)
<1>1. /\ Once(txq') /\ ~InQueue(h, txq') /\ h \in Blocks
      /\ \A b : InQueue(b, txq) <=> InQueue(b, txq') \/ b = h
  BY Removed DEF Types, Placed
<1>2. h # rxBlock /\ ~InFrames(h, rxq)
  BY <1>1, StartupAssumption DEF Placed, BlocksArePlaced
<1> HIDE DEF h
<1>3. busy' = busy \ {h}
  BY DEF h
<1> QED
  BY <1>1, <1>2, <1>3 DEF Placed, BlocksArePlaced

\* Closing a socket sends a Disconnect in a free block, if there is one.
LEMMA ClosePlaced ==
  ASSUME Types, Placed, NEW k, CloseAndRelease(k), UNCHANGED rxVars
  PROVE  Placed'
<1>1. CASE UNCHANGED <<busy, txq>>
  BY <1>1, PlacedStays DEF rxVars
<1>2. CASE \E b \in Blocks \ busy : busy' = busy \cup {b} /\ txq' = Append(txq, b)
  <2>1. PICK c \in Blocks \ busy : busy' = busy \cup {c} /\ txq' = Append(txq, c)
    BY <1>2
  <2>2. ~InQueue(c, txq) /\ ~InFrames(c, rxq) /\ c # rxBlock
    BY <2>1 DEF Placed, BlocksArePlaced
  <2>3. /\ Once(txq')
        /\ \A b : InQueue(b, txq') <=> InQueue(b, txq) \/ b = c
    BY <2>1, <2>2, Appended DEF Types, Placed
  <2> QED
    BY <2>1, <2>2, <2>3 DEF Placed, BlocksArePlaced, rxVars
<1> QED
  BY <1>1, <1>2, CloseGives

\* Every step leaves each block in one place.
LEMMA NextPlaced == Boot /\ Placed /\ [Next]_vars => Placed'
<1> SUFFICES ASSUME Boot, Placed, [Next]_vars PROVE Placed'
  OBVIOUS
<1> USE DEF Boot
<1>0. \A S : Crash(S) => Placed'
  BY PlacedStays DEF Crash, rxVars, txVars
<1>1. CASE HalInit \/ SlipSockInit \/ PoolInit \/ UartInit \/ QueuesInit \/ RxEventInit \/ TxEventInit
           \/ CreateTasks \/ StartKernel
  <2>1. UNCHANGED <<busy, rxBlock, rxq, txq>>
    BY <1>1 DEF HalInit, SlipSockInit, PoolInit, UartInit, QueuesInit, RxEventInit, TxEventInit,
                CreateTasks, StartKernel, Calls, Phase, Untouched, rxVars, txVars
  <2> QED
    BY <2>1, PlacedStays
<1>2. CASE ReceiverInit
  <2>1. rxBlock = NONE /\ rxq' = rxq /\ txq' = txq /\ GetRxBlock
    BY <1>2 DEF ReceiverInit, Calls, Phase, txVars
  <2> QED
    BY <2>1, ReceiveEndPlaced
<1>3. CASE SysTick \/ Arrive \/ ReceiveData \/ RxWake \/ RxSleep \/ ServerCreate \/ ServerPermit \/ UNCHANGED vars
  <2>1. UNCHANGED <<busy, rxBlock, rxq, txq>>
    BY <1>3 DEF SysTick, Arrive, ReceiveData, RxWake, RxSleep, ServerCreate, ServerPermit, vars, Needing, Crash, rxVars, txVars
  <2> QED
    BY <2>1, PlacedStays
<1>4. CASE ReceiveEnd
  <2>1. CASE rxBlock # NONE /\ count = 1 /\ "rxEvent" \notin made
    BY <1>0, <1>4, <2>1 DEF ReceiveEnd
  <2>2. CASE ~(rxBlock # NONE /\ count = 1 /\ "rxEvent" \notin made)
    <3>1. /\ txq' = txq
          /\ \/ /\ rxBlock # NONE
                /\ \E c \in {"Connect", "Damaged"} : rxq' = Append(rxq, [blk |-> rxBlock, cmd |-> c])
                /\ GetRxBlock
             \/ rxBlock = NONE /\ rxq' = rxq /\ GetRxBlock
             \/ UNCHANGED <<busy, rxBlock, rxq>>
      BY <1>4, <2>2 DEF ReceiveEnd, txVars
    <3> QED
      BY <3>1, ReceiveEndPlaced, PlacedStays
  <2> QED
    BY <2>1, <2>2
<1>5. CASE RxDamaged \/ RxOffers \/ RxHasNoQueue \/ RxRefuses
  <2>1. \/ \E S : Crash(S)
        \/ /\ rxq # <<>> /\ rxq' = Tail(rxq) /\ rxBlock' = rxBlock
           /\ \/ busy' = busy \ {Head(rxq).blk} /\ txq' = txq
              \/ busy' = busy /\ txq' = Append(txq, Head(rxq).blk)
    BY <1>5 DEF RxDamaged, RxOffers, RxHasNoQueue, RxRefuses, RxHas, RxTakes, SendDisconnect, Needing, txVars
  <2> QED
    BY <1>0, <2>1, RxTakesPlaced
<1>6. CASE TxFrame
  <2>1. \/ \E S : Crash(S)
        \/ UNCHANGED <<busy, rxBlock, rxq, txq>>
        \/ txq # <<>> /\ txq' = Tail(txq) /\ busy' = busy \ {Head(txq)} /\ UNCHANGED <<rxBlock, rxq>>
    BY <1>6 DEF TxFrame, Needing, rxVars
  <2> QED
    BY <1>0, <2>1, TxPlaced, PlacedStays
<1>7. CASE ServerAccept \/ \E k \in Sockets : ClientEnds(k)
  <2>1. \/ \E S : Crash(S)
        \/ UNCHANGED <<busy, rxBlock, rxq, txq>>
        \/ (\E k : CloseAndRelease(k)) /\ UNCHANGED rxVars
    BY <1>7 DEF ServerAccept, ClientEnds, Needing, rxVars, txVars
  <2> QED
    BY <1>0, <2>1, ClosePlaced, PlacedStays
<1> QED
  BY <1>1, <1>2, <1>3, <1>4, <1>5, <1>6, <1>7 DEF Next, Main, RxTask, ServerTask

-----------------------------------------------------------------------------
(***************************************************************************)
(* Served: who has a socket.                                               *)
(***************************************************************************)
Served ==
  /\ SocketsArePlaced
  /\ Once(acceptq)
  /\ \A k \in clients : ~InQueue(k, acceptq)

\* A step that moves no socket leaves each where it is.
LEMMA ServedStays ==
  ASSUME Served, UNCHANGED <<used, acceptq, clients>>
  PROVE  Served'
  BY DEF Served, SocketsArePlaced, Once, InQueue

\* At the start no socket is in use.
LEMMA InitServed == Init => Served
  BY EmptyHolds DEF Init, Served, SocketsArePlaced

\* A socket is offered.
LEMMA OfferServed ==
  ASSUME Types, Served, NEW k \in Sockets \ used,
         used' = used \cup {k}, acceptq' = Append(acceptq, k), clients' = clients
  PROVE  Served'
<1>1. k \notin clients /\ ~InQueue(k, acceptq)
  BY DEF Served, SocketsArePlaced
<1>2. /\ Once(acceptq')
      /\ \A b : InQueue(b, acceptq') <=> InQueue(b, acceptq) \/ b = k
  BY <1>1, Appended DEF Types, Served
<1> QED
  BY <1>1, <1>2 DEF Served, SocketsArePlaced

\* The server task takes the oldest offer: it serves or closes it.
LEMMA AcceptServed ==
  ASSUME Types, Served, acceptq # <<>>, acceptq' = Tail(acceptq),
         \/ clients' = clients \cup {Head(acceptq)} /\ used' = used
         \/ clients' = clients /\ used' = used \ {Head(acceptq)}
  PROVE  Served' /\ Head(acceptq) \in Sockets \ clients
<1> DEFINE h == Head(acceptq)
<1>1. /\ Once(acceptq') /\ ~InQueue(h, acceptq') /\ h \in Sockets
      /\ \A b : InQueue(b, acceptq) <=> InQueue(b, acceptq') \/ b = h
  BY Removed DEF Types, Served
<1>2. h \notin clients
  BY <1>1 DEF Served
<1>3. \/ clients' = clients \cup {h} /\ used' = used
      \/ clients' = clients /\ used' = used \ {h}
  OBVIOUS
<1> HIDE DEF h
<1>4. Served'
  BY <1>1, <1>2, <1>3 DEF Served, SocketsArePlaced
<1> QED
  BY <1>1, <1>2, <1>4 DEF h

\* A client task closes its socket.
LEMMA EndServed ==
  ASSUME Types, Served, NEW k \in clients,
         clients' = clients \ {k}, used' = used \ {k}, acceptq' = acceptq
  PROVE  Served'
  BY DEF Served, SocketsArePlaced, Once, InQueue

\* Every step leaves each socket in one place.
LEMMA NextServed == Boot /\ Served /\ [Next]_vars => Served'
<1> SUFFICES ASSUME Boot, Served, [Next]_vars PROVE Served'
  OBVIOUS
<1> USE DEF Boot
<1>0. \A S : Crash(S) => Served'
  BY ServedStays DEF Crash, sockVars
<1>1. CASE Main
  <2>1. UNCHANGED <<used, acceptq, clients>>
    BY <1>1 DEF Main, HalInit, SlipSockInit, PoolInit, UartInit, ReceiverInit, QueuesInit, RxEventInit,
                TxEventInit, CreateTasks, StartKernel, Calls, Phase, Untouched, sockVars
  <2> QED
    BY <2>1, ServedStays
<1>2. CASE SysTick \/ Arrive \/ ReceiveData \/ ReceiveEnd \/ UNCHANGED vars
  <2>1. UNCHANGED <<used, acceptq, clients>>
    BY <1>2 DEF SysTick, Arrive, ReceiveData, ReceiveEnd, vars, Crash, sockVars
  <2> QED
    BY <2>1, ServedStays
<1>3. CASE RxWake \/ RxSleep \/ RxDamaged \/ RxHasNoQueue \/ RxRefuses \/ TxFrame \/ ServerCreate \/ ServerPermit
  <2>1. UNCHANGED <<used, acceptq, clients>>
    BY <1>3 DEF RxWake, RxSleep, RxDamaged, RxHasNoQueue, RxRefuses, TxFrame, ServerCreate, ServerPermit,
                Needing, Crash, RxTakes, sockVars
  <2> QED
    BY <2>1, ServedStays
<1>4. CASE RxOffers
  <2>1. \/ \E S : Crash(S)
        \/ \E k \in Sockets \ used :
             used' = used \cup {k} /\ acceptq' = Append(acceptq, k) /\ clients' = clients
    BY <1>4 DEF RxOffers, RxTakes, Needing
  <2> QED
    BY <1>0, <2>1, OfferServed
<1>5. CASE ServerAccept
  <2>1. \/ \E S : Crash(S)
        \/ UNCHANGED <<used, acceptq, clients>>
        \/ /\ acceptq # <<>> /\ acceptq' = Tail(acceptq)
           /\ \/ clients' = clients \cup {Head(acceptq)} /\ used' = used
              \/ clients' = clients /\ used' = used \ {Head(acceptq)}
    BY <1>5 DEF ServerAccept, CloseAndRelease, Needing
  <2> QED
    BY <1>0, <2>1, AcceptServed, ServedStays
<1>6. CASE \E k \in Sockets : ClientEnds(k)
  <2>1. \/ \E S : Crash(S)
        \/ \E k \in clients : clients' = clients \ {k} /\ used' = used \ {k} /\ acceptq' = acceptq
    BY <1>6 DEF ClientEnds, CloseAndRelease, Needing
  <2> QED
    BY <1>0, <2>1, EndServed
<1> QED
  BY <1>1, <1>2, <1>3, <1>4, <1>5, <1>6 DEF Next, RxTask, ServerTask

-----------------------------------------------------------------------------
(***************************************************************************)
(* Counted: the permits.                                                   *)
(***************************************************************************)
Counted ==
  /\ IsFiniteSet(clients) /\ permits <= MAX_CONNECTIONS
  /\ server = "create" => clients = {}
  /\ "semaphore" \notin made => server # "accept" /\ clients = {} /\ permits = 0
  /\ "acceptQueue" \notin made => acceptq = <<>> /\ clients = {}
  /\ PermitsAreKept

\* At the start no permit is taken.
LEMMA InitCounted == Init => Counted
  BY FS_EmptySet, StartupAssumption DEF Init, Counted, PermitsAreKept

\* What leaves the server, its clients and their objects alone.
LEMMA CountedStays ==
  ASSUME Boot, Counted, UNCHANGED <<permits, clients, server>>,
         acceptq' = acceptq \/ "acceptQueue" \in made,
         made \subseteq made', server = "create" \/ made' = made
  PROVE  Counted'
  BY DEF Counted, PermitsAreKept

\* Every step keeps the count of permits.
LEMMA NextCounted == Boot /\ Served /\ Counted /\ [Next]_vars => Counted'
<1> SUFFICES ASSUME Boot, Served, Counted, [Next]_vars PROVE Counted'
  OBVIOUS
<1> USE DEF Boot
<1>0. \A S : Crash(S) => Counted'
  BY CountedStays DEF Crash, sockVars
<1>1. CASE Main
  <2>1. server = "create"
    BY <1>1 DEF Main, HalInit, SlipSockInit, PoolInit, UartInit, ReceiverInit, QueuesInit, RxEventInit,
                TxEventInit, CreateTasks, StartKernel, Calls, Phase, Untouched
  <2>2. UNCHANGED <<permits, clients, server, acceptq>> /\ made \subseteq made'
    BY <1>1 DEF Main, HalInit, SlipSockInit, PoolInit, UartInit, ReceiverInit, QueuesInit, RxEventInit,
                TxEventInit, CreateTasks, StartKernel, Create, kernelVars, sockVars
  <2> QED
    BY <2>1, <2>2, CountedStays
<1>2. CASE SysTick \/ Arrive \/ ReceiveData \/ ReceiveEnd \/ UNCHANGED vars
  <2>1. UNCHANGED <<permits, clients, server, acceptq, made>>
    BY <1>2 DEF SysTick, Arrive, ReceiveData, ReceiveEnd, vars, Crash, kernelVars, sockVars
  <2> QED
    BY <2>1, CountedStays
<1>3. CASE RxTask \/ TxFrame
  <2>1. UNCHANGED <<permits, clients, server, made>> /\ (acceptq' = acceptq \/ "acceptQueue" \in made)
    BY <1>3 DEF RxTask, RxWake, RxSleep, RxDamaged, RxOffers, RxHasNoQueue, RxRefuses, TxFrame,
                Needing, Crash, RxTakes, kernelVars, sockVars
  <2> QED
    BY <2>1, CountedStays
<1>4. CASE ServerCreate
  <2>1. /\ server = "create" /\ server' = "permit" /\ clients' = {} /\ acceptq' = acceptq /\ clients = {}
        /\ permits' = IF "semaphore" \in made' THEN MAX_CONNECTIONS ELSE 0
        /\ made \subseteq made'
    BY <1>4 DEF ServerCreate, Create, Counted
  <2>2. IsFiniteSet(clients') /\ Cardinality(clients') = 0
    BY <2>1, FS_EmptySet
  <2> QED
    BY <2>1, <2>2, StartupAssumption DEF Counted, PermitsAreKept
<1>5. CASE ServerPermit
  <2>1. \/ \E S : Crash(S)
        \/ /\ "semaphore" \in made /\ permits > 0 /\ permits' = permits - 1
           /\ server = "permit" /\ server' = "accept" /\ UNCHANGED <<made, acceptq, clients>>
    BY <1>5 DEF ServerPermit, Needing, kernelVars
  <2>2. Cardinality(clients) \in Nat
    BY FS_CardinalityType DEF Counted
  <2> QED
    BY <1>0, <2>1, <2>2, StartupAssumption DEF Counted, PermitsAreKept, Types
<1>6. CASE ServerAccept
  <2>0. /\ server = "accept" /\ "semaphore" \in made
        /\ Cardinality(clients) \in Nat
        /\ "acceptQueue" \in made => permits + Cardinality(clients) + 1 = MAX_CONNECTIONS
    BY <1>6, FS_CardinalityType DEF ServerAccept, Counted, PermitsAreKept
  <2>1. CASE \E S : Crash(S)
    BY <1>0, <2>1
  <2>2. CASE "acceptQueue" \notin made /\ server' = "permit" /\ UNCHANGED <<made, acceptq, clients, permits>>
    BY <2>0, <2>2 DEF Counted, PermitsAreKept
  <2>3. CASE /\ acceptq # <<>> /\ acceptq' = Tail(acceptq) /\ clients' = clients \cup {Head(acceptq)}
             /\ server' = "permit" /\ UNCHANGED <<made, permits, used>>
    <3>1. Head(acceptq) \notin clients
      BY <2>3, AcceptServed
    <3>2. IsFiniteSet(clients') /\ Cardinality(clients') = Cardinality(clients) + 1
      BY <2>3, <3>1, FS_AddElement DEF Counted
    <3>3. "acceptQueue" \in made
      BY <2>3 DEF Counted
    <3> QED
      BY <2>0, <2>3, <3>2, <3>3, StartupAssumption DEF Counted, PermitsAreKept, Types
  <2>4. CASE /\ acceptq # <<>> /\ acceptq' = Tail(acceptq) /\ permits' = permits + 1
             /\ server' = "permit" /\ UNCHANGED <<made, clients>>
    <3>1. "acceptQueue" \in made
      BY <2>4 DEF Counted
    <3> QED
      BY <2>0, <2>4, <3>1, StartupAssumption DEF Counted, PermitsAreKept, Types
  <2> QED
    BY <1>6, <2>1, <2>2, <2>3, <2>4 DEF ServerAccept, CloseAndRelease, Needing, kernelVars
<1>7. CASE \E k \in Sockets : ClientEnds(k)
  <2>1. PICK k \in Sockets : ClientEnds(k)
    BY <1>7
  <2>2. k \in clients
    BY <2>1 DEF ClientEnds
  <2>3. \/ \E S : Crash(S)
        \/ clients' = clients \ {k} /\ permits' = permits + 1 /\ UNCHANGED <<made, acceptq, server>>
    BY <2>1 DEF ClientEnds, CloseAndRelease, Needing, kernelVars
  <2>4. /\ "acceptQueue" \in made /\ "semaphore" \in made /\ server # "create"
    BY <2>2 DEF Counted
  <2>5. /\ IsFiniteSet(clients \ {k}) /\ Cardinality(clients \ {k}) = Cardinality(clients) - 1
        /\ Cardinality(clients) \in Nat /\ Cardinality(clients \ {k}) \in Nat
    BY <2>2, FS_RemoveElement, FS_CardinalityType DEF Counted
  <2>6. permits + Cardinality(clients) + (IF server = "accept" THEN 1 ELSE 0) = MAX_CONNECTIONS
    BY <2>4 DEF Counted, PermitsAreKept
  <2>7. CASE clients' = clients \ {k} /\ permits' = permits + 1 /\ UNCHANGED <<made, acceptq, server>>
    <3>1. permits + 1 + Cardinality(clients \ {k}) + (IF server = "accept" THEN 1 ELSE 0) = MAX_CONNECTIONS
      BY <2>5, <2>6 DEF Types
    <3>2. permits + 1 <= MAX_CONNECTIONS
      BY <3>1, <2>5, StartupAssumption DEF Types
    <3> QED
      BY <2>4, <2>5, <2>7, <3>1, <3>2 DEF Counted, PermitsAreKept
  <2> QED
    BY <1>0, <2>3, <2>7
<1> QED
  BY <1>1, <1>2, <1>3, <1>4, <1>5, <1>6, <1>7 DEF Next, ServerTask

-----------------------------------------------------------------------------
(***************************************************************************)
(* The theorems.                                                           *)
(***************************************************************************)
IInv == Boot /\ Placed /\ Served /\ Counted

\* The invariant holds in every reachable state.
THEOREM Invariance == Spec => []IInv
<1>1. Init => IInv
  BY InitBoot, InitPlaced, InitServed, InitCounted DEF IInv
<1>2. IInv /\ [Next]_vars => IInv'
  BY NextBoot, NextPlaced, NextServed, NextCounted DEF IInv
<1> QED
  BY <1>1, <1>2, PTL DEF Spec

\* Every reachable state is well typed; there are never more permits than
\* the semaphore started with.
THEOREM TypeCorrect == Spec => []TypeOK
<1>1. IInv => TypeOK
  <2> SUFFICES ASSUME IInv PROVE TypeOK
    OBVIOUS
  <2>1. permits \in 0 .. MAX_CONNECTIONS
    BY StartupAssumption DEF IInv, Boot, Types, Counted
  <2> QED
    BY <2>1 DEF IInv, Boot, Types, TypeOK
<1> QED
  BY <1>1, Invariance, PTL

\* Whatever interrupts come during the start, and whichever creations fail,
\* nothing is used before main() has tried to make it.
THEOREM NothingUsedTooEarly == Spec => []CrashNeedsFailure
<1>1. IInv => CrashNeedsFailure
  BY DEF IInv, Boot
<1> QED
  BY <1>1, Invariance, PTL

\* No block is lost or used twice because of the order of the start.
THEOREM NoBlockMisplaced == Spec => []BlocksArePlaced
<1>1. IInv => BlocksArePlaced
  BY DEF IInv, Placed
<1> QED
  BY <1>1, Invariance, PTL

\* A socket is in use exactly while it is offered or served.
THEOREM NoSocketMisplaced == Spec => []SocketsArePlaced
<1>1. IInv => SocketsArePlaced
  BY DEF IInv, Served
<1> QED
  BY <1>1, Invariance, PTL

\* With a semaphore and an accept queue no permit is lost or made up.
THEOREM NoPermitLost == Spec => []PermitsAreKept
<1>1. IInv => PermitsAreKept
  BY DEF IInv, Counted
<1> QED
  BY <1>1, Invariance, PTL
=============================================================================
