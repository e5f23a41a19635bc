------------------------------- MODULE Startup -------------------------------
(***************************************************************************)
(* How the serial demo comes up: main() of main.c with SU_Init and         *)
(* slip_sock_init, the interrupts that may come meanwhile, and the tasks   *)
(* it creates, as far as they use what main() has or has not made.         *)
(*                                                                         *)
(* SU_HwInit switches the receive interrupt on before SU_Init has got a    *)
(* block, reset the queues and created the events the handler uses.  What  *)
(* keeps the handler out is the kernel: a FreeRTOS call made before the    *)
(* scheduler runs leaves the interrupts masked, and slip_sock_init, which  *)
(* main() calls first, makes such calls.                                   *)
(*                                                                         *)
(* main() reports a creation that fails, if at all, and goes on; a kernel  *)
(* call on an object that is missing ends in HardFault_Handler, which      *)
(* loops for ever.                                                         *)
(*                                                                         *)
(* Once the tasks run, their calls are single steps here: SlipRx, SlipTx   *)
(* and SlipSock take them apart, under the assumption that everything was  *)
(* made.  A frame is a Connect or is damaged; the drivers of the pins, the *)
(* clock, the PRNG and the debug console touch nothing modelled here.      *)
(***************************************************************************)
EXTENDS Integers, Sequences, FiniteSets

CONSTANTS
  Blocks,      \* the blocks of the pool
  Sockets,     \* the slots of slipSockTable; a slot also names its event
  MAX_CONNECTIONS,  \* APP_SERVER_MAX_CONNECTIONS
  MayFail,     \* the creations that may fail for want of memory
  NONE

Tasks == {"RxTask", "TxTask", "ServerTask"}
Objects == {"acceptQueue", "rxEvent", "txEvent", "semaphore"} \cup Sockets

ASSUME StartupAssumption ==
  /\ NONE \notin Blocks
  /\ MAX_CONNECTIONS \in Nat \ {0}
  /\ Sockets \cap ({"acceptQueue", "rxEvent", "txEvent", "semaphore"} \cup Tasks) = {}
  /\ MayFail \subseteq Objects \cup Tasks \cup {"idleTask"}

VARIABLES
  main,        \* what main() does next
  masked,      \* BASEPRI masks the interrupts of the kernel's priorities
  irq,         \* the receive interrupt is switched on
  dr,          \* the byte that waits in the data register: "end", "data", NONE
  made,        \* kernel objects and tasks that exist
  failed,      \* creations that failed
  tick,        \* uwTick, up to 1: whether SysTick has been served
  crashed,     \* what a kernel call missed when it crashed; {} while all is well
  busy,        \* blocks that are mbBusy
  rxBlock, inPacket, count,  \* SlipRxBlock, SLIP_RX_IN_PACKET, SlipRxCount
  rxq, rxSignal, awake,      \* SlipRxQueue, slipRxEvent, SU_ReceiveTask is past its wait
  txq, txSignal,             \* SlipTxQueue and the frame being sent, slipTxEvent
  used, acceptq,             \* sockets in use, handles in the accept queue
  permits, server,           \* connectionSemaphore, what tlsServerTask does next
  clients                    \* sockets that a client task serves

rxVars == <<rxBlock, inPacket, count, rxq, rxSignal, awake>>
txVars == <<txq, txSignal>>
sockVars == <<used, acceptq, permits, server, clients>>
kernelVars == <<masked, tick, made, failed, crashed>>
vars == <<main, irq, dr, kernelVars, busy, rxVars, txVars, sockVars>>

Frames == [blk : Blocks, cmd : {"Connect", "Damaged"}]

TypeOK ==
  /\ main \in {"hal", "sockets", "pool", "uart", "block", "queues", "rxEvent",
               "txEvent", "tasks", "kernel", "started", "returned"}
  /\ masked \in BOOLEAN /\ tick \in {0, 1} /\ irq \in BOOLEAN /\ dr \in {"end", "data", NONE}
  /\ made \subseteq Objects \cup Tasks
  /\ failed \subseteq MayFail
  /\ crashed \subseteq Objects \cup {"scheduler"}
  /\ busy \subseteq Blocks /\ rxBlock \in Blocks \cup {NONE}
  /\ inPacket \in BOOLEAN /\ count \in 0 .. 1
  /\ rxq \in Seq(Frames) /\ rxSignal \in {0, 1} /\ awake \in BOOLEAN
  /\ txq \in Seq(Blocks) /\ txSignal \in {0, 1}
  /\ used \subseteq Sockets /\ acceptq \in Seq(Sockets) /\ clients \subseteq Sockets
  /\ permits \in 0 .. MAX_CONNECTIONS
  /\ server \in {"create", "permit", "accept"}

\* The values the C start-up code leaves, the registers after a reset.
Init ==
  /\ main = "hal" /\ masked = FALSE /\ tick = 0 /\ irq = FALSE /\ dr = NONE
  /\ made = {} /\ failed = {} /\ crashed = {}
  /\ busy = {} /\ rxBlock = NONE /\ inPacket = FALSE /\ count = 0
  /\ rxq = <<>> /\ rxSignal = 0 /\ awake = FALSE /\ txq = <<>> /\ txSignal = 0
  /\ used = {} /\ acceptq = <<>> /\ clients = {}
  /\ permits = 0 /\ server = "create"

-----------------------------------------------------------------------------
(***************************************************************************)
(* The kernel.                                                             *)
(***************************************************************************)
Started == main = "started"

\* A call that enters a critical section: before the scheduler runs, leaving
\* it does not unmask the interrupts.
KernelCall == masked' = (masked \/ ~Started)

\* Each of the objects in S is created, or there is no memory for it.
Create(S) ==
  /\ KernelCall
  /\ \E F \in SUBSET (S \cap MayFail) : made' = made \cup (S \ F) /\ failed' = failed \cup F
  /\ UNCHANGED <<tick, crashed>>

\* HardFault_Handler: nothing runs any more.
Crash(missing) ==
  /\ crashed' = missing
  /\ UNCHANGED <<main, irq, dr, masked, tick, made, failed, busy, rxVars, txVars, sockVars>>

-----------------------------------------------------------------------------
(***************************************************************************)
(* main()                                                                  *)
(***************************************************************************)

\* Mutant: the serial port is brought up before the sockets.
AfterUartFirst ==
  [hal |-> "pool", pool |-> "uart", uart |-> "block", block |-> "queues",
   queues |-> "rxEvent", rxEvent |-> "txEvent", txEvent |-> "sockets",
   sockets |-> "tasks", tasks |-> "kernel"]

\* The order of the calls.
After ==
  [hal |-> "sockets", sockets |-> "pool", pool |-> "uart", uart |-> "block",
   block |-> "queues", queues |-> "rxEvent", rxEvent |-> "txEvent",
   txEvent |-> "tasks", tasks |-> "kernel"]

\* main() is at the call c.
Calls(c) == main = c /\ crashed = {}

\* HAL_Init: SysTick runs from here on.
HalInit ==
  /\ Calls("hal") /\ main' = After.hal
  /\ UNCHANGED <<irq, dr, kernelVars, busy, rxVars, txVars, sockVars>>

\* slip_sock_init: the accept queue and the event of every socket.
SlipSockInit ==
  /\ Calls("sockets") /\ main' = After.sockets
  /\ Create({"acceptQueue"} \cup Sockets)
  /\ used' = {}
  /\ UNCHANGED <<irq, dr, busy, rxVars, txVars, acceptq, permits, server, clients>>

\* MB_Init
PoolInit ==
  /\ Calls("pool") /\ main' = After.pool
  /\ busy' = {}
  /\ UNCHANGED <<irq, dr, kernelVars, rxVars, txVars, sockVars>>

\* SU_HwInit: the receiver and its interrupt are on.
UartInit ==
  /\ Calls("uart") /\ main' = After.uart
  /\ irq' = TRUE
  /\ UNCHANGED <<dr, kernelVars, busy, rxVars, txVars, sockVars>>

\* SlipRxBlock = MB_Get(): a free block, or none.
GetRxBlock ==
  \/ busy = Blocks /\ rxBlock' = NONE /\ UNCHANGED busy
  \/ \E b \in Blocks \ busy : rxBlock' = b /\ busy' = busy \cup {b}

\* SU_Init: the states of receiver and transmitter, and the first block.
ReceiverInit ==
  /\ Calls("block") /\ main' = After.block
  /\ inPacket' = FALSE
  /\ GetRxBlock
  /\ UNCHANGED <<irq, dr, kernelVars, count, rxq, rxSignal, awake, txVars, sockVars>>

\* SU_Init: queue_init of both queues.
QueuesInit ==
  /\ Calls("queues") /\ main' = After.queues
  /\ rxq' = <<>> /\ txq' = <<>>
  /\ UNCHANGED <<irq, dr, kernelVars, busy, rxBlock, inPacket, count, rxSignal,
                 awake, txSignal, sockVars>>

\* SU_Init: osCreateEvent, twice.
RxEventInit ==
  /\ Calls("rxEvent") /\ main' = After.rxEvent
  /\ Create({"rxEvent"})
  /\ UNCHANGED <<irq, dr, busy, rxVars, txVars, sockVars>>

TxEventInit ==
  /\ Calls("txEvent") /\ main' = After.txEvent
  /\ Create({"txEvent"})
  /\ UNCHANGED <<irq, dr, busy, rxVars, txVars, sockVars>>

\* osCreateTask, once per task.
CreateTasks ==
  /\ Calls("tasks") /\ main' = After.tasks
  /\ Create(Tasks)
  /\ UNCHANGED <<irq, dr, busy, rxVars, txVars, sockVars>>

\* osStartKernel: the tasks run, with interrupts; without memory for the idle
\* task it returns, and so does main().
StartKernel ==
  /\ Calls("kernel")
  /\ \/ main' = "started" /\ masked' = FALSE /\ UNCHANGED failed
     \/ /\ "idleTask" \in MayFail
        /\ main' = "returned" /\ failed' = failed \cup {"idleTask"} /\ UNCHANGED masked
  /\ UNCHANGED <<irq, dr, tick, made, crashed, busy, rxVars, txVars, sockVars>>

Main ==
  \/ HalInit \/ SlipSockInit \/ PoolInit \/ UartInit \/ ReceiverInit \/ QueuesInit
  \/ RxEventInit \/ TxEventInit \/ CreateTasks \/ StartKernel

-----------------------------------------------------------------------------
(***************************************************************************)
(* The interrupts.                                                         *)
(***************************************************************************)

\* Mutant: the kernel gets every tick.
SysTickAlways ==
  /\ main # "hal" /\ ~masked /\ crashed = {}
  /\ IF Started
     THEN /\ tick' = 1
          /\ UNCHANGED <<main, irq, dr, masked, made, failed, crashed, busy, rxVars, txVars, sockVars>>
     ELSE Crash({"scheduler"})

\* SysTick_Handler: HAL_IncTick, and the kernel's tick only when it runs.
SysTick ==
  /\ main # "hal" /\ ~masked /\ crashed = {}
  /\ tick' = 1
  /\ UNCHANGED <<main, irq, dr, masked, made, failed, crashed, busy, rxVars, txVars, sockVars>>

\* A byte arrives; one that comes while the register is full is lost.
Arrive ==
  /\ irq /\ dr = NONE /\ crashed = {}
  /\ dr' \in {"end", "data"}
  /\ UNCHANGED <<main, irq, kernelVars, busy, rxVars, txVars, sockVars>>

\* The receive interrupt is taken for a byte c.
Interrupts(c) == irq /\ ~masked /\ crashed = {} /\ dr = c

\* SU_USART_IRQ_HANDLER for a byte of a frame.
ReceiveData ==
  /\ Interrupts("data")
  /\ dr' = NONE
  /\ count' = IF inPacket THEN 1 ELSE count
  /\ UNCHANGED <<main, irq, kernelVars, busy, rxBlock, inPacket, rxq, rxSignal, awake, txVars, sockVars>>

\* ... and for SLIP_END: a frame of at least SLIP_RX_MIN_FRAME bytes is
\* queued, and a block is taken for the next one.
ReceiveEnd ==
  /\ Interrupts("end")
  /\ IF rxBlock # NONE /\ count = 1 /\ "rxEvent" \notin made
     THEN Crash({"rxEvent"})
     ELSE /\ dr' = NONE /\ inPacket' = TRUE /\ count' = 0
          /\ \/ /\ rxBlock # NONE /\ count = 1
                /\ \E c \in {"Connect", "Damaged"} :
                     rxq' = Append(rxq, [blk |-> rxBlock, cmd |-> c])
                /\ GetRxBlock
                /\ rxSignal' = 1
             \/ /\ rxBlock # NONE /\ count = 0
                /\ UNCHANGED <<busy, rxBlock, rxq, rxSignal>>
             \/ /\ rxBlock = NONE
                /\ GetRxBlock
                /\ UNCHANGED <<rxq, rxSignal>>
          /\ UNCHANGED <<main, irq, kernelVars, awake, txVars, sockVars>>

-----------------------------------------------------------------------------
(***************************************************************************)
(* The tasks.                                                              *)
(***************************************************************************)
Runs(t) == Started /\ crashed = {} /\ t \in made

\* A task's step that needs the kernel objects in S.
Needing(S, Step) == IF S \subseteq made THEN Step ELSE Crash(S \ made)

\* osWaitForEvent(&slipRxEvent)
RxWake ==
  /\ Runs("RxTask") /\ ~awake /\ (rxSignal = 1 \/ "rxEvent" \notin made)
  /\ Needing({"rxEvent"},
       /\ rxSignal' = 0 /\ awake' = TRUE
       /\ UNCHANGED <<main, irq, dr, kernelVars, busy, rxBlock, inPacket, count, rxq, txVars, sockVars>>)

\* Mutant: the task handles one frame per wake-up.
RxSleepEarly ==
  /\ Runs("RxTask") /\ awake
  /\ awake' = FALSE
  /\ UNCHANGED <<main, irq, dr, kernelVars, busy, rxBlock, inPacket, count, rxq,
                 rxSignal, txVars, sockVars>>

\* The queue is empty: back to the wait.
RxSleep ==
  /\ Runs("RxTask") /\ awake /\ rxq = <<>>
  /\ awake' = FALSE
  /\ UNCHANGED <<main, irq, dr, kernelVars, busy, rxBlock, inPacket, count, rxq,
                 rxSignal, txVars, sockVars>>

\* SU_ReceiveTask has a frame; taking it off the queue is common to the cases.
RxHas(cmd) == Runs("RxTask") /\ awake /\ rxq # <<>> /\ Head(rxq).cmd = cmd

RxTakes ==
  /\ rxq' = Tail(rxq)
  /\ UNCHANGED <<main, irq, dr, kernelVars, rxBlock, inPacket, count, rxSignal, awake,
                 permits, server, clients>>

\* The checksum is wrong: the block is freed.
RxDamaged ==
  /\ RxHas("Damaged")
  /\ RxTakes /\ busy' = busy \ {Head(rxq).blk}
  /\ UNCHANGED <<txVars, used, acceptq>>

\* slip_sock_connect: a free socket, whose event is reset, is offered to the
\* server.
RxOffers ==
  /\ RxHas("Connect") /\ "acceptQueue" \in made
  /\ \E k \in Sockets \ used :
       Needing({k},
         /\ used' = used \cup {k} /\ acceptq' = Append(acceptq, k)
         /\ RxTakes /\ busy' = busy \ {Head(rxq).blk} /\ UNCHANGED txVars)

\* SU_Disconnect(block) or slip_sock_close: a Disconnect frame is queued.
SendDisconnect(b) == txq' = Append(txq, b) /\ txSignal' = 1

\* Mutant: slip_sock_connect keeps the socket that nobody can accept.
RxHasNoQueueKeeps ==
  /\ RxHas("Connect") /\ "acceptQueue" \notin made
  /\ \E k \in Sockets \ used :
       Needing({k, "txEvent"},
         /\ used' = used \cup {k}
         /\ RxTakes /\ SendDisconnect(Head(rxq).blk) /\ UNCHANGED <<busy, acceptq>>)

\* Without an accept queue the socket is reset, given back, and the frame
\* answered by a Disconnect.
RxHasNoQueue ==
  /\ RxHas("Connect") /\ "acceptQueue" \notin made
  /\ \E k \in Sockets \ used :
       Needing({k, "txEvent"},
         RxTakes /\ SendDisconnect(Head(rxq).blk) /\ UNCHANGED <<busy, used, acceptq>>)

\* No socket is free.
RxRefuses ==
  /\ RxHas("Connect") /\ used = Sockets
  /\ Needing({"txEvent"},
       RxTakes /\ SendDisconnect(Head(rxq).blk) /\ UNCHANGED <<busy, used, acceptq>>)

\* SU_TransmitTask and the transmitter: a frame is sent, its block freed and
\* the event set for the next one.
TxFrame ==
  /\ Runs("TxTask") /\ (txSignal = 1 \/ "txEvent" \notin made)
  /\ Needing({"txEvent"},
       /\ txSignal' = IF txq = <<>> THEN 0 ELSE 1
       /\ IF txq = <<>> THEN UNCHANGED <<busy, txq>>
          ELSE busy' = busy \ {Head(txq)} /\ txq' = Tail(txq)
       /\ UNCHANGED <<main, irq, dr, kernelVars, rxVars, sockVars>>)

\* tlsServerTask creates its semaphore.
ServerCreate ==
  /\ Runs("ServerTask") /\ server = "create"
  /\ Create({"semaphore"})
  /\ permits' = IF "semaphore" \in made' THEN MAX_CONNECTIONS ELSE 0
  /\ server' = "permit"
  /\ UNCHANGED <<main, irq, dr, busy, rxVars, txVars, used, acceptq, clients>>

\* osWaitForSemaphore(&connectionSemaphore)
ServerPermit ==
  /\ Runs("ServerTask") /\ server = "permit" /\ (permits > 0 \/ "semaphore" \notin made)
  /\ Needing({"semaphore"},
       /\ permits' = permits - 1 /\ server' = "accept"
       /\ UNCHANGED <<main, irq, dr, kernelVars, busy, rxVars, txVars, used, acceptq, clients>>)

\* slip_sock_close of a socket, and the release of its permit.
CloseAndRelease(k) ==
  /\ used' = used \ {k}
  /\ permits' = permits + 1
  /\ \/ busy = Blocks /\ UNCHANGED <<busy, txVars>>
     \/ \E b \in Blocks \ busy : busy' = busy \cup {b} /\ SendDisconnect(b)

ClosingNeeds == IF busy = Blocks THEN {} ELSE {"txEvent"}

\* Mutant: slip_sock_wait_connect gives up after a while.
ServerAcceptTimesOut ==
  /\ Runs("ServerTask") /\ server = "accept" /\ server' = "permit"
  /\ acceptq = <<>>
  /\ UNCHANGED <<main, irq, dr, kernelVars, busy, rxVars, txVars, used, acceptq, permits, clients>>

\* slip_sock_wait_connect; without an accept queue there is no handle, and
\* the permit is not given back.  Then the client task, or the failure to
\* create it.
ServerAccept ==
  /\ Runs("ServerTask") /\ server = "accept"
  /\ \/ /\ "acceptQueue" \notin made
        /\ server' = "permit"
        /\ UNCHANGED <<main, irq, dr, kernelVars, busy, rxVars, txVars, used, acceptq,
                       permits, clients>>
     \/ /\ acceptq # <<>>
        /\ server' = "permit"
        /\ acceptq' = Tail(acceptq) /\ clients' = clients \cup {Head(acceptq)}
        /\ UNCHANGED <<main, irq, dr, kernelVars, busy, rxVars, txVars, used, permits>>
     \/ /\ acceptq # <<>>
        /\ Needing(ClosingNeeds,
             /\ server' = "permit"
             /\ acceptq' = Tail(acceptq) /\ CloseAndRelease(Head(acceptq))
             /\ UNCHANGED <<main, irq, dr, kernelVars, rxVars, clients>>)

\* tlsClientTask comes to its end.
ClientEnds(k) ==
  /\ Started /\ crashed = {} /\ k \in clients
  /\ Needing(ClosingNeeds,
       /\ clients' = clients \ {k} /\ CloseAndRelease(k)
       /\ UNCHANGED <<main, irq, dr, kernelVars, rxVars, acceptq, server>>)

-----------------------------------------------------------------------------
RxTask == RxWake \/ RxSleep \/ RxDamaged \/ RxOffers \/ RxHasNoQueue \/ RxRefuses
ServerTask == ServerCreate \/ ServerPermit \/ ServerAccept

Next ==
  \/ Main \/ SysTick \/ Arrive \/ ReceiveData \/ ReceiveEnd
  \/ RxTask \/ TxFrame \/ ServerTask
  \/ \E k \in Sockets : ClientEnds(k)

Spec == Init /\ [][Next]_vars

\* main() goes on, and the scheduler runs the receive task when it is ready.
FairSpec == Spec /\ WF_vars(Main) /\ WF_vars(RxTask)

-----------------------------------------------------------------------------
(***************************************************************************)
(* Properties                                                              *)
(***************************************************************************)

\* Nothing is used before main() has made it: the program crashes only on an
\* object whose creation failed, neither interrupt on one main() has yet to
\* make, nor a task on one that another task makes.
CrashNeedsFailure == crashed \subseteq failed

\* The receive interrupt, on since SU_HwInit, does not undo or spoil what
\* SU_Init still has to do: every busy block is in one place, the receiver's
\* hands or a queue, through the start and after.
InQueue(b, q) == \E i \in DOMAIN q : q[i] = b
InFrames(b, q) == \E i \in DOMAIN q : q[i].blk = b

BlocksArePlaced ==
  /\ \A b \in Blocks : b \in busy <=> (b = rxBlock \/ InFrames(b, rxq) \/ InQueue(b, txq))
  /\ \A b \in Blocks : ~(InFrames(b, rxq) /\ InQueue(b, txq))
  /\ rxBlock # NONE => ~InFrames(rxBlock, rxq) /\ ~InQueue(rxBlock, txq)

\* The loop of tlsServerTask loses permits only in one case, when the accept
\* queue could not be created and accept returns at once.
PermitsAreKept ==
  server # "create" /\ {"semaphore", "acceptQueue"} \subseteq made =>
    permits + Cardinality(clients) + (IF server = "accept" THEN 1 ELSE 0) = MAX_CONNECTIONS

\* A socket in use is offered or served, whatever failed: a connection that
\* cannot be accepted does not keep its slot.
SocketsArePlaced ==
  \A k \in Sockets : k \in used <=> (k \in clients \/ InQueue(k, acceptq))

\* Whatever else is missing, a frame is taken and so answered as long as the
\* receive task exists and nothing crashed: a server that cannot accept does
\* not silence the line.
FramesAreTaken ==
  \A b \in Blocks : InFrames(b, rxq) ~>
    (~InFrames(b, rxq) \/ crashed # {} \/ {"RxTask", "idleTask"} \cap failed # {})

=============================================================================
