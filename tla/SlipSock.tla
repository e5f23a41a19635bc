------------------------------ MODULE SlipSock ------------------------------
(***************************************************************************)
(* The sockets over the serial line: slip_uart_sock.c, the dispatch loop   *)
(* of SU_ReceiveTask, the block and the frames of the receive interrupt,   *)
(* and the server and client tasks of main.c that use the sockets.         *)
(*                                                                         *)
(* The receive task, the server task and the client tasks share the socket *)
(* table without a lock, so a call is one step per access another task     *)
(* could notice.  "at" is the handle a task works on: slip_sock_free, in   *)
(* particular, runs in the receive task (the peer disconnects, or nobody   *)
(* accepts) and in the client and server tasks (slip_sock_close).          *)
(*                                                                         *)
(* The pool, the queues and the line are those of MemBlock, Queue, SlipTx  *)
(* and SlipRx with every call undisturbed: MB_Get returns a free block,    *)
(* MB_Free frees what is busy, a queue is a FIFO that refuses nothing.     *)
(*                                                                         *)
(* External: events are binary flags; the accept queue is a FreeRTOS queue *)
(* of SLIP_SOCK_MAX handles; task creation may fail; TLS decides when a    *)
(* client calls recv, send and close, and how much it asks for; and the    *)
(* peer, which sends what it likes on a connection it holds open.          *)
(* How much of a payload is left is not kept: a block is found to be used  *)
(* up, or not, when it is read.                                            *)
(***************************************************************************)
EXTENDS Integers, Sequences, FiniteSets

CONSTANTS
  Blocks,        \* the blocks of the pool
  Sockets,       \* the slots of slipSockTable (SLIP_SOCK_MAX of them)
  Ids,           \* connection ids the peer uses
  Clients,       \* client tasks that can exist at a time
  MAX_CONNECTIONS,  \* APP_SERVER_MAX_CONNECTIONS
  MAX_READ,      \* bound: the most a recv asks for
  Sends,         \* the commands peers send on a connection they hold open
  NONE

ASSUME SockAssumption ==
  /\ Sends \subseteq {"Data", "Disconnect", "Unknown"}
  /\ NONE \notin Blocks \cup Sockets \cup Ids
  /\ IsFiniteSet(Blocks) /\ IsFiniteSet(Sockets) /\ {"Rx", "Server"} \cap Clients = {}
  /\ Blocks # {} /\ MAX_CONNECTIONS \in Nat \ {0} /\ MAX_READ \in Nat \ {0}

Rx == "Rx"
Server == "Server"
Tasks == Clients \cup {Rx, Server}
Commands == {"Connect", "Data", "Disconnect", "Unknown", "Damaged"}

VARIABLES
  busy,         \* blocks that are mbBusy
  rxblk,        \* SlipRxBlock, the block the interrupt fills; NONE if it got none
  rxq,          \* SlipRxQueue: frames [blk, cmd, id] received
  cur,          \* the frame the receive task handles; blk = NONE if none
  txq,          \* SlipTxQueue and the transmitter: frames to be sent
  used, sid, sblock, queue, event,  \* the fields of each socket
  acceptq,      \* slipSockAcceptQueue
  permits,      \* connectionSemaphore
  pc, at,       \* where each task is, and the handle it works on
  closeId,      \* the id slip_sock_close read, per task
  want,         \* size - *received in slip_sock_recv, per client
  recycled,     \* history: the slot was given away under a running client
  untold,       \* history: ids the two ends disagree on, see PeerKnows
  late,         \* history: blocks pushed behind the loop of slip_sock_free
  peer          \* per id: "new", "open", "gone" (was sent a Disconnect) or "left"

poolVars == <<busy, rxblk, rxq, txq>>
sockVars == <<used, sid, sblock, queue, event>>
taskVars == <<closeId, want, recycled, untold, late>>
vars == <<poolVars, cur, sockVars, acceptq, permits, pc, at, taskVars, peer>>

Frame == [blk : Blocks, cmd : Commands, id : Ids]
Nothing == [blk |-> NONE, cmd |-> "Damaged", id |-> NONE]

FreePcs == {"free_test", "free_block", "free_queue", "free_used", "free_signal"}
RecvPcs == {"recv_test", "recv_get", "recv_wait", "recv_used", "recv_copy",
            "recv_free", "recv_null"}

TypeOK ==
  /\ busy \subseteq Blocks /\ rxblk \in Blocks \cup {NONE}
  /\ rxq \in Seq(Frame) /\ txq \in Seq(Frame) /\ cur \in Frame \cup {Nothing}
  /\ used \in [Sockets -> BOOLEAN] /\ sid \in [Sockets -> Ids \cup {NONE}]
  /\ sblock \in [Sockets -> Blocks \cup {NONE}]
  /\ queue \in [Sockets -> Seq(Blocks)] /\ event \in [Sockets -> {0, 1}]
  /\ acceptq \in Seq(Sockets) /\ Len(acceptq) <= Cardinality(Sockets)
  /\ permits \in 0 .. MAX_CONNECTIONS
  /\ pc[Rx] \in {"get", "dispatch", "new", "name", "offer", "push", "signal", "done", "refuse"}
                  \cup FreePcs
  /\ pc[Server] \in {"permit", "accept", "spawn", "close_send", "release"} \cup FreePcs
  /\ \A t \in Clients : pc[t] \in {"dead", "act", "close", "close_send", "release"}
                                    \cup FreePcs \cup RecvPcs
  /\ at \in [Tasks -> Sockets \cup {NONE}]
  /\ closeId \in [Tasks -> Ids \cup {NONE}]
  /\ want \in [Clients -> 0 .. MAX_READ] /\ recycled \in [Clients -> BOOLEAN]
  /\ untold \subseteq Ids /\ late \subseteq Blocks
  /\ peer \in [Ids -> {"new", "open", "gone", "left"}]

\* slip_sock_init, MB_Init, SU_Init and the tasks main() creates.
Init ==
  /\ rxblk \in Blocks /\ busy = {rxblk} /\ rxq = <<>> /\ txq = <<>> /\ cur = Nothing
  /\ used = [s \in Sockets |-> FALSE]
  /\ sid = [s \in Sockets |-> NONE] /\ sblock = [s \in Sockets |-> NONE]
  /\ queue = [s \in Sockets |-> <<>>] /\ event = [s \in Sockets |-> 0]
  /\ acceptq = <<>> /\ permits = MAX_CONNECTIONS
  /\ pc = [t \in Tasks |-> IF t = Rx THEN "get" ELSE IF t = Server THEN "permit" ELSE "dead"]
  /\ at = [t \in Tasks |-> NONE]
  /\ closeId = [t \in Tasks |-> NONE]
  /\ want = [t \in Clients |-> 0] /\ recycled = [t \in Clients |-> FALSE]
  /\ untold = {} /\ late = {}
  /\ peer = [i \in Ids |-> "new"]

\* Tasks that service the socket they work on.  Once used is FALSE the slot
\* is free; the event that slip_sock_free still sets only makes a later
\* owner look at its queue once more.
Serving(t) ==
  /\ t # Rx
  /\ pc[t] \in {"spawn", "act", "close"} \cup RecvPcs \cup (FreePcs \ {"free_signal"})

Goto(t, from, to) == pc[t] = from /\ pc' = [pc EXCEPT ![t] = to]

-----------------------------------------------------------------------------
(***************************************************************************)
(* SU_ReceiveTask.                                                         *)
(***************************************************************************)

\* block = queue_get(&SlipRxQueue)
RxGet ==
  /\ Goto(Rx, "get", "dispatch")
  /\ rxq # <<>>
  /\ cur' = Head(rxq) /\ rxq' = Tail(rxq)
  /\ UNCHANGED <<busy, rxblk, txq, sockVars, acceptq, permits, at, taskVars, peer>>

\* slip_sock_get(id): the used socket with that id.
SocketOf(i) == {s \in Sockets : used[s] /\ sid[s] = i}

\* slip_sock_alloc finds no socket with the id and a slot that is not used.
CanOpen(i) == SocketOf(i) = {} /\ \E s \in Sockets : ~used[s]

\* What the frame calls for, up to the first access that depends on it.
RxDispatch ==
  /\ pc[Rx] = "dispatch"
  /\ UNCHANGED <<poolVars, cur, sid, sblock, queue, event, acceptq, permits,
                 closeId, want, untold, late, peer>>
  /\ \/ /\ \/ cur.cmd = "Damaged"                  \* calcCrc() # 0
           \/ cur.cmd = "Unknown" /\ SocketOf(cur.id) # {}
        /\ pc' = [pc EXCEPT ![Rx] = "done"]
        /\ UNCHANGED <<used, at, recycled>>
     \/ /\ cur.cmd # "Damaged"
        /\ IF cur.cmd = "Connect" THEN ~CanOpen(cur.id) ELSE SocketOf(cur.id) = {}
        /\ pc' = [pc EXCEPT ![Rx] = "refuse"]
        /\ UNCHANGED <<used, at, recycled>>
     \/ /\ cur.cmd = "Connect" /\ CanOpen(cur.id)
        /\ \E s \in Sockets :                      \* slip_sock_new: sock->used = TRUE
             /\ ~used[s]
             /\ used' = [used EXCEPT ![s] = TRUE]
             /\ at' = [at EXCEPT ![Rx] = s]
             /\ recycled' = [t \in Clients |->
                  recycled[t] \/ (at[t] = s /\ Serving(t))]
        /\ pc' = [pc EXCEPT ![Rx] = "new"]
     \/ /\ cur.cmd \in {"Data", "Disconnect"}
        /\ \E s \in SocketOf(cur.id) : at' = [at EXCEPT ![Rx] = s]
        /\ pc' = [pc EXCEPT ![Rx] = IF cur.cmd = "Data" THEN "push" ELSE "free_test"]
        /\ UNCHANGED <<used, recycled>>

\* The rest of slip_sock_new: block, pos, queue_init, osResetEvent.
RxNew ==
  /\ Goto(Rx, "new", "name")
  /\ sblock' = [sblock EXCEPT ![at[Rx]] = NONE]
  /\ queue' = [queue EXCEPT ![at[Rx]] = <<>>]
  /\ event' = [event EXCEPT ![at[Rx]] = 0]
  /\ UNCHANGED <<poolVars, cur, used, sid, acceptq, permits, at, taskVars, peer>>

\* sock->id = id
RxName ==
  /\ Goto(Rx, "name", "offer")
  /\ sid' = [sid EXCEPT ![at[Rx]] = cur.id]
  /\ UNCHANGED <<poolVars, cur, used, sblock, queue, event, acceptq, permits, at, taskVars, peer>>

\* xQueueSend(slipSockAcceptQueue, &sock, ...): room, or a timeout.
RxOffer ==
  /\ pc[Rx] = "offer"
  /\ \/ /\ Len(acceptq) < Cardinality(Sockets)
        /\ acceptq' = Append(acceptq, at[Rx])
        /\ pc' = [pc EXCEPT ![Rx] = "done"]
     \/ /\ Len(acceptq) = Cardinality(Sockets)
        /\ pc' = [pc EXCEPT ![Rx] = "free_test"]
        /\ UNCHANGED acceptq
  /\ UNCHANGED <<poolVars, cur, sockVars, permits, at, taskVars, peer>>

\* The loop of slip_sock_free that empties the queue is over.
Emptied(s) == ~used[s] \/ \E t \in Tasks : at[t] = s /\ pc[t] = "free_used"

\* slip_sock_push_recv_data_in_queue: queue_insert, then osSetEvent.
RxPush ==
  /\ Goto(Rx, "push", "signal")
  /\ queue' = [queue EXCEPT ![at[Rx]] = Append(@, cur.blk)]
  /\ late' = IF Emptied(at[Rx]) THEN late \cup {cur.blk} ELSE late
  /\ cur' = Nothing
  /\ UNCHANGED <<poolVars, used, sid, sblock, event, acceptq, permits, at,
                 closeId, want, recycled, untold, peer>>

\* Mutant: data is queued without setting the event.
RxSignalMissing ==
  /\ Goto(Rx, "signal", "get")
  /\ at' = [at EXCEPT ![Rx] = NONE]
  /\ UNCHANGED <<poolVars, cur, sockVars, acceptq, permits, taskVars, peer>>

RxSignal ==
  /\ Goto(Rx, "signal", "get")
  /\ event' = [event EXCEPT ![at[Rx]] = 1]
  /\ at' = [at EXCEPT ![Rx] = NONE]
  /\ UNCHANGED <<poolVars, cur, used, sid, sblock, queue, acceptq, permits, taskVars, peer>>

\* Mutant: the refusal forgets the frame's block.
RxRefuseDrops ==
  /\ Goto(Rx, "refuse", "get")
  /\ cur' = Nothing
  /\ UNCHANGED <<poolVars, sockVars, acceptq, permits, at, taskVars, peer>>

\* SU_Disconnect(block): the frame goes back as a Disconnect.
RxRefuse ==
  /\ Goto(Rx, "refuse", "get")
  /\ txq' = Append(txq, [cur EXCEPT !.cmd = "Disconnect"])
  /\ cur' = Nothing
  /\ UNCHANGED <<busy, rxblk, rxq, sockVars, acceptq, permits, at, taskVars, peer>>

\* MB_Free(block) at the end of the loop.
RxDone ==
  /\ Goto(Rx, "done", "get")
  /\ busy' = busy \ {cur.blk}
  /\ cur' = Nothing
  /\ at' = [at EXCEPT ![Rx] = NONE]
  /\ UNCHANGED <<rxblk, rxq, txq, sockVars, acceptq, permits, taskVars, peer>>

-----------------------------------------------------------------------------
(***************************************************************************)
(* slip_sock_free, in any of the tasks.                                    *)
(***************************************************************************)

\* if (socket->block)
FreeTest(t) ==
  /\ Goto(t, "free_test", IF sblock[at[t]] = NONE THEN "free_queue" ELSE "free_block")
  /\ UNCHANGED <<poolVars, cur, sockVars, acceptq, permits, at, taskVars, peer>>

\* MB_Free(socket->block): the pointer itself is left as it is.
FreeBlock(t) ==
  /\ Goto(t, "free_block", "free_queue")
  /\ busy' = busy \ {sblock[at[t]]}
  /\ UNCHANGED <<rxblk, rxq, txq, cur, sockVars, acceptq, permits, at, taskVars, peer>>

\* One turn of the loop that drains the queue.
FreeQueue(t) ==
  /\ pc[t] = "free_queue"
  /\ \/ /\ queue[at[t]] # <<>>
        /\ busy' = busy \ {Head(queue[at[t]])}
        /\ queue' = [queue EXCEPT ![at[t]] = Tail(@)]
        /\ UNCHANGED pc
     \/ /\ queue[at[t]] = <<>>
        /\ pc' = [pc EXCEPT ![t] = "free_used"]
        /\ UNCHANGED <<busy, queue>>
  /\ UNCHANGED <<rxblk, rxq, txq, cur, used, sid, sblock, event, acceptq, permits, at, taskVars, peer>>

\* socket->used = FALSE
FreeUsed(t) ==
  /\ Goto(t, "free_used", "free_signal")
  /\ used' = [used EXCEPT ![at[t]] = FALSE]
  /\ UNCHANGED <<poolVars, cur, sid, sblock, queue, event, acceptq, permits, at, taskVars, peer>>

\* osSetEvent(&socket->event), and the return to the caller.
FreeSignal(t) ==
  /\ pc[t] = "free_signal"
  /\ event' = [event EXCEPT ![at[t]] = 1]
  /\ at' = [at EXCEPT ![t] = NONE]
  /\ pc' = [pc EXCEPT ![t] = IF t # Rx THEN "close_send"
                             ELSE IF cur.cmd = "Connect" THEN "refuse" ELSE "done"]
  /\ UNCHANGED <<poolVars, cur, used, sid, sblock, queue, acceptq, permits, taskVars, peer>>

SlipSockFree(t) == FreeTest(t) \/ FreeBlock(t) \/ FreeQueue(t) \/ FreeUsed(t) \/ FreeSignal(t)

-----------------------------------------------------------------------------
(***************************************************************************)
(* slip_sock_close, and the release of the permit.                         *)
(***************************************************************************)

\* Mutant: the slot is given up before its blocks are freed.
CloseStartUnused(t) ==
  /\ Goto(t, "close", "free_test")
  /\ closeId' = [closeId EXCEPT ![t] = sid[at[t]]]
  /\ used' = [used EXCEPT ![at[t]] = FALSE]
  /\ UNCHANGED <<poolVars, cur, sid, sblock, queue, event, acceptq, permits, at,
                 want, recycled, untold, late, peer>>

\* id = socket->id, before slip_sock_free.
CloseStart(t) ==
  /\ Goto(t, "close", "free_test")
  /\ closeId' = [closeId EXCEPT ![t] = sid[at[t]]]
  /\ UNCHANGED <<poolVars, cur, sockVars, acceptq, permits, at, want, recycled, untold, late, peer>>

\* Mutant: the permit is released with the Disconnect frame and once more.
CloseSendReleases(t) ==
  /\ Goto(t, "close_send", "release")
  /\ permits' = permits + 1
  /\ UNCHANGED <<poolVars, cur, sockVars, acceptq, at, taskVars, peer>>

\* Mutant: the task ends without a Disconnect frame.
CloseSendSilent(t) ==
  /\ Goto(t, "close_send", "release")
  /\ UNCHANGED <<poolVars, cur, sockVars, acceptq, permits, at, taskVars, peer>>

\* The Disconnect frame, if MB_Get has a block for it; the local variable id
\* is gone with the return.
CloseSend(t) ==
  /\ Goto(t, "close_send", "release")
  /\ \/ /\ busy = Blocks
        /\ untold' = untold \cup {closeId[t]}
        /\ UNCHANGED <<busy, txq>>
     \/ /\ \E b \in Blocks \ busy :
             /\ busy' = busy \cup {b}
             /\ txq' = Append(txq, [blk |-> b, cmd |-> "Disconnect", id |-> closeId[t]])
        /\ UNCHANGED untold
  /\ closeId' = [closeId EXCEPT ![t] = NONE]
  /\ UNCHANGED <<rxblk, rxq, cur, sockVars, acceptq, permits, at, want, recycled, late, peer>>

\* Mutant: the task ends without releasing its permit.
ReleaseForgotten(t) ==
  /\ Goto(t, "release", IF t = Server THEN "permit" ELSE "dead")
  /\ UNCHANGED <<poolVars, cur, sockVars, acceptq, permits, at, taskVars, peer>>

\* osReleaseSemaphore(&connectionSemaphore); a client task then deletes itself.
Release(t) ==
  /\ Goto(t, "release", IF t = Server THEN "permit" ELSE "dead")
  /\ permits' = permits + 1
  /\ UNCHANGED <<poolVars, cur, sockVars, acceptq, at, taskVars, peer>>

-----------------------------------------------------------------------------
(***************************************************************************)
(* tlsServerTask.                                                          *)
(***************************************************************************)
ServerPermit ==
  /\ Goto(Server, "permit", "accept")
  /\ permits > 0 /\ permits' = permits - 1
  /\ UNCHANGED <<poolVars, cur, sockVars, acceptq, at, taskVars, peer>>

\* Mutant: the handle is peeked at rather than received.
ServerAcceptPeeks ==
  /\ Goto(Server, "accept", "spawn")
  /\ acceptq # <<>>
  /\ at' = [at EXCEPT ![Server] = Head(acceptq)]
  /\ UNCHANGED <<poolVars, cur, sockVars, acceptq, permits, taskVars, peer>>

\* slip_sock_wait_connect()
ServerAccept ==
  /\ Goto(Server, "accept", "spawn")
  /\ acceptq # <<>>
  /\ at' = [at EXCEPT ![Server] = Head(acceptq)]
  /\ acceptq' = Tail(acceptq)
  /\ UNCHANGED <<poolVars, cur, sockVars, permits, taskVars, peer>>

\* osCreateTask: a client task starts, or creation fails and the server
\* closes the socket itself.
ServerSpawn ==
  /\ pc[Server] = "spawn"
  /\ \/ \E t \in Clients :
          /\ pc[t] = "dead"
          /\ pc' = [pc EXCEPT ![t] = "act", ![Server] = "permit"]
          /\ at' = [at EXCEPT ![t] = at[Server], ![Server] = NONE]
          /\ recycled' = [recycled EXCEPT ![t] = FALSE]
          /\ UNCHANGED closeId
     \/ /\ pc' = [pc EXCEPT ![Server] = "free_test"]
        /\ closeId' = [closeId EXCEPT ![Server] = sid[at[Server]]]
        /\ UNCHANGED <<at, recycled>>
  /\ UNCHANGED <<poolVars, cur, sockVars, acceptq, permits, want, untold, late, peer>>

-----------------------------------------------------------------------------
(***************************************************************************)
(* tlsClientTask: TLS calls slip_sock_recv and slip_sock_send as often as  *)
(* handshake, request and response take, in any order, and the task closes *)
(* the socket after an error or at the end of the exchange.                *)
(***************************************************************************)

\* slip_sock_recv(sock, data, size, &received), to its first test.
ClientRecv(t) ==
  /\ Goto(t, "act", "recv_test")
  /\ \E size \in 1 .. MAX_READ : want' = [want EXCEPT ![t] = size]
  /\ UNCHANGED <<poolVars, cur, sockVars, acceptq, permits, at, closeId, recycled, untold, late, peer>>

\* slip_sock_send: out of memory, or the frame is handed to SU_Send.
ClientSend(t) ==
  /\ pc[t] = "act"
  /\ \/ /\ busy = Blocks
        /\ pc' = [pc EXCEPT ![t] = "close"]
        /\ UNCHANGED <<busy, txq>>
     \/ /\ \E b \in Blocks \ busy :
             /\ busy' = busy \cup {b}
             /\ txq' = Append(txq, [blk |-> b, cmd |-> "Data", id |-> sid[at[t]]])
        /\ UNCHANGED pc
  /\ UNCHANGED <<rxblk, rxq, cur, sockVars, acceptq, permits, at, taskVars, peer>>

ClientClose(t) ==
  /\ Goto(t, "act", "close")
  /\ UNCHANGED <<poolVars, cur, sockVars, acceptq, permits, at, taskVars, peer>>

\* if (!socket->block), at the head of each turn of the loop
RecvTest(t) ==
  /\ Goto(t, "recv_test", IF sblock[at[t]] = NONE THEN "recv_get" ELSE "recv_copy")
  /\ UNCHANGED <<poolVars, cur, sockVars, acceptq, permits, at, taskVars, peer>>

\* socket->block = queue_get(&socket->queue)
RecvGet(t) ==
  /\ pc[t] = "recv_get"
  /\ LET s == at[t]
     IN  \/ /\ queue[s] = <<>>
            /\ sblock' = [sblock EXCEPT ![s] = NONE]
            /\ pc' = [pc EXCEPT ![t] = "recv_wait"]
            /\ UNCHANGED queue
         \/ /\ queue[s] # <<>>
            /\ sblock' = [sblock EXCEPT ![s] = Head(queue[s])]
            /\ queue' = [queue EXCEPT ![s] = Tail(@)]
            /\ pc' = [pc EXCEPT ![t] = "recv_copy"]
  /\ UNCHANGED <<poolVars, cur, used, sid, event, acceptq, permits, at, taskVars, peer>>

\* osWaitForEvent(&socket->event, INFINITE_DELAY)
RecvWait(t) ==
  /\ Goto(t, "recv_wait", "recv_used")
  /\ event[at[t]] = 1
  /\ event' = [event EXCEPT ![at[t]] = 0]
  /\ UNCHANGED <<poolVars, cur, used, sid, sblock, queue, acceptq, permits, at, taskVars, peer>>

\* Mutant: after the wake-up the queue is not looked at again.
RecvUsedSleeps(t) ==
  /\ Goto(t, "recv_used", IF used[at[t]] THEN "recv_wait" ELSE "close")
  /\ UNCHANGED <<poolVars, cur, sockVars, acceptq, permits, at, taskVars, peer>>

\* if (!socket->used) return ERROR_CONNECTION_CLOSING
RecvUsed(t) ==
  /\ Goto(t, "recv_used", IF used[at[t]] THEN "recv_get" ELSE "close")
  /\ UNCHANGED <<poolVars, cur, sockVars, acceptq, permits, at, taskVars, peer>>

\* The copy of MIN(what is asked for, what the block has): n bytes, none if
\* the payload is empty, use the block up, or it has more than is asked for.
RecvCopy(t) ==
  /\ pc[t] = "recv_copy"
  /\ \/ /\ \E n \in 0 .. want[t] : want' = [want EXCEPT ![t] = @ - n]
        /\ pc' = [pc EXCEPT ![t] = "recv_free"]
     \/ /\ want' = [want EXCEPT ![t] = 0]
        /\ pc' = [pc EXCEPT ![t] = "act"]
  /\ UNCHANGED <<poolVars, cur, sockVars, acceptq, permits, at, closeId, recycled, untold, late, peer>>

\* MB_Free(socket->block)
RecvFree(t) ==
  /\ Goto(t, "recv_free", "recv_null")
  /\ busy' = busy \ {sblock[at[t]]}
  /\ UNCHANGED <<rxblk, rxq, txq, cur, sockVars, acceptq, permits, at, taskVars, peer>>

\* Mutant: the pointer to the freed block is kept.
RecvNullKeeps(t) ==
  /\ Goto(t, "recv_null", IF want[t] > 0 THEN "recv_test" ELSE "act")
  /\ UNCHANGED <<poolVars, cur, sockVars, acceptq, permits, at, taskVars, peer>>

\* socket->block = NULL, and another turn while (*received < size).
RecvNull(t) ==
  /\ Goto(t, "recv_null", IF want[t] > 0 THEN "recv_test" ELSE "act")
  /\ sblock' = [sblock EXCEPT ![at[t]] = NONE]
  /\ UNCHANGED <<poolVars, cur, used, sid, queue, event, acceptq, permits, at, taskVars, peer>>

SlipSockRecv(t) ==
  \/ RecvTest(t) \/ RecvGet(t) \/ RecvWait(t) \/ RecvUsed(t)
  \/ RecvCopy(t) \/ RecvFree(t) \/ RecvNull(t)

-----------------------------------------------------------------------------
(***************************************************************************)
(* The line: the receive interrupt, the transmitter and the peer.          *)
(***************************************************************************)

\* SlipRxBlock = MB_Get()
NextBlock ==
  \/ busy = Blocks /\ rxblk' = NONE /\ busy' = busy
  \/ \E b \in Blocks \ busy : rxblk' = b /\ busy' = busy \cup {b}

\* The delimiter that ends a frame: the frame is queued, or it is dropped
\* because there was no block when it began.
FrameEnds(c, i) ==
  /\ rxq' = IF rxblk = NONE THEN rxq
            ELSE Append(rxq, [blk |-> rxblk, cmd |-> c, id |-> i])
  /\ NextBlock
  /\ UNCHANGED <<txq, cur, sockVars, acceptq, permits, pc, at, closeId, want, recycled, late>>

\* A delimiter between frames: a receiver without a block asks for one.
Delimiter ==
  /\ rxblk = NONE /\ NextBlock
  /\ UNCHANGED <<rxq, txq, cur, sockVars, acceptq, permits, pc, at, taskVars, peer>>

\* The peer sends a frame, which is heard as it is or damaged.
PeerSends(c, i, from, to) ==
  /\ peer[i] \in from
  /\ peer' = [peer EXCEPT ![i] = to]
  /\ \/ /\ FrameEnds(c, i)
        /\ untold' = IF rxblk # NONE THEN untold \ {i}
                     ELSE IF c = "Connect" THEN untold \cup {i} ELSE untold
     \/ /\ FrameEnds("Damaged", i)
        /\ untold' = IF c = "Connect" THEN untold \cup {i} ELSE untold

\* Every connection has an id of its own.
PeerConnect(i) == PeerSends("Connect", i, {"new"}, "open")

PeerData(i) == \E c \in Sends \ {"Disconnect"} : PeerSends(c, i, {"open"}, "open")

PeerHangUp(i) == "Disconnect" \in Sends /\ PeerSends("Disconnect", i, {"open"}, "left")

\* The transmitter sends the oldest frame and frees its block.
Transmit ==
  /\ txq # <<>>
  /\ txq' = Tail(txq)
  /\ busy' = busy \ {Head(txq).blk}
  /\ peer' = [peer EXCEPT ![Head(txq).id] =
                IF Head(txq).cmd = "Disconnect" /\ @ # "left" THEN "gone" ELSE @]
  /\ UNCHANGED <<rxblk, rxq, cur, sockVars, acceptq, permits, pc, at, taskVars>>

-----------------------------------------------------------------------------
RxTask ==
  \/ RxGet \/ RxDispatch \/ RxNew \/ RxName \/ RxOffer \/ RxPush \/ RxSignal
  \/ RxRefuse \/ RxDone \/ SlipSockFree(Rx)

ServerTask ==
  ServerPermit \/ ServerAccept \/ ServerSpawn
    \/ SlipSockFree(Server) \/ CloseSend(Server) \/ Release(Server)

ClientTask(t) ==
  \/ ClientRecv(t) \/ ClientSend(t) \/ ClientClose(t) \/ SlipSockRecv(t)
  \/ CloseStart(t) \/ SlipSockFree(t) \/ CloseSend(t) \/ Release(t)

Next ==
  \/ RxTask \/ ServerTask \/ Transmit \/ Delimiter
  \/ \E t \in Clients : ClientTask(t)
  \/ \E i \in Ids : PeerConnect(i) \/ PeerData(i) \/ PeerHangUp(i)

Spec == Init /\ [][Next]_vars

\* The scheduler runs every ready task and the transmitter sends.
FairSpec ==
  /\ Spec
  /\ WF_vars(RxTask) /\ WF_vars(ServerTask) /\ WF_vars(Transmit)
  /\ \A t \in Clients : WF_vars(ClientTask(t))

\* A copy that uses its block up and takes something.
Takes(t) == RecvCopy(t) /\ pc'[t] = "recv_free" /\ want'[t] < want[t]

\* Data of the peer gets through.
GetsThrough(i) == peer[i] = "open" /\ rxblk # NONE /\ PeerData(i)
                    /\ \E b \in Blocks : rxq' = Append(rxq, [blk |-> b, cmd |-> "Data", id |-> i])

\* A peer that keeps sending: a receiver without a block hears delimiters,
\* data gets through again and again, blocks are finite and not all empty;
\* and exchanges end (a client that is asked again and again what to do
\* next closes at last).
AnsweredSpec ==
  /\ FairSpec
  /\ SF_vars(Delimiter /\ rxblk' # NONE)
  /\ \A i \in Ids : SF_vars(GetsThrough(i))
  /\ \A t \in Clients : SF_vars(Takes(t)) /\ SF_vars(ClientClose(t))

-----------------------------------------------------------------------------
(***************************************************************************)
(* Properties                                                              *)
(***************************************************************************)

\* A permit is taken exactly while the server waits for or starts a
\* connection or a client task runs.
PermitsConserved ==
  permits + Cardinality({t \in Clients : pc[t] # "dead"})
          + (IF pc[Server] = "permit" THEN 0 ELSE 1) = MAX_CONNECTIONS

\* Every connection is serviced by one task: a socket is at most once in the
\* accept queue or in the hands of a task.
OneTaskPerSocket ==
  \A s \in Sockets :
    Cardinality({t \in Tasks : Serving(t) /\ at[t] = s})
      + Cardinality({k \in DOMAIN acceptq : acceptq[k] = s}) <= 1

\* A client's slot is not given to another connection while the client still
\* uses it: what it reads, sends and closes is its own connection.
ClientKeepsItsSocket == \A t \in Clients : ~recycled[t]

\* References to a block that will still be followed.  socket->block dangles
\* from MB_Free to the assignment of NULL, and from slip_sock_free to the
\* assignment in slip_sock_new.
Live(s) ==
  /\ sblock[s] # NONE /\ used[s]
  /\ \A t \in Tasks : at[t] = s => pc[t] \notin {"recv_null", "free_queue", "free_used", "new"}

References(b) ==
  Cardinality({k \in DOMAIN rxq : rxq[k].blk = b})
    + Cardinality({k \in DOMAIN txq : txq[k].blk = b})
    + (IF cur.blk = b THEN 1 ELSE 0) + (IF rxblk = b THEN 1 ELSE 0)
    + Cardinality({s \in Sockets : sblock[s] = b /\ Live(s)})
    + Cardinality({p \in Sockets \X (1 .. Cardinality(Blocks)) :
                     p[2] \in DOMAIN queue[p[1]] /\ queue[p[1]][p[2]] = b})

\* A block somebody will still read, send or free is busy and has no other
\* user: nothing is used after it was freed, nothing is freed twice.
BlocksHaveOneUser ==
  \A b \in Blocks : References(b) <= 1 /\ (References(b) = 1 => b \in busy)

\* Dispatch, recv, send, the close and all their errors forget no block: a
\* busy block is referred to, or it is late.  The receive task can push a block
\* in the queue of a socket whose client has just emptied it, and the next
\* connection's queue_init forgets it: that race is a leak, the only one, and
\* what it takes is never given back.
OnlyLatePushesLeak == (\A b \in busy : References(b) = 1 \/ b \in late) /\ late \subseteq busy

\* A client sleeps only while there is nothing for it: if its event is clear
\* then its queue is empty and its socket in use, or the task that changed
\* that is about to set the event.
NoLostWakeup ==
  \A t \in Clients : pc[t] = "recv_wait" /\ event[at[t]] = 0 =>
    /\ queue[at[t]] = <<>> \/ (pc[Rx] = "signal" /\ at[Rx] = at[t])
    /\ used[at[t]] \/ \E u \in Tasks : pc[u] = "free_signal" /\ at[u] = at[t]

\* Both ends agree on which connections exist.  One the peer holds open has
\* a socket, or the news is under way: a frame of it that will be served or
\* refused, a Disconnect to be sent, or a task about to send one.  The
\* exceptions are connections whose Connect was damaged or found no block,
\* and connections closed while the pool was empty; and even those are
\* known again from the first frame of theirs that gets through.
Named(s) == used[s] /\ ~(at[Rx] = s /\ pc[Rx] \in {"new", "name"})
Closing(t, i) == t # Rx /\ pc[t] \in FreePcs \cup {"close_send"} /\ closeId[t] = i

PeerKnows ==
  \A i \in Ids \ untold : peer[i] = "open" =>
    \/ \E s \in SocketOf(i) : Named(s)
    \/ \E k \in DOMAIN rxq : rxq[k].id = i /\ rxq[k].cmd # "Damaged"
    \/ cur.id = i /\ cur.cmd # "Damaged"
    \/ \E k \in DOMAIN txq : txq[k].id = i /\ txq[k].cmd = "Disconnect"
    \/ \E t \in Tasks : Closing(t, i)

\* slip_sock_recv comes back, however many blocks it takes, unless every
\* block of the pool is lost to late pushes.
RecvReturns == \A t \in Clients : pc[t] \in RecvPcs ~> (pc[t] \notin RecvPcs \/ late = Blocks)

\* A connection that was offered is accepted, unless every block is lost:
\* every task gives its permit back, so the permits never run out for good.
OfferedIsAccepted == acceptq # <<>> ~> (acceptq = <<>> \/ late = Blocks)

=============================================================================
