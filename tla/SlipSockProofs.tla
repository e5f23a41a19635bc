--------------------------- MODULE SlipSockProofs ---------------------------
(***************************************************************************)
(* Proofs about the sockets, for any pool, table, number of tasks and      *)
(* permits.                                                                *)
(*                                                                         *)
(* Typing and the permits hold whatever the peer does.  That a socket has  *)
(* one task, and what follows from it, is proved for peers that do not     *)
(* hang up: with those that do it fails, because slip_sock_free then runs  *)
(* in the receive task under the task that holds the socket.  For those    *)
(* peers a block is also used from one place at a time, and the blocks the *)
(* pool loses are exactly those pushed behind the loop of slip_sock_free.  *)
(***************************************************************************)
EXTENDS SlipSock, FiniteSetTheorems, TLAPS

RxPcs == {"get", "dispatch", "new", "name", "offer", "push", "signal", "done", "refuse"}
           \cup FreePcs
ServerPcs == {"permit", "accept", "spawn", "close_send", "release"} \cup FreePcs
ClientPcs == {"dead", "act", "close", "close_send", "release"} \cup FreePcs \cup RecvPcs
Pcs == RxPcs \cup ServerPcs \cup ClientPcs

PcTypes ==
  /\ pc \in [Tasks -> Pcs]
  /\ pc[Rx] \in RxPcs /\ pc[Server] \in ServerPcs
  /\ \A t \in Clients : pc[t] \in ClientPcs

FrameTypes ==
  /\ busy \subseteq Blocks /\ rxblk \in Blocks \cup {NONE}
  /\ rxq \in Seq(Frame) /\ txq \in Seq(Frame) /\ cur \in Frame \cup {Nothing}
  /\ pc[Rx] \in {"dispatch", "new", "name", "offer", "push", "done", "refuse"} \cup FreePcs => cur \in Frame

SockTypes ==
  /\ used \in [Sockets -> BOOLEAN] /\ sid \in [Sockets -> Ids \cup {NONE}]
  /\ sblock \in [Sockets -> Blocks \cup {NONE}]
  /\ queue \in [Sockets -> Seq(Blocks)] /\ event \in [Sockets -> {0, 1}]
  /\ acceptq \in Seq(Sockets) /\ Len(acceptq) <= Cardinality(Sockets)

\* A handle that is offered or worked on belongs to a socket that has had a
\* connection, so its id is one.
Offered == \A k \in DOMAIN acceptq : sid[acceptq[k]] \in Ids

RxHandle ==
  /\ pc[Rx] \in {"new", "name", "offer", "push", "signal"} \cup FreePcs => at[Rx] \in Sockets
  /\ pc[Rx] = "offer" => sid[at[Rx]] \in Ids

TaskHandle(t) ==
  /\ pc[t] \in {"spawn", "act", "close"} \cup RecvPcs \cup FreePcs =>
       at[t] \in Sockets /\ sid[at[t]] \in Ids
  /\ pc[t] \in {"close_send"} \cup FreePcs => closeId[t] \in Ids

Handles ==
  /\ at \in [Tasks -> Sockets \cup {NONE}]
  /\ closeId \in [Tasks -> Ids \cup {NONE}]
  /\ RxHandle /\ Offered /\ \A t \in Tasks \ {Rx} : TaskHandle(t)

OtherTypes ==
  /\ want \in [Clients -> 0 .. MAX_READ] /\ recycled \in [Clients -> BOOLEAN]
  /\ untold \subseteq Ids /\ late \subseteq Blocks
  /\ peer \in [Ids -> {"new", "open", "gone", "left"}]

Types == PcTypes /\ FrameTypes /\ SockTypes /\ Handles /\ OtherTypes

\* The receive task, the server and the clients are different tasks.
LEMMA TasksApart == /\ Rx \in Tasks /\ Server \in Tasks /\ Rx # Server /\ Clients \subseteq Tasks
                    /\ Rx \notin Clients /\ Server \notin Clients
                    /\ \A t \in Tasks : t = Rx \/ t = Server \/ t \in Clients
  BY SockAssumption DEF Tasks, Rx, Server

-----------------------------------------------------------------------------
(***************************************************************************)
(* Where the tasks are.                                                    *)
(***************************************************************************)
LEMMA InitPc == Init => PcTypes
  BY TasksApart DEF Init, PcTypes, Pcs, RxPcs, ServerPcs, ClientPcs

\* Every step leaves each task at one of its own steps.
LEMMA NextPc == PcTypes /\ [Next]_vars => PcTypes'
<1> SUFFICES ASSUME PcTypes, [Next]_vars PROVE PcTypes'
  OBVIOUS
<1>0. ASSUME NEW t \in Tasks, NEW to, pc' = [pc EXCEPT ![t] = to],
             \/ t = Rx /\ to \in RxPcs
             \/ t = Server /\ to \in ServerPcs
             \/ t \in Clients /\ to \in ClientPcs
      PROVE  PcTypes'
  BY <1>0, TasksApart DEF PcTypes, Pcs
<1>1. CASE RxTask
  <2>1. \/ pc' = pc
        \/ \E to \in RxPcs : pc' = [pc EXCEPT ![Rx] = to]
    BY <1>1 DEF RxTask, RxGet, RxDispatch, RxNew, RxName, RxOffer, RxPush, RxSignal, RxRefuse, RxDone, SlipSockFree,
                FreeTest, FreeBlock, FreeQueue, FreeUsed, FreeSignal, Goto, RxPcs, FreePcs
  <2> QED
    BY <1>0, <2>1, TasksApart DEF PcTypes
<1>2. CASE ServerTask
  <2>1. \/ pc' = pc
        \/ \E to \in ServerPcs : pc' = [pc EXCEPT ![Server] = to]
        \/ \E t \in Clients : pc' = [pc EXCEPT ![t] = "act", ![Server] = "permit"]
    BY <1>2, TasksApart DEF ServerTask, ServerPermit, ServerAccept, ServerSpawn, SlipSockFree, CloseSend,
                Release, FreeTest, FreeBlock, FreeQueue, FreeUsed, FreeSignal, Goto, ServerPcs, FreePcs
  <2>2. CASE \E t \in Clients : pc' = [pc EXCEPT ![t] = "act", ![Server] = "permit"]
    BY <2>2, TasksApart DEF PcTypes, Pcs, ServerPcs, ClientPcs
  <2> QED
    BY <1>0, <2>1, <2>2, TasksApart DEF PcTypes
<1>3. ASSUME NEW t \in Clients, ClientTask(t) PROVE PcTypes'
  <2>1. \/ pc' = pc
        \/ \E to \in ClientPcs : pc' = [pc EXCEPT ![t] = to]
    BY <1>3, TasksApart DEF ClientTask, ClientRecv, ClientSend, ClientClose, SlipSockRecv, RecvTest, RecvGet,
                RecvWait, RecvUsed, RecvCopy, RecvFree, RecvNull, CloseStart, SlipSockFree, CloseSend, Release,
                FreeTest, FreeBlock, FreeQueue, FreeUsed, FreeSignal, Goto, ClientPcs, FreePcs, RecvPcs
  <2> QED
    BY <1>0, <2>1, TasksApart DEF PcTypes
<1>4. CASE Transmit \/ Delimiter \/ (\E i \in Ids : PeerConnect(i) \/ PeerData(i) \/ PeerHangUp(i)) \/ UNCHANGED vars
  <2>1. pc' = pc
    BY <1>4 DEF Transmit, Delimiter, PeerConnect, PeerData, PeerHangUp, PeerSends, FrameEnds, NextBlock, vars
  <2> QED
    BY <2>1 DEF PcTypes
<1> QED
  BY <1>1, <1>2, <1>3, <1>4 DEF Next

-----------------------------------------------------------------------------
(***************************************************************************)
(* Frames, sockets and handles.                                            *)
(***************************************************************************)
LEMMA SeqFacts ==
  ASSUME NEW S, NEW q \in Seq(S)
  PROVE  /\ q # <<>> => Head(q) \in S /\ Tail(q) \in Seq(S) /\ Len(Tail(q)) = Len(q) - 1 /\ Len(q) \in Nat
         /\ \A e \in S : Append(q, e) \in Seq(S) /\ Len(Append(q, e)) = Len(q) + 1
  OBVIOUS

\* An update of a function keeps its type.
LEMMA ExceptType ==
  ASSUME NEW S, NEW T, NEW f \in [S -> T], NEW x, NEW e, x \in S => e \in T
  PROVE  [f EXCEPT ![x] = e] \in [S -> T]
  OBVIOUS

\* What a frame is made of.
LEMMA FrameFacts ==
  /\ \A f \in Frame : f.blk \in Blocks /\ f.id \in Ids
  /\ \A b \in Blocks, c \in Commands, i \in Ids : [blk |-> b, cmd |-> c, id |-> i] \in Frame
  /\ \A f \in Frame : [f EXCEPT !.cmd = "Disconnect"] \in Frame
  BY DEF Frame, Commands

\* The system starts well typed.
LEMMA InitTypes == Init => Types
<1> SUFFICES ASSUME Init PROVE Types
  OBVIOUS
<1>1. PcTypes
  BY InitPc
<1>2. FrameTypes
  BY DEF Init, FrameTypes, Rx, FreePcs, Tasks
<1>3. SockTypes
  BY SockAssumption, FS_CardinalityType DEF Init, SockTypes
<1>4. Handles
  BY TasksApart DEF Init, Handles, RxHandle, TaskHandle, Offered, FreePcs, RecvPcs
<1>5. OtherTypes
  BY SockAssumption DEF Init, OtherTypes
<1> QED
  BY <1>1, <1>2, <1>3, <1>4, <1>5 DEF Types

\* Only the receive task takes frames from SlipRxQueue and holds one.
LEMMA RxFrames ==
  ASSUME Types, RxTask
  PROVE  FrameTypes'
<1> USE DEF Types
<1>1. CASE RxGet
  BY <1>1, SeqFacts DEF RxGet, Goto, FrameTypes, FreePcs, PcTypes
<1>2. CASE RxDispatch \/ RxNew \/ RxName
  BY <1>2 DEF RxDispatch, RxNew, RxName, Goto, FrameTypes, poolVars, FreePcs, PcTypes
<1>3. CASE RxOffer
  BY <1>3 DEF RxOffer, FrameTypes, poolVars, FreePcs, PcTypes
<1>4. CASE RxPush \/ RxSignal
  BY <1>4, TasksApart DEF RxPush, RxSignal, Goto, FrameTypes, poolVars, FreePcs, PcTypes
<1>5. CASE RxRefuse \/ RxDone
  <2>1. cur \in Frame
    BY <1>5 DEF RxRefuse, RxDone, Goto, FrameTypes
  <2>2. [cur EXCEPT !.cmd = "Disconnect"] \in Frame
    BY <2>1, FrameFacts
  <2>3. cur' = Nothing /\ pc'[Rx] = "get" /\ busy' \subseteq busy /\ rxq' = rxq /\ rxblk' = rxblk
    BY <1>5, TasksApart DEF RxRefuse, RxDone, Goto, PcTypes
  <2>4. txq' = txq \/ txq' = Append(txq, [cur EXCEPT !.cmd = "Disconnect"])
    BY <1>5 DEF RxRefuse, RxDone
  <2>5. txq' \in Seq(Frame)
    BY <2>2, <2>4, SeqFacts DEF FrameTypes
  <2> QED
    BY <2>3, <2>5 DEF FrameTypes, FreePcs
<1>6. CASE SlipSockFree(Rx)
  <2>1. /\ UNCHANGED <<rxblk, rxq, txq, cur>> /\ busy' \subseteq busy /\ pc[Rx] \in FreePcs
    BY <1>6 DEF SlipSockFree, FreeTest, FreeBlock, FreeQueue, FreeUsed, FreeSignal, Goto, FreePcs, poolVars
  <2> QED
    BY <2>1 DEF FrameTypes
<1> QED
  BY <1>1, <1>2, <1>3, <1>4, <1>5, <1>6 DEF RxTask

\* A frame of a client or of the server goes out with the id of a connection.
LEMMA SentFrames ==
  ASSUME Types, NEW t \in Tasks \ {Rx}, ClientSend(t) \/ CloseSend(t)
  PROVE  FrameTypes'
<1> USE DEF Types
<1>1. /\ UNCHANGED <<rxblk, rxq, cur>> /\ pc'[Rx] = pc[Rx]
  BY TasksApart DEF ClientSend, CloseSend, Goto, PcTypes
<1>2. PICK i \in Ids :
        \/ UNCHANGED <<busy, txq>>
        \/ \E b \in Blocks, c \in Commands :
             busy' = busy \cup {b} /\ txq' = Append(txq, [blk |-> b, cmd |-> c, id |-> i])
  <2>1. CASE ClientSend(t)
    <3>1. sid[at[t]] \in Ids
      BY <2>1 DEF ClientSend, Handles, TaskHandle
    <3> QED
      BY <2>1, <3>1 DEF ClientSend, Commands
  <2>2. CASE CloseSend(t)
    <3>1. closeId[t] \in Ids
      BY <2>2 DEF CloseSend, Goto, Handles, TaskHandle
    <3> QED
      BY <2>2, <3>1 DEF CloseSend, Commands
  <2> QED
    BY <2>1, <2>2
<1>3. busy' \subseteq Blocks /\ txq' \in Seq(Frame)
  <2>1. ASSUME NEW b \in Blocks, NEW c \in Commands,
               busy' = busy \cup {b}, txq' = Append(txq, [blk |-> b, cmd |-> c, id |-> i])
        PROVE  busy' \subseteq Blocks /\ txq' \in Seq(Frame)
    <3>1. [blk |-> b, cmd |-> c, id |-> i] \in Frame
      BY FrameFacts
    <3> QED
      BY <2>1, <3>1, SeqFacts DEF FrameTypes
  <2> QED
    BY <1>2, <2>1 DEF FrameTypes
<1> QED
  BY <1>1, <1>3 DEF FrameTypes

\* Every step keeps the types of the frames and queues.
LEMMA NextFrames ==
  ASSUME Types, [Next]_vars
  PROVE  FrameTypes'
<1> USE DEF Types
<1>1. ASSUME UNCHANGED <<rxblk, rxq, txq, cur>>, busy' \subseteq busy, pc'[Rx] = pc[Rx]
      PROVE  FrameTypes'
  BY <1>1 DEF FrameTypes
<1>2. ASSUME NEW t \in Tasks \ {Rx}, SlipSockFree(t) \/ Release(t)
      PROVE  FrameTypes'
  BY <1>1, <1>2, TasksApart DEF SlipSockFree, FreeTest, FreeBlock, FreeQueue, FreeUsed, FreeSignal, Release, Goto, poolVars, PcTypes
<1>3. CASE ServerPermit \/ ServerAccept \/ ServerSpawn
  BY <1>1, <1>3, TasksApart DEF ServerPermit, ServerAccept, ServerSpawn, Goto, poolVars, PcTypes
<1>4. ASSUME NEW t \in Clients, ClientRecv(t) \/ ClientClose(t) \/ SlipSockRecv(t) \/ CloseStart(t)
      PROVE  FrameTypes'
  BY <1>1, <1>4, TasksApart DEF ClientRecv, ClientClose, SlipSockRecv, RecvTest, RecvGet,
                RecvWait, RecvUsed, RecvCopy, RecvFree, RecvNull, CloseStart, Goto, poolVars, PcTypes
<1>5. CASE Transmit
  <2>1. txq' \in Seq(Frame)
    BY <1>5, SeqFacts DEF Transmit, FrameTypes
  <2> QED
    BY <1>5, <2>1 DEF Transmit, FrameTypes
<1>6. ASSUME NEW i \in Ids, PeerConnect(i) \/ PeerData(i) \/ PeerHangUp(i)
      PROVE  FrameTypes'
  <2>1. PICK c \in Commands : FrameEnds(c, i)
    BY <1>6, SockAssumption DEF PeerConnect, PeerData, PeerHangUp, PeerSends, Commands
  <2>2. busy' \subseteq Blocks /\ rxblk' \in Blocks \cup {NONE}
    BY <2>1 DEF FrameEnds, NextBlock, FrameTypes
  <2>3. rxblk # NONE => [blk |-> rxblk, cmd |-> c, id |-> i] \in Frame
    BY FrameFacts DEF FrameTypes
  <2>4. rxq' \in Seq(Frame)
    BY <2>1, <2>3, SeqFacts DEF FrameEnds, FrameTypes
  <2>5. UNCHANGED <<txq, cur, pc>>
    BY <2>1 DEF FrameEnds
  <2> QED
    BY <2>2, <2>4, <2>5 DEF FrameTypes
<1>8. CASE Delimiter
  BY <1>8 DEF Delimiter, NextBlock, FrameTypes
<1>7. CASE UNCHANGED vars
  BY <1>1, <1>7 DEF vars, poolVars
<1> QED
  BY <1>2, <1>3, <1>4, <1>5, <1>6, <1>7, <1>8, RxFrames, SentFrames, TasksApart DEF Next, ServerTask, ClientTask

\* The fields of the sockets and the accept queue.
LEMMA NextSocks ==
  ASSUME Types, [Next]_vars
  PROVE  SockTypes'
<1> USE DEF Types
<1>0. ASSUME UNCHANGED <<sockVars, acceptq>> PROVE SockTypes'
  BY <1>0 DEF sockVars, SockTypes
<1>1. CASE RxDispatch
  <2>1. /\ UNCHANGED <<sid, sblock, queue, event, acceptq>>
        /\ used' = used \/ \E s \in Sockets : used' = [used EXCEPT ![s] = TRUE]
    BY <1>1 DEF RxDispatch
  <2> QED
    BY <2>1 DEF SockTypes
<1>11. CASE RxNew
  <2>1. queue' \in [Sockets -> Seq(Blocks)]
    BY <1>11, ExceptType DEF RxNew, SockTypes
  <2>2. sblock' \in [Sockets -> Blocks \cup {NONE}] /\ event' \in [Sockets -> {0, 1}]
    BY <1>11 DEF RxNew, SockTypes
  <2> QED
    BY <1>11, <2>1, <2>2 DEF RxNew, SockTypes
<1>12. CASE RxName
  <2>1. cur.id \in Ids
    BY <1>12, FrameFacts DEF RxName, Goto, FrameTypes
  <2> QED
    BY <1>12, <2>1 DEF RxName, SockTypes
<1>2. CASE RxOffer
  <2>1. at[Rx] \in Sockets
    BY <1>2 DEF RxOffer, Handles, RxHandle
  <2>2. acceptq' \in Seq(Sockets) /\ Len(acceptq') <= Cardinality(Sockets)
    <3>1. Cardinality(Sockets) \in Nat
      BY SockAssumption, FS_CardinalityType
    <3>2. /\ acceptq \in Seq(Sockets) /\ Len(acceptq) \in Nat /\ Len(acceptq) <= Cardinality(Sockets)
          /\ Append(acceptq, at[Rx]) \in Seq(Sockets)
          /\ Len(Append(acceptq, at[Rx])) = Len(acceptq) + 1
      BY <2>1, SeqFacts DEF SockTypes
    <3>3. \/ acceptq' = acceptq
          \/ acceptq' = Append(acceptq, at[Rx]) /\ Len(acceptq) < Cardinality(Sockets)
      BY <1>2 DEF RxOffer
    <3> QED
      BY <3>1, <3>2, <3>3
  <2> QED
    BY <1>2, <2>2 DEF RxOffer, SockTypes, sockVars
<1>3. CASE RxPush
  <2>1. cur.blk \in Blocks
    BY <1>3, FrameFacts DEF RxPush, Goto, FrameTypes
  <2>2. \A s \in Sockets : Append(queue[s], cur.blk) \in Seq(Blocks)
    BY <2>1, SeqFacts DEF SockTypes
  <2>3. queue' \in [Sockets -> Seq(Blocks)]
    BY <1>3, <2>2 DEF RxPush, SockTypes
  <2> QED
    BY <1>3, <2>3 DEF RxPush, SockTypes
<1>4. ASSUME NEW t, SlipSockFree(t) \/ (t = Rx /\ RxSignal)
      PROVE  SockTypes'
  <2>1. \A s \in Sockets : queue[s] # <<>> => Tail(queue[s]) \in Seq(Blocks)
    BY SeqFacts DEF SockTypes
  <2>2. queue' \in [Sockets -> Seq(Blocks)]
    <3>1. \/ queue' = queue
          \/ queue[at[t]] # <<>> /\ queue' = [queue EXCEPT ![at[t]] = Tail(@)]
      BY <1>4 DEF SlipSockFree, FreeTest, FreeBlock, FreeQueue, FreeUsed, FreeSignal, RxSignal, sockVars
    <3>2. queue[at[t]] # <<>> => (at[t] \in Sockets => Tail(queue[at[t]]) \in Seq(Blocks))
      BY <2>1
    <3> QED
      BY <3>1, <3>2, ExceptType DEF SockTypes
  <2>3. used' \in [Sockets -> BOOLEAN]
    BY <1>4 DEF SlipSockFree, FreeTest, FreeBlock, FreeQueue, FreeUsed, FreeSignal, RxSignal, sockVars, SockTypes
  <2>4. event' \in [Sockets -> {0, 1}]
    BY <1>4 DEF SlipSockFree, FreeTest, FreeBlock, FreeQueue, FreeUsed, FreeSignal, RxSignal, sockVars, SockTypes
  <2>5. UNCHANGED <<sid, sblock, acceptq>>
    BY <1>4 DEF SlipSockFree, FreeTest, FreeBlock, FreeQueue, FreeUsed, FreeSignal, RxSignal, sockVars
  <2> QED
    BY <2>2, <2>3, <2>4, <2>5 DEF SockTypes
<1>5. CASE ServerAccept
  <2>1. acceptq' \in Seq(Sockets) /\ Len(acceptq') <= Cardinality(Sockets)
    <3>1. Cardinality(Sockets) \in Nat
      BY SockAssumption, FS_CardinalityType
    <3> QED
      BY <1>5, <3>1, SeqFacts DEF ServerAccept, SockTypes
  <2> QED
    BY <1>5, <2>1 DEF ServerAccept, SockTypes, sockVars
<1>6. ASSUME NEW t \in Clients, RecvGet(t)
      PROVE  SockTypes'
  <2>0. at[t] \in Sockets
    BY <1>6, TasksApart DEF RecvGet, Handles, TaskHandle, RecvPcs
  <2>1. queue[at[t]] # <<>> => Tail(queue[at[t]]) \in Seq(Blocks) /\ Head(queue[at[t]]) \in Blocks
    BY <2>0, SeqFacts DEF SockTypes
  <2>2. queue' \in [Sockets -> Seq(Blocks)]
    BY <1>6, <2>1 DEF RecvGet, SockTypes
  <2>3. sblock' \in [Sockets -> Blocks \cup {NONE}]
    BY <1>6, <2>1 DEF RecvGet, SockTypes
  <2> QED
    BY <1>6, <2>2, <2>3 DEF RecvGet, SockTypes
<1>7. ASSUME NEW t \in Clients, RecvWait(t) \/ RecvNull(t)
      PROVE  SockTypes'
  <2>1. sblock' \in [Sockets -> Blocks \cup {NONE}] /\ event' \in [Sockets -> {0, 1}]
    BY <1>7 DEF RecvWait, RecvNull, SockTypes
  <2>2. UNCHANGED <<used, sid, queue, acceptq>>
    BY <1>7 DEF RecvWait, RecvNull
  <2> QED
    BY <2>1, <2>2 DEF SockTypes
<1>8. CASE RxGet \/ RxRefuse \/ RxDone \/ ServerPermit \/ ServerSpawn
  BY <1>0, <1>8 DEF RxGet, RxRefuse, RxDone, ServerPermit, ServerSpawn
<1>9. ASSUME NEW t \in Tasks, Release(t) \/ CloseSend(t) \/ ClientRecv(t) \/ ClientSend(t) \/ ClientClose(t)
               \/ RecvTest(t) \/ RecvUsed(t) \/ RecvCopy(t) \/ RecvFree(t) \/ CloseStart(t)
      PROVE  SockTypes'
  BY <1>0, <1>9 DEF Release, CloseSend, ClientRecv, ClientSend, ClientClose,
              RecvTest, RecvUsed, RecvCopy, RecvFree, CloseStart
<1>10. CASE Transmit \/ Delimiter \/ (\E i \in Ids : PeerConnect(i) \/ PeerData(i) \/ PeerHangUp(i)) \/ UNCHANGED vars
  BY <1>0, <1>10 DEF Transmit, Delimiter, PeerConnect, PeerData, PeerHangUp, PeerSends, FrameEnds, NextBlock, vars
<1> QED
  BY <1>1, <1>2, <1>3, <1>4, <1>5, <1>6, <1>7, <1>8, <1>9, <1>10, <1>11, <1>12, TasksApart
  DEF Next, RxTask, ServerTask, ClientTask, SlipSockRecv

\* A socket that has had a connection keeps an id.
LEMMA SidStays ==
  ASSUME Types, [Next]_vars
  PROVE  \A s \in Sockets : sid[s] \in Ids => sid'[s] \in Ids
<1> USE DEF Types
<1>1. CASE RxName
  <2>1. cur.id \in Ids
    BY <1>1, FrameFacts DEF RxName, Goto, FrameTypes
  <2> QED
    BY <1>1, <2>1 DEF RxName, SockTypes
<1>2. CASE ~RxName /\ RxTask
  <2>1. sid' = sid
    BY <1>2 DEF RxTask, RxGet, RxDispatch, RxNew, RxOffer, RxPush, RxSignal, RxRefuse, RxDone, SlipSockFree,
                FreeTest, FreeBlock, FreeQueue, FreeUsed, FreeSignal, sockVars
  <2> QED
    BY <2>1
<1>3. CASE ServerTask \/ Transmit \/ Delimiter \/ (\E i \in Ids : PeerConnect(i) \/ PeerData(i) \/ PeerHangUp(i)) \/ UNCHANGED vars
  <2>1. sid' = sid
    BY <1>3 DEF ServerTask, ServerPermit, ServerAccept, ServerSpawn, SlipSockFree, CloseSend, Release,
                FreeTest, FreeBlock, FreeQueue, FreeUsed, FreeSignal, Transmit, Delimiter, PeerConnect, PeerData, PeerHangUp, PeerSends, FrameEnds, NextBlock,
                vars, sockVars
  <2> QED
    BY <2>1
<1>4. ASSUME NEW t \in Clients, ClientTask(t) PROVE sid' = sid
  BY <1>4 DEF ClientTask, ClientRecv, ClientSend, ClientClose, SlipSockRecv, RecvTest, RecvGet,
              RecvWait, RecvUsed, RecvCopy, RecvFree, RecvNull, CloseStart, SlipSockFree, CloseSend, Release,
              FreeTest, FreeBlock, FreeQueue, FreeUsed, FreeSignal, sockVars
<1> QED
  BY <1>1, <1>2, <1>3, <1>4 DEF Next

\* Every socket that waits to be accepted has a connection's id.
LEMMA OfferedStay ==
  ASSUME Types, [Next]_vars
  PROVE  Offered'
<1> USE DEF Types
<1>1. \A s \in Sockets : sid[s] \in Ids => sid'[s] \in Ids
  BY SidStays
<1>2. CASE acceptq' = acceptq
  <2>1. \A k \in DOMAIN acceptq : acceptq[k] \in Sockets
    BY DEF SockTypes
  <2> QED
    BY <1>1, <1>2, <2>1 DEF Handles, Offered
<1>3. CASE RxOffer /\ acceptq' = Append(acceptq, at[Rx])
  <2>1. at[Rx] \in Sockets /\ sid[at[Rx]] \in Ids
    BY <1>3 DEF RxOffer, Handles, RxHandle
  <2>2. \A k \in DOMAIN acceptq' : acceptq'[k] \in Sockets /\ (acceptq'[k] = at[Rx] \/ \E n \in DOMAIN acceptq : acceptq'[k] = acceptq[n])
    BY <1>3, <2>1 DEF SockTypes
  <2> QED
    BY <1>1, <2>1, <2>2 DEF Handles, Offered
<1>4. CASE ServerAccept
  <2>1. \A k \in DOMAIN acceptq' : acceptq'[k] \in Sockets /\ \E n \in DOMAIN acceptq : acceptq'[k] = acceptq[n]
    BY <1>4 DEF ServerAccept, SockTypes
  <2> QED
    BY <1>1, <2>1 DEF Handles, Offered
<1>5. \/ acceptq' = acceptq \/ ServerAccept
      \/ RxOffer /\ acceptq' = Append(acceptq, at[Rx])
  <2>1. CASE RxTask
    BY <2>1 DEF RxTask, RxGet, RxDispatch, RxNew, RxName, RxOffer, RxPush, RxSignal, RxRefuse, RxDone, SlipSockFree,
                FreeTest, FreeBlock, FreeQueue, FreeUsed, FreeSignal
  <2>2. CASE ServerTask
    BY <2>2 DEF ServerTask, ServerPermit, ServerSpawn, SlipSockFree, CloseSend, Release,
                FreeTest, FreeBlock, FreeQueue, FreeUsed, FreeSignal
  <2>3. ASSUME NEW t \in Clients, ClientTask(t) PROVE acceptq' = acceptq
    BY <2>3 DEF ClientTask, ClientRecv, ClientSend, ClientClose, SlipSockRecv, RecvTest, RecvGet,
                RecvWait, RecvUsed, RecvCopy, RecvFree, RecvNull, CloseStart, SlipSockFree, CloseSend, Release,
                FreeTest, FreeBlock, FreeQueue, FreeUsed, FreeSignal
  <2>4. CASE Transmit \/ Delimiter \/ (\E i \in Ids : PeerConnect(i) \/ PeerData(i) \/ PeerHangUp(i)) \/ UNCHANGED vars
    BY <2>4 DEF Transmit, Delimiter, PeerConnect, PeerData, PeerHangUp, PeerSends, FrameEnds, NextBlock, vars
  <2> QED
    BY <2>1, <2>2, <2>3, <2>4 DEF Next
<1> QED
  BY <1>2, <1>3, <1>4, <1>5

\* A step of the receive task.
LEMMA RxHandles ==
  ASSUME Types, RxTask
  PROVE  /\ at' \in [Tasks -> Sockets \cup {NONE}] /\ closeId' = closeId /\ RxHandle'
         /\ \A t \in Tasks \ {Rx} : pc'[t] = pc[t] /\ at'[t] = at[t]
<1> USE DEF Types
<1>0. [Next]_vars
  BY DEF Next
<1>1. CASE RxDispatch
  <2>1. closeId' = closeId
    BY <1>1 DEF RxDispatch
  <2>2. \/ at' = at /\ \E to \in {"done", "refuse"} : pc' = [pc EXCEPT ![Rx] = to]
        \/ /\ \E s \in Sockets : at' = [at EXCEPT ![Rx] = s]
           /\ \E to \in {"new", "push", "free_test"} : pc' = [pc EXCEPT ![Rx] = to]
    BY <1>1 DEF RxDispatch, SocketOf
  <2>3. CASE at' = at /\ \E to \in {"done", "refuse"} : pc' = [pc EXCEPT ![Rx] = to]
    BY <2>1, <2>3, TasksApart DEF Handles, RxHandle, PcTypes, FreePcs
  <2>4. ASSUME NEW s \in Sockets, at' = [at EXCEPT ![Rx] = s],
               NEW to \in {"new", "push", "free_test"}, pc' = [pc EXCEPT ![Rx] = to]
        PROVE  /\ at' \in [Tasks -> Sockets \cup {NONE}] /\ RxHandle'
               /\ \A t \in Tasks \ {Rx} : pc'[t] = pc[t] /\ at'[t] = at[t]
    <3>1. at'[Rx] = s /\ at' \in [Tasks -> Sockets \cup {NONE}] /\ \A t \in Tasks \ {Rx} : at'[t] = at[t]
      BY <2>4, TasksApart DEF Handles
    <3>2. pc'[Rx] # "offer" /\ \A t \in Tasks \ {Rx} : pc'[t] = pc[t]
      BY <2>4, TasksApart DEF PcTypes
    <3> QED
      BY <3>1, <3>2 DEF RxHandle
  <2> QED
    BY <2>1, <2>2, <2>3, <2>4
<1>4. CASE RxName
  <2>1. cur.id \in Ids /\ at[Rx] \in Sockets
    BY <1>4, FrameFacts DEF RxName, Goto, FrameTypes, Handles, RxHandle
  <2> QED
    BY <1>4, <2>1, TasksApart DEF RxName, Goto, taskVars, Handles, RxHandle, PcTypes, SockTypes
<1>2. CASE RxGet \/ RxNew \/ RxOffer \/ RxPush \/ RxSignal \/ RxRefuse \/ RxDone
  BY <1>2, TasksApart DEF RxGet, RxNew, RxOffer, RxPush, RxSignal, RxRefuse, RxDone, Goto, taskVars, Handles, RxHandle, PcTypes, FreePcs
<1>3. CASE SlipSockFree(Rx)
  BY <1>3, TasksApart DEF SlipSockFree, FreeTest, FreeBlock, FreeQueue, FreeUsed, FreeSignal, Goto, taskVars, Handles, RxHandle, PcTypes, FreePcs
<1> QED
  BY <1>1, <1>2, <1>3, <1>4 DEF RxTask

\* A step of the server or of a client.
LEMMA FreeHandles ==
  ASSUME Types, NEW t \in Tasks \ {Rx}, SlipSockFree(t)
  PROVE  /\ at' \in [Tasks -> Sockets \cup {NONE}] /\ UNCHANGED <<closeId, sid>>
         /\ TaskHandle(t)'
         /\ \A u \in Tasks \ {t} : pc'[u] = pc[u] /\ at'[u] = at[u]
  BY DEF Types, SlipSockFree, FreeTest, FreeBlock, FreeQueue, FreeUsed, FreeSignal, Goto, taskVars, sockVars, Handles, TaskHandle, PcTypes, FreePcs, RecvPcs

\* The server holds a socket where its code uses one.
LEMMA ServerHandles ==
  ASSUME Types, ServerTask
  PROVE  Handles'
<1> USE DEF Types
<1>0. Offered' /\ \A s \in Sockets : sid[s] \in Ids => sid'[s] \in Ids
  BY OfferedStay, SidStays DEF Next
<1>1. CASE SlipSockFree(Server)
  <2>1. /\ at' \in [Tasks -> Sockets \cup {NONE}] /\ UNCHANGED <<closeId, sid>>
        /\ TaskHandle(Server)' /\ Server \in Tasks
        /\ \A u \in Tasks \ {Server} : pc'[u] = pc[u] /\ at'[u] = at[u]
    BY <1>1, FreeHandles, TasksApart
  <2>2. \A u \in Tasks \ {Rx, Server} : TaskHandle(u)'
    BY <2>1 DEF Handles, TaskHandle
  <2>3. RxHandle'
    BY <2>1, TasksApart DEF Handles, RxHandle
  <2> QED
    BY <1>0, <2>1, <2>2, <2>3 DEF Handles
<1>2. CASE ServerPermit \/ CloseSend(Server) \/ Release(Server)
  <2>1. /\ UNCHANGED <<sid, at>> /\ pc'[Server] \in {"accept", "release", "permit"}
        /\ closeId' \in [Tasks -> Ids \cup {NONE}]
        /\ \A u \in Tasks \ {Server} : pc'[u] = pc[u] /\ closeId'[u] = closeId[u]
    BY <1>2, TasksApart DEF Handles, ServerPermit, CloseSend, Release, Goto, taskVars, sockVars, PcTypes
  <2>2. \A u \in Tasks \ {Rx} : TaskHandle(u)'
    BY <2>1, TasksApart DEF Handles, TaskHandle, FreePcs, RecvPcs
  <2>3. RxHandle'
    BY <2>1, TasksApart DEF Handles, RxHandle
  <2> QED
    BY <1>0, <2>1, <2>2, <2>3 DEF Handles
<1>3. CASE ServerAccept
  <2>0. Head(acceptq) \in Sockets /\ sid[Head(acceptq)] \in Ids
    BY <1>3 DEF ServerAccept, SockTypes, Handles, Offered
  <2>1. /\ UNCHANGED <<closeId, sid>> /\ at' = [at EXCEPT ![Server] = Head(acceptq)]
        /\ pc' = [pc EXCEPT ![Server] = "spawn"]
    BY <1>3 DEF ServerAccept, Goto, taskVars, sockVars
  <2>2. \A u \in Tasks \ {Rx} : TaskHandle(u)'
    BY <2>0, <2>1, TasksApart DEF Handles, TaskHandle, FreePcs, RecvPcs, PcTypes
  <2>3. RxHandle'
    BY <2>1, TasksApart DEF Handles, RxHandle, PcTypes
  <2> QED
    BY <1>0, <2>0, <2>1, <2>2, <2>3 DEF Handles
<1>4. CASE ServerSpawn
  <2>0. at[Server] \in Sockets /\ sid[at[Server]] \in Ids /\ sid' = sid
    BY <1>4, TasksApart DEF ServerSpawn, Handles, TaskHandle, sockVars
  <2>1. ASSUME NEW t \in Clients,
               pc' = [pc EXCEPT ![t] = "act", ![Server] = "permit"],
               at' = [at EXCEPT ![t] = at[Server], ![Server] = NONE],
               closeId' = closeId
        PROVE  Handles'
    <3>1. \A u \in Tasks \ {Rx} : TaskHandle(u)'
      BY <2>0, <2>1, TasksApart DEF Handles, TaskHandle, FreePcs, RecvPcs, PcTypes
    <3>2. RxHandle'
      BY <2>0, <2>1, TasksApart DEF Handles, RxHandle, PcTypes
    <3> QED
      BY <1>0, <2>0, <2>1, <3>1, <3>2, TasksApart DEF Handles
  <2>2. CASE /\ pc' = [pc EXCEPT ![Server] = "free_test"]
             /\ closeId' = [closeId EXCEPT ![Server] = sid[at[Server]]] /\ at' = at
    <3>1. \A u \in Tasks \ {Rx} : TaskHandle(u)'
      BY <2>0, <2>2, TasksApart DEF Handles, TaskHandle, FreePcs, RecvPcs, PcTypes
    <3>2. RxHandle'
      BY <2>0, <2>2, TasksApart DEF Handles, RxHandle, PcTypes
    <3> QED
      BY <1>0, <2>0, <2>2, <3>1, <3>2, TasksApart DEF Handles
  <2> QED
    BY <1>4, <2>1, <2>2 DEF ServerSpawn
<1> QED
  BY <1>1, <1>2, <1>3, <1>4 DEF ServerTask

\* So does a client.
LEMMA ClientHandles ==
  ASSUME Types, NEW t \in Clients, ClientTask(t)
  PROVE  Handles'
<1> USE DEF Types
<1>0. Offered' /\ \A s \in Sockets : sid[s] \in Ids => sid'[s] \in Ids
  BY OfferedStay, SidStays DEF Next
<1>1. ASSUME at' = at, TaskHandle(t)',
             closeId' \in [Tasks -> Ids \cup {NONE}],
             \A u \in Tasks \ {t} : pc'[u] = pc[u] /\ closeId'[u] = closeId[u], sid' = sid
      PROVE  Handles'
  <2>1. \A u \in Tasks \ {Rx, t} : TaskHandle(u)'
    BY <1>1 DEF Handles, TaskHandle
  <2>2. RxHandle'
    BY <1>1, TasksApart DEF Handles, RxHandle
  <2> QED
    BY <1>0, <1>1, <2>1, <2>2 DEF Handles
<1>2. CASE SlipSockFree(t)
  <2>1. /\ at' \in [Tasks -> Sockets \cup {NONE}] /\ UNCHANGED <<closeId, sid>>
        /\ TaskHandle(t)'
        /\ \A u \in Tasks \ {t} : pc'[u] = pc[u] /\ at'[u] = at[u]
    BY <1>2, FreeHandles, TasksApart
  <2>2. \A u \in Tasks \ {Rx, t} : TaskHandle(u)'
    BY <2>1 DEF Handles, TaskHandle
  <2>3. RxHandle'
    BY <2>1, TasksApart DEF Handles, RxHandle
  <2> QED
    BY <1>0, <2>1, <2>2, <2>3 DEF Handles
<1>3. CASE CloseStart(t)
  <2>1. at[t] \in Sockets /\ sid[at[t]] \in Ids
    BY <1>3, TasksApart DEF CloseStart, Goto, Handles, TaskHandle
  <2> QED
    BY <1>1, <1>3, <2>1, TasksApart DEF CloseStart, Goto, Handles, TaskHandle, sockVars, PcTypes
<1>4. CASE ClientRecv(t) \/ ClientSend(t) \/ ClientClose(t) \/ SlipSockRecv(t) \/ CloseSend(t) \/ Release(t)
  <2>1. /\ UNCHANGED <<at, sid>> /\ closeId' \in [Tasks -> Ids \cup {NONE}]
        /\ \A u \in Tasks \ {t} : pc'[u] = pc[u] /\ closeId'[u] = closeId[u]
    BY <1>4 DEF Handles, ClientRecv, ClientSend, ClientClose, SlipSockRecv, RecvTest, RecvGet,
              RecvWait, RecvUsed, RecvCopy, RecvFree, RecvNull, CloseSend, Release, Goto, taskVars, sockVars, PcTypes
  <2>2. pc'[t] \in {"act", "close"} \cup RecvPcs => at[t] \in Sockets /\ sid[at[t]] \in Ids
    <3>1. CASE CloseSend(t) \/ Release(t)
      BY <3>1, TasksApart DEF CloseSend, Release, Goto, PcTypes, RecvPcs
    <3>2. CASE pc[t] \in {"act"} \cup RecvPcs
      BY <3>2, TasksApart DEF Handles, TaskHandle
    <3> QED
      BY <1>4, <3>1, <3>2 DEF ClientRecv, ClientSend, ClientClose, SlipSockRecv, RecvTest, RecvGet,
              RecvWait, RecvUsed, RecvCopy, RecvFree, RecvNull, Goto, RecvPcs
  <2>3. pc'[t] \in {"act", "close", "release", "dead"} \cup RecvPcs
    BY <1>4, TasksApart DEF ClientRecv, ClientSend, ClientClose, SlipSockRecv, RecvTest, RecvGet,
              RecvWait, RecvUsed, RecvCopy, RecvFree, RecvNull, CloseSend, Release, Goto, RecvPcs, PcTypes
  <2>4. TaskHandle(t)'
    BY <2>1, <2>2, <2>3 DEF TaskHandle, FreePcs, RecvPcs
  <2> QED
    BY <1>1, <2>1, <2>4 DEF Handles
<1> QED
  BY <1>2, <1>3, <1>4 DEF ClientTask

\* Every step leaves the tasks with the handles their code needs.
LEMMA NextHandles ==
  ASSUME Types, [Next]_vars
  PROVE  Handles'
<1> USE DEF Types
<1>0. Offered' /\ \A s \in Sockets : sid[s] \in Ids => sid'[s] \in Ids
  BY OfferedStay, SidStays
<1>1. CASE RxTask
  <2>1. /\ at' \in [Tasks -> Sockets \cup {NONE}] /\ closeId' = closeId /\ RxHandle'
        /\ \A t \in Tasks \ {Rx} : pc'[t] = pc[t] /\ at'[t] = at[t]
    BY <1>1, RxHandles
  <2>2. \A t \in Tasks \ {Rx} : TaskHandle(t)'
    BY <1>0, <2>1 DEF Handles, TaskHandle
  <2> QED
    BY <1>0, <2>1, <2>2 DEF Handles
<1>2. CASE Transmit \/ Delimiter \/ (\E i \in Ids : PeerConnect(i) \/ PeerData(i) \/ PeerHangUp(i)) \/ UNCHANGED vars
  <2>1. UNCHANGED <<pc, at, closeId, sid, acceptq>>
    BY <1>2 DEF Transmit, Delimiter, PeerConnect, PeerData, PeerHangUp, PeerSends, FrameEnds, NextBlock, vars, taskVars, sockVars
  <2> QED
    BY <2>1 DEF Handles, RxHandle, TaskHandle, Offered
<1> QED
  BY <1>1, <1>2, ServerHandles, ClientHandles DEF Next

\* Every step keeps the types of the remaining variables.
LEMMA NextOthers ==
  ASSUME Types, [Next]_vars
  PROVE  OtherTypes'
<1> USE DEF Types
<1>1. ASSUME UNCHANGED <<want, recycled, untold, late, peer>> PROVE OtherTypes'
  BY <1>1 DEF OtherTypes
<1>2. CASE RxTask
  <2>1. CASE RxDispatch
    BY <2>1 DEF RxDispatch, OtherTypes
  <2>2. CASE RxPush
    <3>1. cur.blk \in Blocks
      BY <2>2, FrameFacts DEF RxPush, Goto, FrameTypes
    <3> QED
      BY <2>2, <3>1 DEF RxPush, OtherTypes
  <2>3. CASE ~RxDispatch /\ ~RxPush
    BY <1>1, <1>2, <2>3 DEF RxTask, RxGet, RxNew, RxName, RxOffer, RxSignal, RxRefuse, RxDone, SlipSockFree,
                FreeTest, FreeBlock, FreeQueue, FreeUsed, FreeSignal, taskVars
  <2> QED
    BY <2>1, <2>2, <2>3
<1>3. ASSUME NEW t \in Tasks \ {Rx}, CloseSend(t) PROVE OtherTypes'
  <2>1. closeId[t] \in Ids
    BY <1>3 DEF CloseSend, Goto, Handles, TaskHandle
  <2> QED
    BY <1>3, <2>1 DEF CloseSend, OtherTypes
<1>4. CASE ServerSpawn
  BY <1>4 DEF ServerSpawn, OtherTypes
<1>5. ASSUME NEW t \in Clients, ClientRecv(t) \/ RecvCopy(t) PROVE OtherTypes'
  <2>1. /\ \E n \in 0 .. MAX_READ : want' = [want EXCEPT ![t] = n]
        /\ UNCHANGED <<recycled, untold, late, peer>>
    BY <1>5, SockAssumption DEF ClientRecv, RecvCopy, OtherTypes
  <2> QED
    BY <2>1 DEF OtherTypes
<1>6. ASSUME NEW t, \/ SlipSockFree(t) \/ ClientSend(t) \/ ClientClose(t) \/ CloseStart(t) \/ Release(t)
                   \/ RecvTest(t) \/ RecvGet(t) \/ RecvWait(t) \/ RecvUsed(t) \/ RecvFree(t) \/ RecvNull(t)
      PROVE  OtherTypes'
  BY <1>1, <1>6 DEF SlipSockFree, FreeTest, FreeBlock, FreeQueue, FreeUsed, FreeSignal, ClientSend, ClientClose,
              CloseStart, Release, RecvTest, RecvGet, RecvWait, RecvUsed, RecvFree, RecvNull, taskVars
<1>7. CASE ServerPermit \/ ServerAccept \/ Delimiter \/ UNCHANGED vars
  BY <1>1, <1>7 DEF ServerPermit, ServerAccept, Delimiter, vars, taskVars
<1>8. CASE Transmit
  <2> DEFINE i == Head(txq).id
             e == IF Head(txq).cmd = "Disconnect" /\ peer[i] # "left" THEN "gone" ELSE peer[i]
  <2>1. peer' = [peer EXCEPT ![i] = e] /\ UNCHANGED taskVars
    BY <1>8 DEF Transmit
  <2>2. i \in Ids => e \in {"new", "open", "gone", "left"}
    BY DEF OtherTypes
  <2>3. peer' \in [Ids -> {"new", "open", "gone", "left"}]
    BY <2>1, <2>2, ExceptType DEF OtherTypes
  <2> QED
    BY <2>1, <2>3 DEF taskVars, OtherTypes
<1>9. ASSUME NEW i \in Ids, PeerConnect(i) \/ PeerData(i) \/ PeerHangUp(i) PROVE OtherTypes'
  <2>1. /\ \E e \in {"open", "left"} : peer' = [peer EXCEPT ![i] = e]
        /\ untold' \subseteq untold \cup {i} /\ UNCHANGED <<want, recycled, late>>
    BY <1>9 DEF PeerConnect, PeerData, PeerHangUp, PeerSends, FrameEnds
  <2> QED
    BY <2>1 DEF OtherTypes
<1> QED
  BY <1>2, <1>3, <1>4, <1>5, <1>6, <1>7, <1>8, <1>9, TasksApart DEF Next, ServerTask, ClientTask, SlipSockRecv

\* Every step keeps the types.
LEMMA NextTypes == Types /\ [Next]_vars => Types'
  BY NextPc, NextFrames, NextSocks, NextHandles, NextOthers DEF Types

-----------------------------------------------------------------------------
(***************************************************************************)
(* The permits.  Finitely many clients run at a time, although there may   *)
(* be any number of them.                                                  *)
(***************************************************************************)
Running == {t \in Clients : pc[t] # "dead"}

Counted == permits \in Nat /\ IsFiniteSet(Running) /\ PermitsConserved

\* At the start no permit is taken.
LEMMA InitCounted == Init => Counted
<1> SUFFICES ASSUME Init PROVE Counted
  OBVIOUS
<1>1. Running = {} /\ permits = MAX_CONNECTIONS /\ pc[Server] = "permit"
  BY TasksApart DEF Init, Running
<1> QED
  BY <1>1, FS_EmptySet, SockAssumption DEF Counted, PermitsConserved, Running

\* The steps that take or give a permit, or start or end a client.
LEMMA PermitSteps ==
  ASSUME Types, [Next]_vars
  PROVE  \/ /\ permits' = permits /\ Running' = Running
            /\ pc[Server] = "permit" <=> pc'[Server] = "permit"
         \/ /\ permits > 0 /\ permits' = permits - 1 /\ Running' = Running
            /\ pc[Server] = "permit" /\ pc'[Server] # "permit"
         \/ /\ permits' = permits + 1 /\ Running' = Running
            /\ pc[Server] # "permit" /\ pc'[Server] = "permit"
         \/ /\ permits' = permits + 1 /\ pc'[Server] = pc[Server]
            /\ \E t \in Running : Running' = Running \ {t}
         \/ /\ permits' = permits /\ pc[Server] # "permit" /\ pc'[Server] = "permit"
            /\ \E t \in Clients \ Running : Running' = Running \cup {t}
<1> USE DEF Types
<1>0. ASSUME permits' = permits, pc' = pc
      PROVE  Running' = Running
  BY <1>0 DEF Running
<1>1. CASE RxTask
  <2>1. permits' = permits /\ \A t \in Tasks \ {Rx} : pc'[t] = pc[t]
    BY <1>1 DEF RxTask, RxGet, RxDispatch, RxNew, RxName, RxOffer, RxPush, RxSignal, RxRefuse, RxDone, SlipSockFree,
                FreeTest, FreeBlock, FreeQueue, FreeUsed, FreeSignal, Goto, PcTypes
  <2>2. Running' = Running /\ pc'[Server] = pc[Server]
    BY <2>1, TasksApart DEF Running
  <2> QED
    BY <2>1, <2>2
<1>2. CASE ServerTask
  <2>1. CASE ServerPermit \/ Release(Server)
    <3>1. Running' = Running
      BY <2>1, TasksApart DEF ServerPermit, Release, Goto, PcTypes, Running
    <3> QED
      BY <2>1, <3>1, TasksApart DEF ServerPermit, Release, Goto, PcTypes
  <2>2. CASE ServerAccept \/ SlipSockFree(Server) \/ CloseSend(Server)
    <3>1. /\ \A t \in Tasks \ {Server} : pc'[t] = pc[t]
          /\ permits' = permits /\ pc[Server] # "permit" /\ pc'[Server] # "permit"
      BY <2>2, TasksApart DEF ServerAccept, SlipSockFree, CloseSend, FreeTest, FreeBlock, FreeQueue, FreeUsed, FreeSignal,
                              Goto, PcTypes
    <3>2. Running' = Running
      BY <3>1, TasksApart DEF Running
    <3> QED
      BY <3>1, <3>2
  <2>3. CASE ServerSpawn
    <3>1. permits' = permits /\ pc[Server] = "spawn"
      BY <2>3 DEF ServerSpawn
    <3>2. CASE \E t \in Clients : pc[t] = "dead" /\ pc' = [pc EXCEPT ![t] = "act", ![Server] = "permit"]
      <4>1. PICK t \in Clients : pc[t] = "dead" /\ pc' = [pc EXCEPT ![t] = "act", ![Server] = "permit"]
        BY <3>2
      <4>2. Running' = Running \cup {t} /\ t \notin Running
        BY <4>1, TasksApart DEF PcTypes, Running
      <4> QED
        BY <3>1, <4>1, <4>2, TasksApart DEF PcTypes
    <3>3. CASE pc' = [pc EXCEPT ![Server] = "free_test"]
      <4>1. Running' = Running /\ pc'[Server] = "free_test"
        BY <3>3, TasksApart DEF PcTypes, Running
      <4> QED
        BY <3>1, <4>1
    <3> QED
      BY <2>3, <3>2, <3>3 DEF ServerSpawn
  <2> QED
    BY <1>2, <2>1, <2>2, <2>3 DEF ServerTask
<1>3. ASSUME NEW t \in Clients, Release(t)
      PROVE  /\ permits' = permits + 1 /\ pc'[Server] = pc[Server]
             /\ t \in Running /\ Running' = Running \ {t}
  BY <1>3, TasksApart DEF Release, Goto, PcTypes, Running
<1>4. ASSUME NEW t \in Clients, ClientTask(t), ~Release(t)
      PROVE  /\ permits' = permits /\ Running' = Running /\ pc'[Server] = pc[Server]
  <2>1. /\ permits' = permits /\ pc[t] # "dead" /\ pc'[t] # "dead"
        /\ \A u \in Tasks \ {t} : pc'[u] = pc[u]
    BY <1>4, TasksApart DEF ClientTask, ClientRecv, ClientSend, ClientClose, SlipSockRecv, RecvTest, RecvGet,
                RecvWait, RecvUsed, RecvCopy, RecvFree, RecvNull, CloseStart, SlipSockFree, CloseSend,
                FreeTest, FreeBlock, FreeQueue, FreeUsed, FreeSignal, Goto, PcTypes
  <2> QED
    BY <2>1, TasksApart DEF Running
<1>5. CASE Transmit \/ Delimiter \/ (\E i \in Ids : PeerConnect(i) \/ PeerData(i) \/ PeerHangUp(i)) \/ UNCHANGED vars
  <2>1. permits' = permits /\ pc' = pc
    BY <1>5 DEF Transmit, Delimiter, PeerConnect, PeerData, PeerHangUp, PeerSends, FrameEnds, NextBlock, vars
  <2> QED
    BY <1>0, <2>1
<1> QED
  BY <1>1, <1>2, <1>3, <1>4, <1>5 DEF Next

\* Every step keeps the count of permits and clients.
LEMMA NextCounted ==
  ASSUME Types, Counted, [Next]_vars
  PROVE  Counted'
<1> DEFINE n == Cardinality(Running)
           w == IF pc[Server] = "permit" THEN 0 ELSE 1
<1>0. IsFiniteSet(Running) /\ n \in Nat /\ permits \in Nat /\ permits + n + w = MAX_CONNECTIONS
  BY FS_CardinalityType DEF Counted, PermitsConserved, Running
<1>1. SUFFICES permits' \in Nat /\ IsFiniteSet(Running') /\ permits' + n' + w' = MAX_CONNECTIONS
  BY <1>1 DEF Counted, PermitsConserved, Running
<1>2. ASSUME NEW t \in Running
      PROVE  IsFiniteSet(Running \ {t}) /\ Cardinality(Running \ {t}) = n - 1
  BY <1>0, FS_RemoveElement
<1>3. ASSUME NEW t \in Clients \ Running
      PROVE  IsFiniteSet(Running \cup {t}) /\ Cardinality(Running \cup {t}) = n + 1
  BY <1>0, FS_AddElement
<1> QED
  BY <1>0, <1>2, <1>3, PermitSteps

\* Types and permits hold in every reachable state.
LEMMA Invariance == Spec => [](Types /\ Counted)
<1>1. Init => Types /\ Counted
  BY InitTypes, InitCounted
<1>2. (Types /\ Counted) /\ [Next]_vars => (Types /\ Counted)'
  BY NextTypes, NextCounted
<1> QED
  BY <1>1, <1>2, PTL DEF Spec

\* Every reachable state is well typed, whatever the peer and TLS do: every
\* frame in a queue has a block and an id, every task at work has a handle,
\* and the accept queue never needs more room than it has.
THEOREM TypeCorrect == Spec => []TypeOK
<1>1. Types /\ Counted => TypeOK
  <2> SUFFICES ASSUME Types, Counted PROVE TypeOK
    OBVIOUS
  <2>1. permits \in 0 .. MAX_CONNECTIONS
    <3>1. Cardinality(Running) \in Nat
      BY FS_CardinalityType DEF Counted
    <3> QED
      BY <3>1, SockAssumption DEF Counted, PermitsConserved, Running
  <2>2. /\ pc[Rx] \in {"get", "dispatch", "new", "name", "offer", "push", "signal", "done", "refuse"}
                        \cup FreePcs
        /\ pc[Server] \in {"permit", "accept", "spawn", "close_send", "release"} \cup FreePcs
        /\ \A t \in Clients : pc[t] \in {"dead", "act", "close", "close_send", "release"} \cup FreePcs \cup RecvPcs
    BY DEF Types, PcTypes, RxPcs, ServerPcs, ClientPcs
  <2> QED
    BY <2>1, <2>2 DEF Types, FrameTypes, SockTypes, Handles, OtherTypes, TypeOK
<1> QED
  BY <1>1, Invariance, PTL

\* No permit is lost or made up, whichever way a connection ends.
THEOREM NoPermitLost == Spec => []PermitsConserved
<1>1. Types /\ Counted => PermitsConserved
  BY DEF Counted
<1> QED
  BY <1>1, Invariance, PTL

-----------------------------------------------------------------------------
(***************************************************************************)
(* One task per socket, for peers that do not hang up.  From the moment a  *)
(* slot is taken until it is given up, one task holds it or the accept     *)
(* queue does; slip_sock_free runs in the task that holds it.              *)
(***************************************************************************)
HoldPcs(t) ==
  IF t = Rx THEN {"new", "name", "offer", "free_test", "free_block", "free_queue", "free_used"}
  ELSE {"spawn", "act", "close"} \cup RecvPcs \cup (FreePcs \ {"free_signal"})

Holds(t, s) == at[t] = s /\ pc[t] \in HoldPcs(t)

NoHangUp == /\ \A k \in DOMAIN rxq : rxq[k].cmd # "Disconnect"
            /\ cur.cmd # "Disconnect"

Owned ==
  /\ \A t, u \in Tasks, s \in Sockets : Holds(t, s) /\ Holds(u, s) => t = u
  /\ \A j, k \in DOMAIN acceptq : acceptq[j] = acceptq[k] => j = k
  /\ \A t \in Tasks, k \in DOMAIN acceptq : ~Holds(t, acceptq[k])
  /\ \A t \in Tasks, s \in Sockets : Holds(t, s) => used[s]
  /\ \A k \in DOMAIN acceptq : used[acceptq[k]]

Polite == NoHangUp /\ Owned /\ ClientKeepsItsSocket

\* The invariant for a peer that does not hang up holds at the start.
LEMMA InitPolite == Init => Polite
<1> SUFFICES ASSUME Init PROVE Polite
  OBVIOUS
<1>1. NoHangUp
  BY DEF Init, NoHangUp, Nothing
<1>2. \A t \in Tasks : pc[t] \notin HoldPcs(t)
  BY TasksApart DEF Init, HoldPcs, RecvPcs, FreePcs
<1>3. Owned
  BY <1>2 DEF Init, Owned, Holds
<1> QED
  BY <1>1, <1>3 DEF Polite, Init, ClientKeepsItsSocket

\* Where nobody hangs up, no Disconnect reaches the receive task.
LEMMA NextNoHangUp ==
  ASSUME "Disconnect" \notin Sends, Types, NoHangUp, [Next]_vars
  PROVE  NoHangUp'
<1> USE DEF Types
<1>1. ASSUME rxq' = rxq, cur' = cur \/ cur' = Nothing
      PROVE  NoHangUp'
  BY <1>1 DEF NoHangUp, Nothing
<1>2. CASE RxTask
  <2>1. CASE RxGet
    BY <2>1 DEF RxGet, NoHangUp, FrameTypes
  <2>2. CASE ~RxGet
    BY <1>1, <1>2, <2>2 DEF RxTask, RxDispatch, RxNew, RxName, RxOffer, RxPush, RxSignal, RxRefuse, RxDone, SlipSockFree,
                FreeTest, FreeBlock, FreeQueue, FreeUsed, FreeSignal, poolVars
  <2> QED
    BY <2>1, <2>2
<1>3. CASE ServerTask \/ Transmit \/ Delimiter \/ UNCHANGED vars
  BY <1>1, <1>3 DEF ServerTask, ServerPermit, ServerAccept, ServerSpawn, SlipSockFree, CloseSend, Release,
              FreeTest, FreeBlock, FreeQueue, FreeUsed, FreeSignal, Transmit, Delimiter, vars, poolVars
<1>4. ASSUME NEW t \in Clients, ClientTask(t) PROVE NoHangUp'
  BY <1>1, <1>4 DEF ClientTask, ClientRecv, ClientSend, ClientClose, SlipSockRecv, RecvTest, RecvGet,
              RecvWait, RecvUsed, RecvCopy, RecvFree, RecvNull, CloseStart, SlipSockFree, CloseSend, Release,
              FreeTest, FreeBlock, FreeQueue, FreeUsed, FreeSignal, poolVars
<1>5. ASSUME NEW i \in Ids, PeerConnect(i) \/ PeerData(i) \/ PeerHangUp(i) PROVE NoHangUp'
  <2>0. PICK e \in {"Connect", "Data", "Unknown"} : FrameEnds(e, i) \/ FrameEnds("Damaged", i)
    <3>1. \A e \in Sends \ {"Disconnect"} : e \in {"Data", "Unknown"}
      BY SockAssumption
    <3> QED
      BY <1>5, <3>1 DEF PeerConnect, PeerData, PeerHangUp, PeerSends
  <2>1. PICK c \in Commands \ {"Disconnect"} : FrameEnds(c, i)
    BY <2>0 DEF Commands
  <2>2. \/ rxq' = rxq /\ cur' = cur
        \/ rxblk \in Blocks /\ rxq' = Append(rxq, [blk |-> rxblk, cmd |-> c, id |-> i]) /\ cur' = cur
    BY <2>1 DEF FrameEnds, FrameTypes
  <2> QED
    BY <1>1, <2>2 DEF NoHangUp, FrameTypes
<1> QED
  BY <1>2, <1>3, <1>4, <1>5 DEF Next

\* What the steps do to the holders, the accept queue and the slots in use.
Keeps == /\ acceptq' = acceptq /\ used' = used
         /\ \A t \in Tasks, u \in Sockets : Holds(t, u)' => Holds(t, u)

Opens(s) == /\ ~used[s] /\ acceptq' = acceptq /\ used' = [used EXCEPT ![s] = TRUE]
            /\ \A t \in Tasks, u \in Sockets : Holds(t, u)' => Holds(t, u) \/ (t = Rx /\ u = s)

Offers(s) == /\ Holds(Rx, s) /\ acceptq' = Append(acceptq, s) /\ used' = used
             /\ \A t \in Tasks, u \in Sockets : Holds(t, u)' => Holds(t, u) /\ t # Rx

Accepts == /\ acceptq # <<>> /\ acceptq' = Tail(acceptq) /\ used' = used
           /\ \A t \in Tasks, u \in Sockets :
                Holds(t, u)' => Holds(t, u) \/ (t = Server /\ u = Head(acceptq))

Spawns(c, s) == /\ Holds(Server, s) /\ acceptq' = acceptq /\ used' = used
                /\ \A t \in Tasks, u \in Sockets :
                     Holds(t, u)' => (Holds(t, u) /\ t # Server) \/ (t = c /\ u = s)

GivesUp(h, s) == /\ Holds(h, s) /\ acceptq' = acceptq /\ used' = [used EXCEPT ![s] = FALSE]
                 /\ \A t \in Tasks, u \in Sockets : Holds(t, u)' => Holds(t, u) /\ t # h

HoldStep == \/ Keeps \/ Accepts
            \/ \E s \in Sockets : Opens(s) \/ Offers(s)
            \/ \E c \in Clients, s \in Sockets : Spawns(c, s)
            \/ \E h \in Tasks, s \in Sockets : GivesUp(h, s)

\* slip_sock_free gives up one socket or none.
LEMMA FreeHolds ==
  ASSUME Types, NEW t \in Tasks, SlipSockFree(t)
  PROVE  Keeps \/ \E s \in Sockets : GivesUp(t, s)
<1> USE DEF Types
<1>1. at[t] \in Sockets
  BY TasksApart DEF SlipSockFree, FreeTest, FreeBlock, FreeQueue, FreeUsed, FreeSignal, Goto, FreePcs, Handles, RxHandle, TaskHandle
<1>2. CASE FreeUsed(t)
  <2>1. \A u \in Tasks \ {t} : pc'[u] = pc[u] /\ at'[u] = at[u]
    BY <1>2 DEF FreeUsed, Goto, PcTypes
  <2>2. pc'[t] = "free_signal" /\ pc[t] = "free_used"
    BY <1>2 DEF FreeUsed, Goto, PcTypes
  <2>3. "free_signal" \notin HoldPcs(t) /\ "free_used" \in HoldPcs(t)
    BY DEF HoldPcs, RecvPcs, FreePcs
  <2>4. Holds(t, at[t]) /\ \A u \in Tasks, s \in Sockets : Holds(u, s)' => Holds(u, s) /\ u # t
    BY <2>1, <2>2, <2>3 DEF Holds
  <2>5. GivesUp(t, at[t])
    BY <1>2, <2>4 DEF FreeUsed, GivesUp
  <2> QED
    BY <1>1, <2>5
<1>3. CASE FreeTest(t) \/ FreeBlock(t) \/ FreeQueue(t) \/ FreeSignal(t)
  <2>1. \A u \in Tasks \ {t} : pc'[u] = pc[u] /\ at'[u] = at[u]
    BY <1>3 DEF FreeTest, FreeBlock, FreeQueue, FreeSignal, Goto, PcTypes, Handles
  <2>2. acceptq' = acceptq /\ used' = used
    BY <1>3 DEF FreeTest, FreeBlock, FreeQueue, FreeSignal, sockVars
  <2>3. \/ pc'[t] \in {"free_queue", "free_used", "free_block"} /\ at'[t] = at[t]
           /\ pc[t] \in {"free_test", "free_block", "free_queue"}
        \/ pc'[t] \in {"close_send", "refuse", "done"}
    BY <1>3 DEF FreeTest, FreeBlock, FreeQueue, FreeSignal, Goto, PcTypes
  <2>4. /\ {"close_send", "refuse", "done"} \cap HoldPcs(t) = {}
        /\ {"free_test", "free_block", "free_queue"} \subseteq HoldPcs(t)
    BY DEF HoldPcs, RecvPcs, FreePcs
  <2>5. \A u \in Tasks, s \in Sockets : Holds(u, s)' => Holds(u, s)
    BY <2>1, <2>3, <2>4 DEF Holds
  <2> QED
    BY <2>2, <2>5 DEF Keeps
<1> QED
  BY <1>2, <1>3 DEF SlipSockFree

\* The receive task opens a socket, offers one, gives one up, or moves none.
LEMMA RxHolds ==
  ASSUME Types, NoHangUp, RxTask
  PROVE  HoldStep
<1> USE DEF Types
<1>0. \A u \in Tasks \ {Rx} : pc'[u] = pc[u] /\ at'[u] = at[u]
  BY RxHandles
<1>1. HoldPcs(Rx) = {"new", "name", "offer", "free_test", "free_block", "free_queue", "free_used"}
  BY DEF HoldPcs
<1>2. CASE RxDispatch
  <2>1. CASE used' = used
    <3>1. pc'[Rx] \in {"done", "refuse", "push"}
      <4>1. \E to \in {"done", "refuse", "push"} : pc' = [pc EXCEPT ![Rx] = to]
        BY <1>2, <2>1 DEF RxDispatch, NoHangUp, SockTypes
      <4> QED
        BY <4>1, TasksApart DEF PcTypes
    <3>2. acceptq' = acceptq
      BY <1>2 DEF RxDispatch
    <3>3. Keeps
      BY <1>0, <1>1, <2>1, <3>1, <3>2 DEF Keeps, Holds
    <3> QED
      BY <3>3 DEF HoldStep
  <2>2. CASE used' # used
    <3>1. PICK s \in Sockets : ~used[s] /\ used' = [used EXCEPT ![s] = TRUE] /\ at' = [at EXCEPT ![Rx] = s]
      BY <1>2, <2>2 DEF RxDispatch
    <3>2. acceptq' = acceptq
      BY <1>2 DEF RxDispatch
    <3>3. at'[Rx] = s
      BY <3>1, TasksApart DEF Handles
    <3>4. Opens(s)
      BY <1>0, <3>1, <3>2, <3>3 DEF Opens, Holds
    <3> QED
      BY <3>4 DEF HoldStep
  <2> QED
    BY <2>1, <2>2
<1>5. CASE RxNew \/ RxName
  <2>1. at'[Rx] = at[Rx] /\ pc[Rx] \in HoldPcs(Rx) /\ acceptq' = acceptq /\ used' = used
    BY <1>1, <1>5 DEF RxNew, RxName, Goto
  <2>2. Keeps
    BY <1>0, <2>1 DEF Keeps, Holds
  <2> QED
    BY <2>2 DEF HoldStep
<1>3. CASE RxOffer
  <2>1. at[Rx] \in Sockets /\ pc[Rx] = "offer" /\ at' = at /\ used' = used
    BY <1>3 DEF RxOffer, Handles, RxHandle, sockVars
  <2>2. CASE pc' = [pc EXCEPT ![Rx] = "done"] /\ acceptq' = Append(acceptq, at[Rx])
    <3>1. pc'[Rx] = "done" /\ Holds(Rx, at[Rx])
      BY <1>1, <2>1, <2>2, TasksApart DEF PcTypes, Holds
    <3>2. Offers(at[Rx])
      BY <1>0, <1>1, <2>1, <2>2, <3>1 DEF Offers, Holds
    <3> QED
      BY <2>1, <3>2 DEF HoldStep
  <2>3. CASE acceptq' = acceptq
    <3>1. Keeps
      BY <1>0, <1>1, <2>1, <2>3 DEF Keeps, Holds
    <3> QED
      BY <3>1 DEF HoldStep
  <2> QED
    BY <1>3, <2>2, <2>3 DEF RxOffer
<1>4. CASE RxGet \/ RxPush \/ RxSignal \/ RxRefuse \/ RxDone
  <2>1. pc'[Rx] \notin HoldPcs(Rx)
    BY <1>1, <1>4, TasksApart DEF RxGet, RxPush, RxSignal, RxRefuse, RxDone, Goto, PcTypes
  <2>2. acceptq' = acceptq /\ used' = used
    BY <1>4 DEF RxGet, RxPush, RxSignal, RxRefuse, RxDone, sockVars
  <2>3. Keeps
    BY <1>0, <2>1, <2>2 DEF Keeps, Holds
  <2> QED
    BY <2>3 DEF HoldStep
<1> QED
  BY <1>2, <1>3, <1>4, <1>5, FreeHolds, TasksApart DEF RxTask, HoldStep

\* The server accepts a socket, hands one over, gives one up, or moves none.
LEMMA ServerHolds ==
  ASSUME Types, ServerTask
  PROVE  HoldStep
<1> USE DEF Types
<1>0. HoldPcs(Server) = {"spawn", "act", "close"} \cup RecvPcs \cup (FreePcs \ {"free_signal"})
  BY TasksApart DEF HoldPcs
<1>1. CASE ServerPermit \/ CloseSend(Server) \/ Release(Server)
  <2>1. /\ pc'[Server] \in {"accept", "release", "permit"} /\ \A u \in Tasks \ {Server} : pc'[u] = pc[u]
        /\ at' = at
    BY <1>1, TasksApart DEF ServerPermit, CloseSend, Release, Goto, PcTypes
  <2>2. pc'[Server] \notin HoldPcs(Server)
    BY <1>0, <2>1 DEF RecvPcs, FreePcs
  <2>3. acceptq' = acceptq /\ used' = used
    BY <1>1 DEF ServerPermit, CloseSend, Release, sockVars
  <2>4. Keeps
    BY <2>1, <2>2, <2>3 DEF Keeps, Holds
  <2> QED
    BY <2>4 DEF HoldStep
<1>2. CASE ServerAccept
  <2>1. /\ \A u \in Tasks \ {Server} : pc'[u] = pc[u] /\ at'[u] = at[u]
        /\ at'[Server] = Head(acceptq)
    BY <1>2, TasksApart DEF ServerAccept, Goto, PcTypes, Handles
  <2>2. Accepts
    BY <1>2, <2>1 DEF ServerAccept, Accepts, Holds, sockVars
  <2> QED
    BY <2>2 DEF HoldStep
<1>3. CASE ServerSpawn
  <2>1. /\ pc[Server] = "spawn" /\ at[Server] \in Sockets
        /\ acceptq' = acceptq /\ used' = used
    BY <1>3, TasksApart DEF ServerSpawn, sockVars, Handles, TaskHandle
  <2>2. Holds(Server, at[Server])
    BY <1>0, <2>1 DEF Holds
  <2>3. CASE \E t \in Clients : /\ pc' = [pc EXCEPT ![t] = "act", ![Server] = "permit"]
                               /\ at' = [at EXCEPT ![t] = at[Server], ![Server] = NONE]
    <3>1. PICK t \in Clients : /\ pc' = [pc EXCEPT ![t] = "act", ![Server] = "permit"]
                               /\ at' = [at EXCEPT ![t] = at[Server], ![Server] = NONE]
      BY <2>3
    <3>2. /\ at'[t] = at[Server] /\ at'[Server] = NONE
          /\ \A u \in Tasks \ {t, Server} : pc'[u] = pc[u] /\ at'[u] = at[u]
      BY <3>1, TasksApart DEF PcTypes, Handles
    <3>3. NONE \notin Sockets
      BY SockAssumption
    <3>4. Spawns(t, at[Server])
      BY <2>1, <2>2, <3>2, <3>3 DEF Spawns, Holds
    <3> QED
      BY <2>1, <3>4 DEF HoldStep
  <2>4. CASE pc' = [pc EXCEPT ![Server] = "free_test"] /\ at' = at
    <3>1. \A u \in Tasks \ {Server} : pc'[u] = pc[u]
      BY <2>4 DEF PcTypes
    <3>2. Keeps
      BY <2>1, <2>2, <2>4, <3>1 DEF Keeps, Holds
    <3> QED
      BY <3>2 DEF HoldStep
  <2> QED
    BY <1>3, <2>3, <2>4 DEF ServerSpawn
<1> QED
  BY <1>1, <1>2, <1>3, FreeHolds, TasksApart DEF ServerTask, HoldStep

\* A client gives up its own socket or moves none.
LEMMA ClientHolds ==
  ASSUME Types, NEW t \in Clients, ClientTask(t)
  PROVE  HoldStep
<1> USE DEF Types
<1>0. HoldPcs(t) = {"spawn", "act", "close"} \cup RecvPcs \cup (FreePcs \ {"free_signal"})
  BY TasksApart DEF HoldPcs
<1>1. CASE SlipSockFree(t)
  BY <1>1, FreeHolds, TasksApart DEF HoldStep
<1>2. CASE ~SlipSockFree(t)
  <2>1. /\ at' = at /\ acceptq' = acceptq /\ used' = used
        /\ \A u \in Tasks \ {t} : pc'[u] = pc[u]
    BY <1>2 DEF ClientTask, ClientRecv, ClientSend, ClientClose, SlipSockRecv, RecvTest, RecvGet,
              RecvWait, RecvUsed, RecvCopy, RecvFree, RecvNull, CloseStart, CloseSend, Release, Goto, sockVars, PcTypes
  <2>2. \/ pc[t] \in {"act", "close"} \cup RecvPcs
        \/ pc'[t] \in {"release", "dead"}
    BY <1>2, TasksApart DEF ClientTask, ClientRecv, ClientSend, ClientClose, SlipSockRecv, RecvTest, RecvGet,
              RecvWait, RecvUsed, RecvCopy, RecvFree, RecvNull, CloseStart, CloseSend, Release, Goto, PcTypes, RecvPcs
  <2>3. pc'[t] \in HoldPcs(t) => pc[t] \in HoldPcs(t)
    BY <1>0, <2>2 DEF RecvPcs, FreePcs
  <2>4. Keeps
    BY <2>1, <2>3 DEF Keeps, Holds
  <2> QED
    BY <2>4 DEF HoldStep
<1> QED
  BY <1>1, <1>2

\* Every step moves at most one socket from one holder to another.
LEMMA NextHolds ==
  ASSUME Types, NoHangUp, [Next]_vars
  PROVE  HoldStep
<1>1. CASE Transmit \/ Delimiter \/ (\E i \in Ids : PeerConnect(i) \/ PeerData(i) \/ PeerHangUp(i)) \/ UNCHANGED vars
  <2>1. UNCHANGED <<pc, at, acceptq, used>>
    BY <1>1 DEF Transmit, Delimiter, PeerConnect, PeerData, PeerHangUp, PeerSends, FrameEnds, NextBlock, vars, sockVars
  <2>2. Keeps
    BY <2>1 DEF Keeps, Holds
  <2> QED
    BY <2>2 DEF HoldStep
<1> QED
  BY <1>1, RxHolds, ServerHolds, ClientHolds DEF Next

\* Such a step leaves each socket in use with one holder.
LEMMA NextOwned ==
  ASSUME Types, Owned, HoldStep
  PROVE  Owned'
<1>0. /\ used \in [Sockets -> BOOLEAN] /\ acceptq \in Seq(Sockets)
      /\ \A t, u \in Tasks, s \in Sockets : Holds(t, s) /\ Holds(u, s) => t = u
      /\ \A j, k \in DOMAIN acceptq : acceptq[j] = acceptq[k] => j = k
      /\ \A t \in Tasks, k \in DOMAIN acceptq : ~Holds(t, acceptq[k])
      /\ \A t \in Tasks, s \in Sockets : Holds(t, s) => used[s]
      /\ \A k \in DOMAIN acceptq : used[acceptq[k]]
      /\ \A k \in DOMAIN acceptq : acceptq[k] \in Sockets
  BY DEF Types, SockTypes, Owned
<1> SUFFICES /\ \A t, u \in Tasks, s \in Sockets : Holds(t, s)' /\ Holds(u, s)' => t = u
             /\ \A j, k \in DOMAIN acceptq' : acceptq'[j] = acceptq'[k] => j = k
             /\ \A t \in Tasks, k \in DOMAIN acceptq' : \A s \in Sockets : s = acceptq'[k] => ~Holds(t, s)'
             /\ \A t \in Tasks, s \in Sockets : Holds(t, s)' => used'[s]
             /\ \A k \in DOMAIN acceptq' : used'[acceptq'[k]] /\ acceptq'[k] \in Sockets
  BY DEF Owned, Holds
<1>1. CASE Keeps
  BY <1>0, <1>1 DEF Keeps
<1>2. ASSUME NEW s \in Sockets, Opens(s)
      PROVE  /\ \A t, u \in Tasks, v \in Sockets : Holds(t, v)' /\ Holds(u, v)' => t = u
             /\ \A j, k \in DOMAIN acceptq' : acceptq'[j] = acceptq'[k] => j = k
             /\ \A t \in Tasks, k \in DOMAIN acceptq' : \A v \in Sockets : v = acceptq'[k] => ~Holds(t, v)'
             /\ \A t \in Tasks, v \in Sockets : Holds(t, v)' => used'[v]
             /\ \A k \in DOMAIN acceptq' : used'[acceptq'[k]] /\ acceptq'[k] \in Sockets
  BY <1>0, <1>2 DEF Opens
<1>3. ASSUME NEW s \in Sockets, Offers(s)
      PROVE  /\ \A t, u \in Tasks, v \in Sockets : Holds(t, v)' /\ Holds(u, v)' => t = u
             /\ \A j, k \in DOMAIN acceptq' : acceptq'[j] = acceptq'[k] => j = k
             /\ \A t \in Tasks, k \in DOMAIN acceptq' : \A v \in Sockets : v = acceptq'[k] => ~Holds(t, v)'
             /\ \A t \in Tasks, v \in Sockets : Holds(t, v)' => used'[v]
             /\ \A k \in DOMAIN acceptq' : used'[acceptq'[k]] /\ acceptq'[k] \in Sockets
  <2>1. /\ DOMAIN acceptq' = 1 .. Len(acceptq) + 1 /\ Len(acceptq) \in Nat /\ DOMAIN acceptq = 1 .. Len(acceptq)
        /\ acceptq'[Len(acceptq) + 1] = s
        /\ \A k \in 1 .. Len(acceptq) : acceptq'[k] = acceptq[k]
    BY <1>0, <1>3 DEF Offers
  <2>2. \A k \in DOMAIN acceptq : acceptq[k] # s
    BY <1>0, <1>3, TasksApart DEF Offers
  <2>3. /\ Holds(Rx, s) /\ used' = used
        /\ \A t \in Tasks, u \in Sockets : Holds(t, u)' => Holds(t, u) /\ t # Rx
    BY <1>3 DEF Offers
  <2>4. \A j, k \in DOMAIN acceptq' : acceptq'[j] = acceptq'[k] => j = k
    BY <1>0, <2>1, <2>2
  <2>5. \A t \in Tasks, k \in DOMAIN acceptq' : \A v \in Sockets : v = acceptq'[k] => ~Holds(t, v)'
    <3>1. \A t \in Tasks : ~Holds(t, s)'
      BY <1>0, <2>3, TasksApart
    <3>2. \A k \in DOMAIN acceptq' : acceptq'[k] = s \/ \E n \in DOMAIN acceptq : acceptq'[k] = acceptq[n]
      BY <2>1
    <3>3. \A t \in Tasks, n \in DOMAIN acceptq : \A v \in Sockets : v = acceptq[n] => ~Holds(t, v)'
      BY <1>0, <2>3
    <3> QED
      BY <3>1, <3>2, <3>3
  <2>6. \A k \in DOMAIN acceptq' : used'[acceptq'[k]] /\ acceptq'[k] \in Sockets
    BY <1>0, <2>1, <2>3, TasksApart
  <2> QED
    BY <1>0, <2>3, <2>4, <2>5, <2>6
<1>4. CASE Accepts
  <2>1. /\ DOMAIN acceptq' = 1 .. Len(acceptq) - 1 /\ Len(acceptq) \in Nat /\ DOMAIN acceptq = 1 .. Len(acceptq)
        /\ Len(acceptq) > 0 /\ Head(acceptq) = acceptq[1]
        /\ \A k \in 1 .. Len(acceptq) - 1 : acceptq'[k] = acceptq[k + 1]
    BY <1>0, <1>4 DEF Accepts
  <2>2. /\ used' = used
        /\ \A t \in Tasks, u \in Sockets : Holds(t, u)' => Holds(t, u) \/ (t = Server /\ u = Head(acceptq))
    BY <1>4 DEF Accepts
  <2>3. \A t \in Tasks : ~Holds(t, Head(acceptq))
    BY <1>0, <2>1
  <2>4. \A j, k \in DOMAIN acceptq' : acceptq'[j] = acceptq'[k] => j = k
    BY <1>0, <2>1
  <2>5. \A k \in DOMAIN acceptq' :
          acceptq'[k] # Head(acceptq) /\ \E n \in DOMAIN acceptq : acceptq'[k] = acceptq[n]
    BY <1>0, <2>1
  <2>6. used[Head(acceptq)]
    BY <1>0, <2>1
  <2>7. \A t, u \in Tasks, v \in Sockets : Holds(t, v)' /\ Holds(u, v)' => t = u
    BY <1>0, <2>2, <2>3
  <2>8. \A t \in Tasks, v \in Sockets : Holds(t, v)' => used'[v]
    BY <1>0, <2>2, <2>6
  <2>9. \A t \in Tasks, k \in DOMAIN acceptq' : \A v \in Sockets : v = acceptq'[k] => ~Holds(t, v)'
    BY <1>0, <2>2, <2>5
  <2> QED
    BY <1>0, <2>2, <2>4, <2>5, <2>7, <2>8, <2>9
<1>5. ASSUME NEW c \in Clients, NEW s \in Sockets, Spawns(c, s)
      PROVE  /\ \A t, u \in Tasks, v \in Sockets : Holds(t, v)' /\ Holds(u, v)' => t = u
             /\ \A j, k \in DOMAIN acceptq' : acceptq'[j] = acceptq'[k] => j = k
             /\ \A t \in Tasks, k \in DOMAIN acceptq' : \A v \in Sockets : v = acceptq'[k] => ~Holds(t, v)'
             /\ \A t \in Tasks, v \in Sockets : Holds(t, v)' => used'[v]
             /\ \A k \in DOMAIN acceptq' : used'[acceptq'[k]] /\ acceptq'[k] \in Sockets
  BY <1>0, <1>5, TasksApart DEF Spawns
<1>6. ASSUME NEW h \in Tasks, NEW s \in Sockets, GivesUp(h, s)
      PROVE  /\ \A t, u \in Tasks, v \in Sockets : Holds(t, v)' /\ Holds(u, v)' => t = u
             /\ \A j, k \in DOMAIN acceptq' : acceptq'[j] = acceptq'[k] => j = k
             /\ \A t \in Tasks, k \in DOMAIN acceptq' : \A v \in Sockets : v = acceptq'[k] => ~Holds(t, v)'
             /\ \A t \in Tasks, v \in Sockets : Holds(t, v)' => used'[v]
             /\ \A k \in DOMAIN acceptq' : used'[acceptq'[k]] /\ acceptq'[k] \in Sockets
  BY <1>0, <1>6 DEF GivesUp
<1> QED
  BY <1>1, <1>2, <1>3, <1>4, <1>5, <1>6 DEF HoldStep

\* No step frees the socket of a client that still works with it.
LEMMA NextKept ==
  ASSUME Types, Owned, ClientKeepsItsSocket, [Next]_vars
  PROVE  ClientKeepsItsSocket'
<1> USE DEF Types
<1>1. ASSUME recycled' = recycled PROVE ClientKeepsItsSocket'
  BY <1>1 DEF ClientKeepsItsSocket
<1>2. CASE RxTask
  <2>1. CASE RxDispatch /\ recycled' # recycled
    <3>1. PICK s \in Sockets : /\ ~used[s]
                               /\ recycled' = [t \in Clients |-> recycled[t] \/ (at[t] = s /\ Serving(t))]
      BY <2>1 DEF RxDispatch
    <3>2. \A t \in Clients : at[t] = s /\ Serving(t) => Holds(t, s)
      BY TasksApart DEF Holds, HoldPcs, Serving
    <3>3. \A t \in Clients : ~(at[t] = s /\ Serving(t))
      BY <3>1, <3>2, TasksApart DEF Owned
    <3> QED
      BY <3>1, <3>3 DEF ClientKeepsItsSocket
  <2>2. CASE ~(RxDispatch /\ recycled' # recycled)
    BY <1>1, <1>2, <2>2 DEF RxTask, RxGet, RxDispatch, RxNew, RxName, RxOffer, RxPush, RxSignal, RxRefuse, RxDone, SlipSockFree,
                FreeTest, FreeBlock, FreeQueue, FreeUsed, FreeSignal, taskVars
  <2> QED
    BY <2>1, <2>2
<1>3. CASE ServerTask
  <2>1. CASE ServerSpawn
    <3>1. recycled' = recycled \/ \E t \in Clients : recycled' = [recycled EXCEPT ![t] = FALSE]
      BY <2>1 DEF ServerSpawn
    <3> QED
      BY <3>1 DEF ClientKeepsItsSocket, OtherTypes
  <2>2. CASE ~ServerSpawn
    BY <1>1, <1>3, <2>2 DEF ServerTask, ServerPermit, ServerAccept, SlipSockFree, CloseSend, Release,
                FreeTest, FreeBlock, FreeQueue, FreeUsed, FreeSignal, taskVars
  <2> QED
    BY <2>1, <2>2
<1>4. ASSUME NEW t \in Clients, ClientTask(t) PROVE recycled' = recycled
  BY <1>4 DEF ClientTask, ClientRecv, ClientSend, ClientClose, SlipSockRecv, RecvTest, RecvGet,
              RecvWait, RecvUsed, RecvCopy, RecvFree, RecvNull, CloseStart, SlipSockFree, CloseSend, Release,
              FreeTest, FreeBlock, FreeQueue, FreeUsed, FreeSignal, taskVars
<1>5. CASE Transmit \/ Delimiter \/ (\E i \in Ids : PeerConnect(i) \/ PeerData(i) \/ PeerHangUp(i)) \/ UNCHANGED vars
  BY <1>1, <1>5 DEF Transmit, Delimiter, PeerConnect, PeerData, PeerHangUp, PeerSends, FrameEnds, NextBlock, vars, taskVars
<1> QED
  BY <1>1, <1>2, <1>3, <1>4, <1>5 DEF Next

\* The invariant for peers that do not hang up.
LEMMA PoliteInvariance ==
  ASSUME "Disconnect" \notin Sends
  PROVE  Spec => [](Types /\ Polite)
<1>1. Init => Types /\ Polite
  BY InitTypes, InitPolite
<1>2. (Types /\ Polite) /\ [Next]_vars => (Types /\ Polite)'
  BY NextTypes, NextNoHangUp, NextHolds, NextOwned, NextKept DEF Polite
<1> QED
  BY <1>1, <1>2, PTL DEF Spec

\* As long as the peer does not hang up, every connection has one task: its
\* socket is in the accept queue once or in the hands of one task.
THEOREM OneTask ==
  ASSUME "Disconnect" \notin Sends
  PROVE  Spec => []OneTaskPerSocket
<1>1. Types /\ Polite => OneTaskPerSocket
  <2> SUFFICES ASSUME Types, Owned, NEW s \in Sockets
               PROVE  Cardinality({t \in Tasks : Serving(t) /\ at[t] = s})
                        + Cardinality({k \in DOMAIN acceptq : acceptq[k] = s}) <= 1
    BY DEF OneTaskPerSocket, Polite
  <2> DEFINE T == {t \in Tasks : Serving(t) /\ at[t] = s}
             Q == {k \in DOMAIN acceptq : acceptq[k] = s}
  <2>1. \A t \in T : t \in Tasks /\ Holds(t, s)
    BY DEF Serving, Holds, HoldPcs
  <2>2. /\ T = {} \/ \E t \in T : T = {t}
        /\ Q = {} \/ \E k \in Q : Q = {k}
        /\ T = {} \/ Q = {}
    <3>1. \A t, u \in T : t = u
      BY <2>1 DEF Owned
    <3>2. \A j, k \in Q : j = k
      BY DEF Owned
    <3>3. \A t \in T, k \in Q : FALSE
      BY <2>1 DEF Owned
    <3> HIDE DEF T, Q
    <3> QED
      BY <3>1, <3>2, <3>3
  <2> HIDE DEF T, Q
  <2>3. /\ (T = {} => Cardinality(T) = 0) /\ (Cardinality(T) = 0 \/ Cardinality(T) = 1)
        /\ (Q = {} => Cardinality(Q) = 0) /\ (Cardinality(Q) = 0 \/ Cardinality(Q) = 1)
    BY <2>2, FS_EmptySet, FS_Singleton
  <2>4. Cardinality(T) + Cardinality(Q) <= 1
    BY <2>2, <2>3
  <2> QED
    BY <2>4 DEF T, Q
<1> QED
  BY <1>1, PoliteInvariance, PTL

\* As long as the peer does not hang up, no client finds another connection
\* in its socket.
THEOREM NoSocketRecycled ==
  ASSUME "Disconnect" \notin Sends
  PROVE  Spec => []ClientKeepsItsSocket
<1>1. Types /\ Polite => ClientKeepsItsSocket
  BY DEF Polite
<1> QED
  BY <1>1, PoliteInvariance, PTL

-----------------------------------------------------------------------------
(***************************************************************************)
(* The wake-up.  With one task per socket only the client that waits       *)
(* clears its event, and after data is queued the event is set.            *)
(***************************************************************************)
Asleep(t) == pc[t] = "recv_wait" /\ event[at[t]] = 0

Awaits(t) == \/ queue[at[t]] = <<>>
             \/ pc[Rx] = "signal" /\ at[Rx] = at[t]

SleepsRightly == \A t \in Clients : Asleep(t) => Awaits(t)

\* A client that was asleep and stays so, next to a step that neither queues
\* data nor completes a signal, still awaits its wake-up.
LEMMA StillAwaits ==
  ASSUME Types, SleepsRightly, NEW t \in Clients,
         pc'[t] = "recv_wait" => pc[t] = "recv_wait" /\ at'[t] = at[t],
         \A s \in Sockets : event[s] = 1 /\ event'[s] = 0 => ~Holds(t, s) \/ queue'[s] = <<>>,
         \A s \in Sockets : queue[s] = <<>> => queue'[s] = <<>>,
         pc[Rx] = "signal" => pc'[Rx] = "signal" /\ at'[Rx] = at[Rx]
  PROVE  Asleep(t)' => Awaits(t)'
<1> SUFFICES ASSUME pc'[t] = "recv_wait", event'[at'[t]] = 0
             PROVE  queue'[at'[t]] = <<>> \/ (pc'[Rx] = "signal" /\ at'[Rx] = at'[t])
  BY DEF Asleep, Awaits
<1>1. pc[t] = "recv_wait" /\ at'[t] = at[t]
  OBVIOUS
<1>2. at[t] \in Sockets /\ Holds(t, at[t])
  BY <1>1, TasksApart DEF Types, Handles, TaskHandle, Holds, HoldPcs, RecvPcs
<1>3. event[at[t]] = 0 \/ event[at[t]] = 1
  BY <1>2 DEF Types, SockTypes
<1>4. CASE event[at[t]] = 1
  BY <1>1, <1>2, <1>4
<1>5. CASE event[at[t]] = 0
  <2>1. Awaits(t)
    BY <1>1, <1>5 DEF SleepsRightly, Asleep
  <2> QED
    BY <1>1, <1>2, <2>1 DEF Awaits
<1> QED
  BY <1>3, <1>4, <1>5

\* At the start no task sleeps.
LEMMA InitSleeps == Init => SleepsRightly
  BY TasksApart DEF Init, SleepsRightly, Asleep

\* After a step of the receive task a sleeping client has no data, or a signal to come.
LEMMA RxSleeps ==
  ASSUME Types, SleepsRightly, RxTask, NEW t \in Clients
  PROVE  Asleep(t)' => Awaits(t)'
<1> USE DEF Types
<1>0. pc'[t] = pc[t] /\ at'[t] = at[t] /\ t # Rx
  BY RxHandles, TasksApart
<1>1. pc[t] = "recv_wait" => at[t] \in Sockets
  BY TasksApart DEF Handles, TaskHandle, RecvPcs
<1>2. CASE RxPush
  <2>1. /\ pc'[Rx] = "signal" /\ at'[Rx] = at[Rx] /\ event' = event /\ pc[Rx] = "push"
        /\ \A s \in Sockets \ {at[Rx]} : queue'[s] = queue[s]
    BY <1>2, TasksApart DEF RxPush, Goto, PcTypes, SockTypes
  <2> QED
    BY <1>0, <1>1, <2>1 DEF SleepsRightly, Asleep, Awaits
<1>3. CASE RxSignal
  <2>1. /\ at[Rx] \in Sockets /\ event'[at[Rx]] = 1 /\ queue' = queue
        /\ \A s \in Sockets \ {at[Rx]} : event'[s] = event[s]
    BY <1>3 DEF RxSignal, Goto, Handles, RxHandle, SockTypes
  <2>2. ASSUME Asleep(t)' PROVE queue[at[t]] = <<>> /\ at'[t] = at[t]
    <3>1. pc[t] = "recv_wait" /\ event'[at[t]] = 0 /\ at[t] \in Sockets
      BY <1>0, <1>1, <2>2 DEF Asleep
    <3>2. at[t] # at[Rx]
      BY <2>1, <3>1
    <3>3. event[at[t]] = 0
      BY <2>1, <3>1, <3>2
    <3>4. Awaits(t)
      BY <3>1, <3>3 DEF SleepsRightly, Asleep
    <3> QED
      BY <1>0, <3>2, <3>4 DEF Awaits
  <2> QED
    BY <2>1, <2>2 DEF Awaits
<1>4. CASE RxNew
  <2>1. event' = [event EXCEPT ![at[Rx]] = 0] /\ queue' = [queue EXCEPT ![at[Rx]] = <<>>]
    BY <1>4 DEF RxNew
  <2>2. \A s \in Sockets : (event[s] = 1 /\ event'[s] = 0 => queue'[s] = <<>>)
                           /\ (queue[s] = <<>> => queue'[s] = <<>>)
    BY <2>1 DEF SockTypes
  <2>3. pc[Rx] # "signal"
    BY <1>4 DEF RxNew, Goto
  <2> QED
    BY <1>0, <2>2, <2>3, StillAwaits
<1>5. CASE SlipSockFree(Rx) \/ RxGet \/ RxDispatch \/ RxName \/ RxOffer \/ RxRefuse \/ RxDone
  <2>1. pc[Rx] # "signal"
    BY <1>5 DEF RxGet, RxDispatch, RxName, RxOffer, RxRefuse, RxDone, SlipSockFree, FreeTest, FreeBlock, FreeQueue, FreeUsed, FreeSignal, Goto
  <2>2. \A s \in Sockets : (event[s] = 1 => event'[s] = 1)
                           /\ (queue[s] = <<>> => queue'[s] = <<>>)
    <3>1. CASE FreeQueue(Rx)
      <4>1. event' = event /\ (queue' = queue \/ (queue[at[Rx]] # <<>> /\ queue' = [queue EXCEPT ![at[Rx]] = Tail(@)]))
        BY <3>1 DEF FreeQueue
      <4> QED
        BY <4>1 DEF SockTypes
    <3>2. CASE ~FreeQueue(Rx)
      <4>1. queue' = queue /\ (event' = event \/ event' = [event EXCEPT ![at[Rx]] = 1])
        BY <1>5, <3>2 DEF RxGet, RxDispatch, RxName, RxOffer, RxRefuse, RxDone, SlipSockFree, FreeTest, FreeBlock, FreeUsed, FreeSignal, sockVars
      <4> QED
        BY <4>1 DEF SockTypes
    <3> QED
      BY <3>1, <3>2
  <2> QED
    BY <1>0, <2>1, <2>2, StillAwaits
<1> QED
  BY <1>2, <1>3, <1>4, <1>5 DEF RxTask

\* The same after a step of the server.
LEMMA ServerSleeps ==
  ASSUME Types, SleepsRightly, ServerTask, NEW t \in Clients
  PROVE  Asleep(t)' => Awaits(t)'
<1> USE DEF Types
<1>1. pc'[Rx] = pc[Rx] /\ at'[Rx] = at[Rx]
  BY TasksApart DEF ServerTask, ServerPermit, ServerAccept, ServerSpawn, SlipSockFree, CloseSend, Release,
              FreeTest, FreeBlock, FreeQueue, FreeUsed, FreeSignal, Goto, PcTypes, Handles
<1>2. pc'[t] = "recv_wait" => pc[t] = "recv_wait" /\ at'[t] = at[t]
  <2>1. CASE ServerSpawn
    BY <2>1, TasksApart DEF ServerSpawn, PcTypes, Handles
  <2>2. CASE ~ServerSpawn
    BY <2>2, TasksApart DEF ServerTask, ServerPermit, ServerAccept, SlipSockFree, CloseSend, Release,
              FreeTest, FreeBlock, FreeQueue, FreeUsed, FreeSignal, Goto, PcTypes, Handles
  <2> QED
    BY <2>1, <2>2
<1>3. \A s \in Sockets : (event[s] = 1 => event'[s] = 1)
                         /\ (queue[s] = <<>> => queue'[s] = <<>>)
  BY DEF ServerTask, ServerPermit, ServerAccept, ServerSpawn, SlipSockFree, CloseSend, Release,
         FreeTest, FreeBlock, FreeQueue, FreeUsed, FreeSignal, sockVars, SockTypes
<1> QED
  BY <1>1, <1>2, <1>3, StillAwaits

\* The same after a step of another client.
LEMMA ClientSleeps ==
  ASSUME Types, Owned, SleepsRightly, NEW u \in Clients, ClientTask(u), NEW t \in Clients
  PROVE  Asleep(t)' => Awaits(t)'
<1> USE DEF Types
<1>1. /\ pc'[Rx] = pc[Rx] /\ at'[Rx] = at[Rx]
      /\ \A v \in Clients \ {u} : pc'[v] = pc[v] /\ at'[v] = at[v]
  BY TasksApart DEF ClientTask, ClientRecv, ClientSend, ClientClose, SlipSockRecv, RecvTest, RecvGet,
              RecvWait, RecvUsed, RecvCopy, RecvFree, RecvNull, CloseStart, SlipSockFree, CloseSend, Release,
              FreeTest, FreeBlock, FreeQueue, FreeUsed, FreeSignal, Goto, PcTypes, Handles
<1>2. pc[u] \in RecvPcs => at[u] \in Sockets
  BY TasksApart DEF Handles, TaskHandle
<1>3. CASE RecvWait(u)
  <2>1. /\ pc'[u] = "recv_used" /\ queue' = queue /\ Holds(u, at[u]) /\ at[u] \in Sockets
        /\ \A s \in Sockets \ {at[u]} : event'[s] = event[s]
    BY <1>2, <1>3, TasksApart DEF RecvWait, Goto, PcTypes, Holds, HoldPcs, RecvPcs, SockTypes
  <2>2. CASE t = u
    BY <2>1, <2>2 DEF Asleep
  <2>3. CASE t # u
    <3>1. ~Holds(t, at[u])
      BY <2>1, <2>3, TasksApart DEF Owned
    <3> QED
      BY <1>1, <2>1, <2>3, <3>1, StillAwaits
  <2> QED
    BY <2>2, <2>3
<1>4. CASE RecvGet(u)
  <2>1. /\ event' = event /\ at[u] \in Sockets /\ at' = at
        /\ \A s \in Sockets : queue[s] = <<>> => queue'[s] = <<>>
        /\ pc'[u] = "recv_wait" => queue'[at[u]] = <<>>
    BY <1>2, <1>4, TasksApart DEF RecvGet, PcTypes, SockTypes, RecvPcs
  <2>2. CASE t = u
    BY <2>1, <2>2 DEF Asleep, Awaits
  <2>3. CASE t # u
    <3>1. \A s \in Sockets : ~(event[s] = 1 /\ event'[s] = 0)
      BY <2>1
    <3> QED
      BY <1>1, <2>1, <2>3, <3>1, StillAwaits
  <2> QED
    BY <2>2, <2>3
<1>5. CASE ~RecvWait(u) /\ ~RecvGet(u)
  <2>1. \A s \in Sockets : (event[s] = 1 => event'[s] = 1)
                           /\ (queue[s] = <<>> => queue'[s] = <<>>)
    BY <1>5 DEF ClientTask, ClientRecv, ClientSend, ClientClose, SlipSockRecv, RecvTest,
              RecvUsed, RecvCopy, RecvFree, RecvNull, CloseStart, SlipSockFree, CloseSend, Release,
              FreeTest, FreeBlock, FreeQueue, FreeUsed, FreeSignal, sockVars, SockTypes
  <2>2. pc'[u] # "recv_wait"
    BY <1>5, TasksApart DEF ClientTask, ClientRecv, ClientSend, ClientClose, SlipSockRecv, RecvTest,
              RecvUsed, RecvCopy, RecvFree, RecvNull, CloseStart, SlipSockFree, CloseSend, Release,
              FreeTest, FreeBlock, FreeQueue, FreeUsed, FreeSignal, Goto, PcTypes
  <2> QED
    BY <1>1, <2>1, <2>2, StillAwaits
<1> QED
  BY <1>3, <1>4, <1>5

\* The same after every step.
LEMMA NextSleeps ==
  ASSUME Types, Owned, SleepsRightly, [Next]_vars
  PROVE  SleepsRightly'
<1> SUFFICES ASSUME NEW t \in Clients PROVE Asleep(t)' => Awaits(t)'
  BY DEF SleepsRightly
<1>1. CASE Transmit \/ Delimiter \/ (\E i \in Ids : PeerConnect(i) \/ PeerData(i) \/ PeerHangUp(i)) \/ UNCHANGED vars
  <2>1. UNCHANGED <<pc, at, event, queue>>
    BY <1>1 DEF Transmit, Delimiter, PeerConnect, PeerData, PeerHangUp, PeerSends, FrameEnds, NextBlock, vars, sockVars
  <2> QED
    BY <2>1 DEF SleepsRightly, Asleep, Awaits
<1> QED
  BY <1>1, RxSleeps, ServerSleeps, ClientSleeps DEF Next

\* As long as the peer does not hang up, no wake-up is lost: a client sleeps
\* only on an empty queue, or its event is about to be set.
THEOREM NoWakeupLost ==
  ASSUME "Disconnect" \notin Sends
  PROVE  Spec => []NoLostWakeup
<1>1. Init => SleepsRightly
  BY InitSleeps
<1>2. Types /\ Polite /\ SleepsRightly /\ [Next]_vars => SleepsRightly'
  BY NextSleeps DEF Polite
<1>3. Types /\ Polite /\ SleepsRightly => NoLostWakeup
  <2> SUFFICES ASSUME Types, Owned, SleepsRightly, NEW t \in Clients, pc[t] = "recv_wait", event[at[t]] = 0
               PROVE  /\ queue[at[t]] = <<>> \/ (pc[Rx] = "signal" /\ at[Rx] = at[t])
                      /\ used[at[t]]
    BY DEF NoLostWakeup, Polite
  <2>1. Holds(t, at[t]) /\ at[t] \in Sockets
    BY TasksApart DEF Types, Handles, TaskHandle, Holds, HoldPcs, RecvPcs
  <2>2. used[at[t]]
    BY <2>1, TasksApart DEF Owned
  <2> QED
    BY <2>2 DEF SleepsRightly, Asleep, Awaits
<1> QED
  BY <1>1, <1>2, <1>3, PoliteInvariance, PTL DEF Spec

-----------------------------------------------------------------------------
(***************************************************************************)
(* The peer learns of every end.  The frame the receive task handles       *)
(* counts as news only until it has been served: Heard says when.          *)
(***************************************************************************)
HeardPcs == {"dispatch", "new", "name", "refuse"} \cup FreePcs
Heard(i) == cur.id = i /\ cur.cmd # "Damaged" /\ pc[Rx] \in HeardPcs

\* The sockets of a connection whose id has been written.
NamedOf(i) == {s \in SocketOf(i) : Named(s)}

News(i) ==
  \/ NamedOf(i) # {}
  \/ \E k \in DOMAIN rxq : rxq[k].id = i /\ rxq[k].cmd # "Damaged"
  \/ Heard(i)
  \/ \E k \in DOMAIN txq : txq[k].id = i /\ txq[k].cmd = "Disconnect"
  \/ \E t \in Tasks : Closing(t, i)

\* What slip_sock_free gives up is the connection the task set out to close.
Closes ==
  /\ pc[Rx] = "offer" => sid[at[Rx]] = cur.id
  /\ pc[Rx] \in {"new", "name", "offer"} \cup FreePcs => cur.cmd = "Connect"
  /\ pc[Rx] \in FreePcs \ {"free_signal"} => sid[at[Rx]] = cur.id
  /\ \A t \in Tasks \ {Rx} : pc[t] \in FreePcs \ {"free_signal"} => closeId[t] = sid[at[t]]

Informed == Closes /\ \A i \in Ids \ untold : peer[i] = "open" => News(i)

\* At the start nothing closes and every peer knows where it stands.
LEMMA InitInformed == Init => Informed
  BY TasksApart DEF Init, Informed, Closes, FreePcs

\* The slot of a task that closes is in use, so nobody else renames it.
LEMMA NextCloses ==
  ASSUME Types, Polite, Closes, [Next]_vars
  PROVE  Closes'
<1> USE DEF Types, Polite
<1>0. ASSUME NEW t \in Tasks, NEW s \in Sockets, Holds(t, s), t # Rx \/ pc[Rx] # "name"
      PROVE  sid'[s] = sid[s]
  <2>1. CASE RxName
    <3>1. Holds(Rx, at[Rx]) /\ at[Rx] \in Sockets /\ pc[Rx] = "name"
      BY <2>1, TasksApart DEF RxName, Goto, Handles, RxHandle, Holds, HoldPcs
    <3>2. at[Rx] # s
      BY <1>0, <3>1, TasksApart DEF Owned
    <3> QED
      BY <2>1, <3>1, <3>2 DEF RxName, SockTypes
  <2>2. CASE ~RxName
    <3>1. sid' = sid
      <4>1. CASE RxTask
        BY <2>2, <4>1 DEF RxTask, RxGet, RxDispatch, RxNew, RxOffer, RxPush, RxSignal, RxRefuse, RxDone, SlipSockFree,
                    FreeTest, FreeBlock, FreeQueue, FreeUsed, FreeSignal, sockVars
      <4>2. CASE ServerTask \/ Transmit \/ Delimiter \/ (\E i \in Ids : PeerConnect(i) \/ PeerData(i) \/ PeerHangUp(i)) \/ UNCHANGED vars
        BY <4>2 DEF ServerTask, ServerPermit, ServerAccept, ServerSpawn, SlipSockFree, CloseSend, Release,
                    FreeTest, FreeBlock, FreeQueue, FreeUsed, FreeSignal, Transmit, Delimiter, PeerConnect, PeerData, PeerHangUp, PeerSends, FrameEnds, NextBlock,
                    vars, sockVars
      <4>3. ASSUME NEW u \in Clients, ClientTask(u) PROVE sid' = sid
        BY <4>3 DEF ClientTask, ClientRecv, ClientSend, ClientClose, SlipSockRecv, RecvTest, RecvGet,
                  RecvWait, RecvUsed, RecvCopy, RecvFree, RecvNull, CloseStart, SlipSockFree, CloseSend, Release,
                  FreeTest, FreeBlock, FreeQueue, FreeUsed, FreeSignal, sockVars
      <4> QED
        BY <4>1, <4>2, <4>3 DEF Next
    <3> QED
      BY <3>1
  <2> QED
    BY <2>1, <2>2
<1>1. ASSUME NEW t \in Tasks, at[t] \in Sockets, pc[t] \in HoldPcs(t), t # Rx \/ pc[Rx] # "name"
      PROVE  sid'[at[t]] = sid[at[t]]
  BY <1>0, <1>1 DEF Holds
<1>2. /\ pc[Rx] \in {"offer"} \cup (FreePcs \ {"free_signal"}) => at[Rx] \in Sockets /\ sid'[at[Rx]] = sid[at[Rx]]
      /\ \A t \in Tasks \ {Rx} : pc[t] \in {"close", "spawn"} \cup (FreePcs \ {"free_signal"}) =>
                                at[t] \in Sockets /\ sid'[at[t]] = sid[at[t]]
  <2>1. ASSUME pc[Rx] \in {"offer"} \cup (FreePcs \ {"free_signal"})
        PROVE  at[Rx] \in Sockets /\ sid'[at[Rx]] = sid[at[Rx]]
    <3>1. pc[Rx] \in HoldPcs(Rx) /\ at[Rx] \in Sockets
      BY <2>1, TasksApart DEF Handles, RxHandle, HoldPcs, FreePcs
    <3> QED
      BY <1>1, <2>1, <3>1, TasksApart DEF FreePcs
  <2>2. ASSUME NEW t \in Tasks \ {Rx}, pc[t] \in {"close", "spawn"} \cup (FreePcs \ {"free_signal"})
        PROVE  at[t] \in Sockets /\ sid'[at[t]] = sid[at[t]]
    <3>1. pc[t] \in HoldPcs(t) /\ at[t] \in Sockets
      BY <2>2 DEF Handles, TaskHandle, HoldPcs, FreePcs
    <3> QED
      BY <1>1, <3>1
  <2> QED
    BY <2>1, <2>2
<1> DEFINE Mine(t) == pc[t] \in FreePcs \ {"free_signal"} => closeId[t] = sid[at[t]]
           Its == /\ pc[Rx] = "offer" => sid[at[Rx]] = cur.id
                  /\ pc[Rx] \in {"new", "name", "offer"} \cup FreePcs => cur.cmd = "Connect"
                  /\ pc[Rx] \in FreePcs \ {"free_signal"} => sid[at[Rx]] = cur.id
<1>3. ASSUME NEW t \in Tasks \ {Rx}, pc'[t] = pc[t], at'[t] = at[t], closeId'[t] = closeId[t]
      PROVE  Mine(t)'
  BY <1>2, <1>3 DEF Closes
<1>4. ASSUME pc'[Rx] = pc[Rx], at'[Rx] = at[Rx], cur' = cur
      PROVE  Its'
  BY <1>2, <1>4 DEF Closes, FreePcs
<1>5. ASSUME NEW t \in Tasks \ {Rx}, SlipSockFree(t)
      PROVE  /\ Mine(t)' /\ cur' = cur
             /\ \A u \in Tasks \ {t} : pc'[u] = pc[u] /\ at'[u] = at[u] /\ closeId'[u] = closeId[u]
  <2>1. /\ cur' = cur /\ closeId' = closeId
        /\ \A u \in Tasks \ {t} : pc'[u] = pc[u] /\ at'[u] = at[u]
    BY <1>5 DEF SlipSockFree, FreeTest, FreeBlock, FreeQueue, FreeUsed, FreeSignal, Goto, taskVars, PcTypes, Handles
  <2>2. \/ pc'[t] \in {"free_signal", "close_send"}
        \/ at'[t] = at[t] /\ pc[t] \in FreePcs \ {"free_signal"}
    BY <1>5 DEF SlipSockFree, FreeTest, FreeBlock, FreeQueue, FreeUsed, FreeSignal, Goto, FreePcs, PcTypes
  <2>3. Mine(t)'
    BY <1>2, <2>1, <2>2 DEF Closes, FreePcs
  <2> QED
    BY <2>1, <2>3
<1>6. CASE RxTask
  <2>1. \A t \in Tasks \ {Rx} : pc'[t] = pc[t] /\ at'[t] = at[t] /\ closeId'[t] = closeId[t]
    BY <1>6, RxHandles
  <2>2. Its'
    <3>1. CASE RxDispatch
      <4>1. \/ \E to \in {"done", "refuse", "push"} : pc' = [pc EXCEPT ![Rx] = to]
            \/ pc' = [pc EXCEPT ![Rx] = "new"] /\ cur.cmd = "Connect" /\ cur' = cur
        BY <3>1 DEF RxDispatch, NoHangUp
      <4> QED
        BY <4>1, TasksApart DEF PcTypes, FreePcs
    <3>5. CASE RxNew
      <4>1. cur' = cur /\ pc[Rx] = "new" /\ pc'[Rx] = "name"
        BY <3>5, TasksApart DEF RxNew, Goto, PcTypes
      <4> QED
        BY <4>1 DEF Closes, FreePcs
    <3>6. CASE RxName
      <4>1. /\ cur' = cur /\ pc[Rx] = "name" /\ pc'[Rx] = "offer" /\ at' = at
            /\ at[Rx] \in Sockets /\ sid' = [sid EXCEPT ![at[Rx]] = cur.id]
        BY <3>6, TasksApart DEF RxName, Goto, PcTypes, Handles, RxHandle
      <4> QED
        BY <4>1 DEF Closes, FreePcs, SockTypes
    <3>2. CASE RxOffer
      <4>1. /\ at' = at /\ cur' = cur /\ pc[Rx] = "offer" /\ pc'[Rx] \in {"done", "free_test"}
        BY <3>2, TasksApart DEF RxOffer, PcTypes
      <4> QED
        BY <1>2, <4>1 DEF Closes, FreePcs
    <3>3. CASE RxGet \/ RxPush \/ RxSignal \/ RxRefuse \/ RxDone
      <4>1. pc'[Rx] \notin {"new", "name", "offer"} \cup FreePcs
        BY <3>3, TasksApart DEF RxGet, RxPush, RxSignal, RxRefuse, RxDone, Goto, PcTypes, FreePcs
      <4> QED
        BY <4>1
    <3>4. CASE SlipSockFree(Rx)
      <4>1. /\ cur' = cur /\ pc[Rx] \in FreePcs /\ pc'[Rx] \notin {"new", "name", "offer"}
            /\ \/ pc'[Rx] \in {"free_signal", "refuse", "done"}
               \/ at'[Rx] = at[Rx] /\ pc[Rx] \in FreePcs \ {"free_signal"}
        BY <3>4, TasksApart DEF SlipSockFree, FreeTest, FreeBlock, FreeQueue, FreeUsed, FreeSignal, Goto, FreePcs, PcTypes
      <4> QED
        BY <1>2, <4>1 DEF Closes, FreePcs
    <3> QED
      BY <1>6, <3>1, <3>2, <3>3, <3>4, <3>5, <3>6 DEF RxTask
  <2> QED
    BY <1>3, <2>1, <2>2 DEF Closes
<1>7. CASE ServerTask
  <2>1. CASE SlipSockFree(Server)
    BY <1>3, <1>4, <1>5, <2>1, TasksApart DEF Closes
  <2>2. CASE ServerPermit \/ ServerAccept \/ CloseSend(Server) \/ Release(Server)
    <3>1. /\ pc'[Server] \notin FreePcs /\ cur' = cur
          /\ \A u \in Tasks \ {Server} : pc'[u] = pc[u] /\ at'[u] = at[u] /\ closeId'[u] = closeId[u]
      BY <2>2, TasksApart DEF ServerPermit, ServerAccept, CloseSend, Release, Goto, FreePcs, taskVars, PcTypes, Handles
    <3> QED
      BY <1>3, <1>4, <3>1, TasksApart DEF Closes
  <2>3. CASE ServerSpawn
    <3>1. cur' = cur /\ pc[Server] = "spawn"
      BY <2>3 DEF ServerSpawn
    <3>2. ASSUME NEW t \in Clients, pc' = [pc EXCEPT ![t] = "act", ![Server] = "permit"],
                 at' = [at EXCEPT ![t] = at[Server], ![Server] = NONE], closeId' = closeId
          PROVE  Closes'
      <4>1. /\ pc'[Server] \notin FreePcs /\ pc'[t] \notin FreePcs
            /\ \A u \in Tasks \ {Server, t} : pc'[u] = pc[u] /\ at'[u] = at[u] /\ closeId'[u] = closeId[u]
        BY <3>2, TasksApart DEF PcTypes, Handles, FreePcs
      <4> QED
        BY <1>3, <1>4, <3>1, <4>1, TasksApart DEF Closes
    <3>3. CASE /\ pc' = [pc EXCEPT ![Server] = "free_test"] /\ at' = at
               /\ closeId' = [closeId EXCEPT ![Server] = sid[at[Server]]]
      <4>1. /\ closeId'[Server] = sid'[at'[Server]]
            /\ \A u \in Tasks \ {Server} : pc'[u] = pc[u] /\ at'[u] = at[u] /\ closeId'[u] = closeId[u]
        BY <1>2, <3>1, <3>3, TasksApart DEF PcTypes, Handles
      <4> QED
        BY <1>3, <1>4, <3>1, <4>1, TasksApart DEF Closes
    <3> QED
      BY <2>3, <3>2, <3>3 DEF ServerSpawn
  <2> QED
    BY <1>7, <2>1, <2>2, <2>3 DEF ServerTask
<1>8. ASSUME NEW t \in Clients, ClientTask(t) PROVE Closes'
  <2>1. CASE SlipSockFree(t)
    BY <1>3, <1>4, <1>5, <2>1, TasksApart DEF Closes
  <2>2. CASE CloseStart(t)
    <3>1. /\ closeId'[t] = sid'[at'[t]] /\ cur' = cur
          /\ \A u \in Tasks \ {t} : pc'[u] = pc[u] /\ at'[u] = at[u] /\ closeId'[u] = closeId[u]
      BY <1>2, <2>2, TasksApart DEF CloseStart, Goto, PcTypes, Handles
    <3> QED
      BY <1>3, <1>4, <3>1, TasksApart DEF Closes
  <2>3. CASE ~SlipSockFree(t) /\ ~CloseStart(t)
    <3>1. /\ pc'[t] \notin FreePcs /\ cur' = cur /\ at' = at
          /\ \A u \in Tasks \ {t} : pc'[u] = pc[u] /\ closeId'[u] = closeId[u]
      BY <1>8, <2>3, TasksApart DEF Handles, ClientTask, ClientRecv, ClientSend, ClientClose, SlipSockRecv, RecvTest, RecvGet,
              RecvWait, RecvUsed, RecvCopy, RecvFree, RecvNull, CloseSend, Release, Goto, FreePcs, taskVars, PcTypes
    <3> QED
      BY <1>3, <1>4, <3>1, TasksApart DEF Closes
  <2> QED
    BY <2>1, <2>2, <2>3
<1>9. CASE Transmit \/ Delimiter \/ (\E i \in Ids : PeerConnect(i) \/ PeerData(i) \/ PeerHangUp(i)) \/ UNCHANGED vars
  <2>1. UNCHANGED <<pc, at, closeId, cur>>
    BY <1>9 DEF Transmit, Delimiter, PeerConnect, PeerData, PeerHangUp, PeerSends, FrameEnds, NextBlock, vars, taskVars
  <2> QED
    BY <1>3, <1>4, <2>1 DEF Closes
<1> QED
  BY <1>6, <1>7, <1>8, <1>9 DEF Next

\* What a step does to the news about one connection.  Only these places
\* matter; a step that leaves all but one alone is easily seen to keep it.
LEMMA NewsKept ==
  ASSUME Types, Polite, Closes, [Next]_vars, NEW i \in Ids, i \notin untold', News(i),
         peer[i] = "open", peer'[i] = "open"
  PROVE  News(i)'
<1> USE DEF Types, Polite
<1>1. ASSUME used' = used, sid' = sid,
             \/ pc'[Rx] \notin {"new", "name"}
             \/ pc[Rx] \in {"new", "name"} /\ at'[Rx] = at[Rx]
      PROVE  NamedOf(i) \subseteq NamedOf(i)'
  BY <1>1 DEF NamedOf, Named, SocketOf
<1>3. ASSUME rxq' = rxq, txq' = txq, cur' = cur, used' = used, sid' = sid,
             pc'[Rx] = pc[Rx], at'[Rx] = at[Rx],
             \A t \in Tasks \ {Rx} : Closing(t, i) => Closing(t, i)'
      PROVE  News(i)'
  <2>1. NamedOf(i) \subseteq NamedOf(i)'
    BY <1>1, <1>3
  <2>2. Heard(i) => Heard(i)'
    BY <1>3 DEF Heard
  <2>3. \A t \in Tasks : Closing(t, i) => t # Rx
    BY DEF Closing
  <2> QED
    BY <1>3, <2>1, <2>2, <2>3 DEF News
<1>4. CASE RxTask
  <2>1. \A t \in Tasks \ {Rx} : pc'[t] = pc[t] /\ closeId'[t] = closeId[t]
    BY <1>4, RxHandles
  <2>2. \A t \in Tasks : Closing(t, i) => Closing(t, i)'
    BY <2>1 DEF Closing
  <2>3. CASE RxGet
    <3>1. /\ pc'[Rx] = "dispatch" /\ cur' = Head(rxq) /\ rxq' = Tail(rxq) /\ rxq # <<>> /\ pc[Rx] = "get"
          /\ txq' = txq /\ used' = used /\ sid' = sid
      BY <2>3, TasksApart DEF RxGet, Goto, PcTypes, sockVars
    <3>2. NamedOf(i) \subseteq NamedOf(i)' /\ ~Heard(i)
      BY <1>1, <3>1 DEF Heard, HeardPcs, FreePcs
    <3>3. \A k \in DOMAIN rxq : rxq[k] = cur' \/ \E n \in DOMAIN rxq' : rxq[k] = rxq'[n]
      <4>1. ASSUME NEW k \in DOMAIN rxq, k # 1 PROVE k - 1 \in DOMAIN rxq' /\ rxq[k] = rxq'[k - 1]
        BY <3>1, <4>1 DEF FrameTypes
      <4>2. Head(rxq) = rxq[1]
        BY <3>1 DEF FrameTypes
      <4> QED
        BY <3>1, <4>1, <4>2
    <3>4. (\E k \in DOMAIN rxq : rxq[k].id = i /\ rxq[k].cmd # "Damaged") =>
            Heard(i)' \/ \E k \in DOMAIN rxq' : rxq'[k].id = i /\ rxq'[k].cmd # "Damaged"
      BY <3>1, <3>3 DEF Heard, HeardPcs
    <3> QED
      BY <2>2, <3>1, <3>2, <3>4 DEF News
  <2>4. CASE RxDispatch
    <3>1. rxq' = rxq /\ txq' = txq /\ cur' = cur
      BY <2>4 DEF RxDispatch, poolVars
    <3>2. CASE used' = used
      <4>1. sid' = sid /\ pc'[Rx] \notin {"new", "name"} /\ pc[Rx] = "dispatch"
        <5>1. \E to \in {"done", "refuse", "push", "free_test"} : pc' = [pc EXCEPT ![Rx] = to]
          BY <2>4, <3>2 DEF RxDispatch, SockTypes
        <5> QED
          BY <2>4, <5>1, TasksApart DEF RxDispatch, PcTypes
      <4>2. NamedOf(i) \subseteq NamedOf(i)'
        BY <1>1, <3>2, <4>1
      <4>3. Heard(i) => Heard(i)' \/ NamedOf(i) # {}
        <5>1. \/ cur.cmd = "Damaged"
              \/ pc' = [pc EXCEPT ![Rx] = "refuse"]
              \/ SocketOf(cur.id) # {}
          BY <2>4, <3>2 DEF RxDispatch, SockTypes
        <5>2. SocketOf(cur.id) # {} => NamedOf(cur.id) # {}
          BY <4>1 DEF NamedOf, Named, SocketOf
        <5> QED
          BY <3>1, <5>1, <5>2, TasksApart DEF Heard, HeardPcs, PcTypes
      <4> QED
        BY <2>2, <3>1, <4>2, <4>3 DEF News
    <3>3. CASE used' # used
      <4>1. PICK s \in Sockets : /\ ~used[s] /\ used' = [used EXCEPT ![s] = TRUE] /\ sid' = sid
                                 /\ at' = [at EXCEPT ![Rx] = s] /\ pc' = [pc EXCEPT ![Rx] = "new"]
        BY <2>4, <3>3 DEF RxDispatch
      <4>2. at'[Rx] = s /\ pc'[Rx] = "new"
        BY <4>1, TasksApart DEF PcTypes, Handles
      <4>3. Heard(i) => Heard(i)'
        BY <3>1, <4>2 DEF Heard, HeardPcs
      <4>4. NamedOf(i) \subseteq NamedOf(i)'
        <5>1. \A v \in Sockets : used[v] => used'[v] /\ v # s
          BY <4>1 DEF SockTypes
        <5> QED
          BY <4>1, <4>2, <5>1 DEF NamedOf, Named, SocketOf
      <4> QED
        BY <2>2, <3>1, <4>3, <4>4 DEF News
    <3> QED
      BY <3>2, <3>3
  <2>8. CASE RxNew
    <3>1. /\ rxq' = rxq /\ txq' = txq /\ cur' = cur /\ used' = used /\ sid' = sid
          /\ pc[Rx] = "new" /\ pc'[Rx] = "name" /\ at' = at
      BY <2>8, TasksApart DEF RxNew, Goto, poolVars, PcTypes
    <3>2. NamedOf(i) \subseteq NamedOf(i)' /\ (Heard(i) => Heard(i)')
      BY <1>1, <3>1 DEF Heard, HeardPcs
    <3> QED
      BY <2>2, <3>1, <3>2 DEF News
  <2>9. CASE RxName
    <3>1. /\ rxq' = rxq /\ txq' = txq /\ used' = used /\ sid' = [sid EXCEPT ![at[Rx]] = cur.id]
          /\ pc[Rx] = "name" /\ pc'[Rx] = "offer" /\ at[Rx] \in Sockets
      BY <2>9, TasksApart DEF RxName, Goto, poolVars, PcTypes, Handles, RxHandle
    <3>2. used[at[Rx]]
      BY <3>1, TasksApart DEF Owned, Holds, HoldPcs
    <3>3. Heard(i) => at[Rx] \in NamedOf(i)'
      BY <3>1, <3>2 DEF Heard, NamedOf, Named, SocketOf, SockTypes
    <3>4. NamedOf(i) \subseteq NamedOf(i)'
      BY <3>1 DEF NamedOf, Named, SocketOf, SockTypes
    <3> QED
      BY <2>2, <3>1, <3>3, <3>4 DEF News
  <2>5. CASE RxOffer \/ RxPush \/ RxSignal \/ RxDone
    <3>1. /\ rxq' = rxq /\ txq' = txq /\ used' = used /\ sid' = sid
          /\ pc[Rx] \notin HeardPcs /\ pc'[Rx] \notin {"new", "name"}
      BY <2>5, TasksApart DEF RxOffer, RxPush, RxSignal, RxDone, Goto, HeardPcs, FreePcs, poolVars, sockVars, PcTypes
    <3>2. NamedOf(i) \subseteq NamedOf(i)' /\ ~Heard(i)
      BY <1>1, <3>1 DEF Heard
    <3> QED
      BY <2>2, <3>1, <3>2 DEF News
  <2>6. CASE RxRefuse
    <3>1. /\ rxq' = rxq /\ used' = used /\ sid' = sid /\ cur \in Frame /\ pc'[Rx] = "get"
          /\ txq' = Append(txq, [cur EXCEPT !.cmd = "Disconnect"])
      BY <2>6, TasksApart DEF RxRefuse, Goto, sockVars, FrameTypes, PcTypes
    <3>2. NamedOf(i) \subseteq NamedOf(i)'
      BY <1>1, <3>1
    <3> DEFINE d == [cur EXCEPT !.cmd = "Disconnect"]
    <3>3. d.id = cur.id /\ d.cmd = "Disconnect" /\ d \in Frame
      BY <3>1, FrameFacts DEF Frame
    <3>4. /\ Len(txq) + 1 \in DOMAIN txq' /\ txq'[Len(txq) + 1] = d
          /\ \A k \in DOMAIN txq : k \in DOMAIN txq' /\ txq'[k] = txq[k]
      BY <3>1, <3>3 DEF FrameTypes
    <3>5. Heard(i) => \E k \in DOMAIN txq' : txq'[k].id = i /\ txq'[k].cmd = "Disconnect"
      BY <3>3, <3>4 DEF Heard
    <3>6. (\E k \in DOMAIN txq : txq[k].id = i /\ txq[k].cmd = "Disconnect") =>
             \E k \in DOMAIN txq' : txq'[k].id = i /\ txq'[k].cmd = "Disconnect"
      BY <3>4
    <3> QED
      BY <2>2, <3>1, <3>2, <3>5, <3>6 DEF News
  <2>7. CASE SlipSockFree(Rx)
    <3>1. /\ rxq' = rxq /\ txq' = txq /\ cur' = cur /\ sid' = sid
          /\ pc[Rx] \in FreePcs /\ cur.cmd = "Connect"
      BY <2>7 DEF SlipSockFree, FreeTest, FreeBlock, FreeQueue, FreeUsed, FreeSignal, Goto, FreePcs, poolVars, sockVars, Closes
    <3>2. pc'[Rx] \in {"refuse"} \cup FreePcs /\ pc'[Rx] \notin {"new", "name"}
      BY <2>7, <3>1, TasksApart DEF SlipSockFree, FreeTest, FreeBlock, FreeQueue, FreeUsed, FreeSignal, Goto, FreePcs, PcTypes
    <3>3. Heard(i) => Heard(i)'
      BY <3>1, <3>2 DEF Heard, HeardPcs
    <3>4. CASE FreeUsed(Rx)
      <4>1. used' = [used EXCEPT ![at[Rx]] = FALSE] /\ sid[at[Rx]] = cur.id
        BY <3>4 DEF FreeUsed, Goto, Closes, FreePcs
      <4>2. cur.id = i => Heard(i)'
        BY <3>1, <3>2 DEF Heard, HeardPcs
      <4>3. cur.id # i => NamedOf(i) \subseteq NamedOf(i)'
        BY <3>1, <3>2, <4>1 DEF NamedOf, Named, SocketOf, SockTypes
      <4> QED
        BY <2>2, <3>1, <3>3, <4>2, <4>3 DEF News
    <3>5. CASE ~FreeUsed(Rx)
      <4>1. used' = used
        BY <2>7, <3>5 DEF SlipSockFree, FreeTest, FreeBlock, FreeQueue, FreeSignal, sockVars
      <4>2. NamedOf(i) \subseteq NamedOf(i)'
        BY <1>1, <3>1, <3>2, <4>1
      <4> QED
        BY <2>2, <3>1, <3>3, <4>2 DEF News
    <3> QED
      BY <3>4, <3>5
  <2> QED
    BY <1>4, <2>3, <2>4, <2>5, <2>6, <2>7, <2>8, <2>9 DEF RxTask
<1>5. ASSUME NEW t \in Tasks \ {Rx}, SlipSockFree(t) PROVE News(i)'
  <2>1. /\ rxq' = rxq /\ txq' = txq /\ cur' = cur /\ sid' = sid /\ closeId' = closeId
        /\ pc[t] \in FreePcs /\ pc'[t] \in FreePcs \cup {"close_send"}
        /\ \A u \in Tasks \ {t} : pc'[u] = pc[u] /\ at'[u] = at[u]
    BY <1>5 DEF SlipSockFree, FreeTest, FreeBlock, FreeQueue, FreeUsed, FreeSignal, Goto, FreePcs, taskVars, poolVars, sockVars,
                PcTypes, Handles
  <2>0. pc'[Rx] = pc[Rx] /\ at'[Rx] = at[Rx]
    BY <2>1, TasksApart
  <2>2. \A u \in Tasks : Closing(u, i) => Closing(u, i)'
    BY <2>1 DEF Closing
  <2>3. Heard(i) => Heard(i)'
    BY <2>1, TasksApart DEF Heard
  <2>4. CASE FreeUsed(t)
    <3>1. used' = [used EXCEPT ![at[t]] = FALSE] /\ closeId[t] = sid[at[t]]
      BY <2>4 DEF FreeUsed, Goto, Closes, FreePcs
    <3>2. closeId[t] = i => Closing(t, i)'
      BY <2>1 DEF Closing
    <3>3. closeId[t] # i => NamedOf(i) \subseteq NamedOf(i)'
      BY <2>0, <2>1, <3>1 DEF NamedOf, Named, SocketOf, SockTypes
    <3> QED
      BY <2>1, <2>2, <2>3, <3>2, <3>3 DEF News
  <2>5. CASE ~FreeUsed(t)
    <3>1. used' = used
      BY <1>5, <2>5 DEF SlipSockFree, FreeTest, FreeBlock, FreeQueue, FreeSignal, sockVars
    <3>2. NamedOf(i) \subseteq NamedOf(i)'
      BY <1>1, <2>0, <2>1, <3>1
    <3> QED
      BY <2>1, <2>2, <2>3, <3>2 DEF News
  <2> QED
    BY <2>4, <2>5
<1>6. ASSUME NEW t \in Tasks \ {Rx}, CloseSend(t) PROVE News(i)'
  <2>1. /\ rxq' = rxq /\ cur' = cur /\ sid' = sid /\ used' = used /\ at' = at
        /\ \A u \in Tasks \ {t} : pc'[u] = pc[u] /\ closeId'[u] = closeId[u]
    BY <1>6 DEF CloseSend, Goto, sockVars, PcTypes, Handles
  <2>2. NamedOf(i) \subseteq NamedOf(i)'
    BY <1>1, <2>1, TasksApart
  <2>3. Heard(i) => Heard(i)'
    BY <2>1, TasksApart DEF Heard
  <2>4. \A u \in Tasks \ {t} : Closing(u, i) => Closing(u, i)'
    BY <2>1 DEF Closing
  <2>5. CASE txq' = txq /\ untold' = untold \cup {closeId[t]}
    <3>1. closeId[t] # i
      BY <2>5
    <3> QED
      BY <2>1, <2>2, <2>3, <2>4, <2>5, <3>1 DEF News, Closing
  <2>6. CASE \E b \in Blocks : txq' = Append(txq, [blk |-> b, cmd |-> "Disconnect", id |-> closeId[t]])
    <3>1. PICK b \in Blocks : txq' = Append(txq, [blk |-> b, cmd |-> "Disconnect", id |-> closeId[t]])
      BY <2>6
    <3> DEFINE d == [blk |-> b, cmd |-> "Disconnect", id |-> closeId[t]]
    <3>2. d.id = closeId[t] /\ d.cmd = "Disconnect"
      OBVIOUS
    <3>3. /\ Len(txq) + 1 \in DOMAIN txq' /\ txq'[Len(txq) + 1] = d
          /\ \A k \in DOMAIN txq : k \in DOMAIN txq' /\ txq'[k] = txq[k]
      BY <3>1 DEF FrameTypes
    <3>4. Closing(t, i) => \E k \in DOMAIN txq' : txq'[k].id = i /\ txq'[k].cmd = "Disconnect"
      BY <3>2, <3>3 DEF Closing
    <3>5. (\E k \in DOMAIN txq : txq[k].id = i /\ txq[k].cmd = "Disconnect") =>
             \E k \in DOMAIN txq' : txq'[k].id = i /\ txq'[k].cmd = "Disconnect"
      BY <3>3
    <3> QED
      BY <2>1, <2>2, <2>3, <2>4, <3>4, <3>5 DEF News
  <2> QED
    BY <1>6, <2>5, <2>6 DEF CloseSend
<1>7. CASE ServerPermit \/ ServerAccept \/ ServerSpawn \/ Release(Server)
  <2>1. /\ rxq' = rxq /\ txq' = txq /\ cur' = cur /\ used' = used /\ sid' = sid
        /\ pc'[Rx] = pc[Rx] /\ at'[Rx] = at[Rx]
    BY <1>7, TasksApart DEF ServerPermit, ServerAccept, ServerSpawn, Release, Goto, poolVars, sockVars, PcTypes, Handles
  <2>2. \A t \in Tasks \ {Rx} : Closing(t, i) => Closing(t, i)'
    <3>1. pc[Server] \notin FreePcs \cup {"close_send"}
      BY <1>7, TasksApart DEF ServerPermit, ServerAccept, ServerSpawn, Release, Goto, FreePcs
    <3>2. \A t \in Tasks \ {Server} : pc'[t] = pc[t] \/ pc[t] = "dead"
      BY <1>7, TasksApart DEF ServerPermit, ServerAccept, ServerSpawn, Release, Goto, PcTypes
    <3>3. \A t \in Tasks \ {Server} : closeId'[t] = closeId[t]
      BY <1>7, TasksApart DEF ServerPermit, ServerAccept, ServerSpawn, Release, taskVars, Handles
    <3> QED
      BY <3>1, <3>2, <3>3 DEF Closing, FreePcs
  <2> QED
    BY <1>3, <2>1, <2>2
<1>8. ASSUME NEW t \in Clients, ClientSend(t) PROVE News(i)'
  <2>1. /\ rxq' = rxq /\ cur' = cur /\ sid' = sid /\ used' = used /\ closeId' = closeId /\ pc[t] = "act" /\ at' = at
        /\ \A u \in Tasks \ {t} : pc'[u] = pc[u]
    BY <1>8 DEF ClientSend, sockVars, taskVars, PcTypes
  <2>2. NamedOf(i) \subseteq NamedOf(i)'
    BY <1>1, <2>1, TasksApart
  <2>3. Heard(i) => Heard(i)'
    BY <2>1, TasksApart DEF Heard
  <2>4. \A u \in Tasks : Closing(u, i) => Closing(u, i)'
    BY <2>1 DEF Closing, FreePcs
  <2>5. (\E k \in DOMAIN txq : txq[k].id = i /\ txq[k].cmd = "Disconnect") =>
           \E k \in DOMAIN txq' : txq'[k].id = i /\ txq'[k].cmd = "Disconnect"
    <3>1. txq' = txq \/ \E d : txq' = Append(txq, d)
      BY <1>8 DEF ClientSend
    <3> QED
      BY <3>1 DEF FrameTypes
  <2> QED
    BY <2>1, <2>2, <2>3, <2>4, <2>5 DEF News
<1>9. ASSUME NEW t \in Clients, ClientTask(t), ~ClientSend(t), ~SlipSockFree(t), ~CloseSend(t) PROVE News(i)'
  <2>1. /\ rxq' = rxq /\ txq' = txq /\ cur' = cur /\ used' = used /\ sid' = sid
        /\ pc'[Rx] = pc[Rx] /\ at'[Rx] = at[Rx]
    BY <1>9, TasksApart DEF ClientTask, ClientRecv, ClientClose, SlipSockRecv, RecvTest, RecvGet,
              RecvWait, RecvUsed, RecvCopy, RecvFree, RecvNull, CloseStart, Release, Goto, poolVars, sockVars, PcTypes
  <2>2. pc[t] \notin FreePcs \cup {"close_send"}
    BY <1>9, TasksApart DEF ClientTask, ClientRecv, ClientClose, SlipSockRecv, RecvTest, RecvGet,
              RecvWait, RecvUsed, RecvCopy, RecvFree, RecvNull, CloseStart, Release, Goto, FreePcs
  <2>3. \A u \in Tasks \ {t} : pc'[u] = pc[u] /\ closeId'[u] = closeId[u]
    BY <1>9, TasksApart DEF ClientTask, ClientRecv, ClientClose, SlipSockRecv, RecvTest, RecvGet,
              RecvWait, RecvUsed, RecvCopy, RecvFree, RecvNull, CloseStart, Release, Goto, taskVars, PcTypes, Handles
  <2>4. \A u \in Tasks \ {Rx} : Closing(u, i) => Closing(u, i)'
    BY <2>2, <2>3 DEF Closing
  <2> QED
    BY <1>3, <2>1, <2>4
<1>10. CASE Transmit
  <2>1. /\ txq # <<>> /\ txq' = Tail(txq)
        /\ UNCHANGED <<rxq, cur, used, sid, pc, at, closeId>>
    BY <1>10 DEF Transmit, sockVars, taskVars
  <2>2. ~(Head(txq).id = i /\ Head(txq).cmd = "Disconnect")
    BY <1>10 DEF Transmit, OtherTypes
  <2>3. \A k \in DOMAIN txq : txq[k] = Head(txq) \/ \E n \in DOMAIN txq' : txq'[n] = txq[k]
    <3>1. ASSUME NEW k \in DOMAIN txq, k # 1 PROVE k - 1 \in DOMAIN txq' /\ txq'[k - 1] = txq[k]
      BY <2>1, <3>1 DEF FrameTypes
    <3>2. Head(txq) = txq[1]
      BY <2>1 DEF FrameTypes
    <3> QED
      BY <3>1, <3>2
  <2>4. NamedOf(i) \subseteq NamedOf(i)'
    BY <1>1, <2>1, TasksApart
  <2>5. (\E k \in DOMAIN txq : txq[k].id = i /\ txq[k].cmd = "Disconnect") =>
           \E k \in DOMAIN txq' : txq'[k].id = i /\ txq'[k].cmd = "Disconnect"
    BY <2>2, <2>3
  <2> QED
    BY <2>1, <2>4, <2>5 DEF News, Heard, Closing
<1>11. CASE Delimiter \/ (\E j \in Ids : PeerConnect(j) \/ PeerData(j) \/ PeerHangUp(j)) \/ UNCHANGED vars
  <2>1. /\ UNCHANGED <<txq, cur, used, sid, pc, at, closeId>>
        /\ rxq' = rxq \/ \E d : rxq' = Append(rxq, d)
    BY <1>11 DEF Delimiter, PeerConnect, PeerData, PeerHangUp, PeerSends, FrameEnds, vars, poolVars, sockVars, taskVars
  <2>2. \A k \in DOMAIN rxq : k \in DOMAIN rxq' /\ rxq'[k] = rxq[k]
    BY <2>1, SMTT(30) DEF FrameTypes
  <2>3. NamedOf(i) \subseteq NamedOf(i)'
    BY <1>1, <2>1, TasksApart
  <2> QED
    BY <2>1, <2>2, <2>3 DEF News, Heard, Closing
<1> QED
  BY <1>4, <1>5, <1>6, <1>7, <1>8, <1>9, <1>10, <1>11, TasksApart DEF Next, ServerTask, ClientTask

\* A frame that gets through is news of its connection.
LEMMA NewsArrives ==
  ASSUME Types, "Disconnect" \notin Sends, NEW i \in Ids, PeerConnect(i) \/ PeerData(i) \/ PeerHangUp(i),
         i \notin untold', i \in untold \/ peer[i] # "open"
  PROVE  News(i)'
<1>1. PICK c \in {"Connect", "Data", "Unknown"} :
        /\ rxblk # NONE /\ FrameEnds(c, i)
  <2>1. \A c \in Sends \ {"Disconnect"} : c \in {"Data", "Unknown"}
    BY SockAssumption
  <2>2. CASE PeerConnect(i)
    BY <2>2 DEF PeerConnect, PeerSends
  <2>3. CASE PeerData(i)
    BY <2>1, <2>3 DEF PeerData, PeerSends
  <2> QED
    BY <2>2, <2>3 DEF PeerHangUp
<1> DEFINE f == [blk |-> rxblk, cmd |-> c, id |-> i]
<1>2. f.id = i /\ f.cmd # "Damaged"
  OBVIOUS
<1>3. Len(rxq) + 1 \in DOMAIN rxq' /\ rxq'[Len(rxq) + 1] = f
  BY <1>1 DEF FrameEnds, Types, FrameTypes
<1> QED
  BY <1>2, <1>3 DEF News

\* Only a frame of the peer opens a connection or heals one that is untold.
LEMMA NewsBegins ==
  ASSUME Types, [Next]_vars, NEW i \in Ids, peer'[i] = "open", i \notin untold',
         i \in untold \/ peer[i] # "open"
  PROVE  PeerConnect(i) \/ PeerData(i) \/ PeerHangUp(i)
<1> USE DEF Types
<1> SUFFICES ASSUME ~(PeerConnect(i) \/ PeerData(i) \/ PeerHangUp(i))
             PROVE  (peer'[i] = "open" => peer[i] = "open") /\ (i \in untold => i \in untold')
  OBVIOUS
<1>1. ASSUME NEW j \in Ids \ {i}, PeerConnect(j) \/ PeerData(j) \/ PeerHangUp(j)
      PROVE  peer'[i] = peer[i] /\ (i \in untold => i \in untold')
  BY <1>1 DEF PeerConnect, PeerData, PeerHangUp, PeerSends, OtherTypes
<1>2. CASE Transmit
  <2>1. peer' = [peer EXCEPT ![Head(txq).id] =
                   IF Head(txq).cmd = "Disconnect" /\ @ # "left" THEN "gone" ELSE @]
        /\ untold' = untold
    BY <1>2 DEF Transmit, taskVars
  <2> QED
    BY <2>1 DEF OtherTypes
<1>3. CASE RxTask \/ ServerTask \/ (\E t \in Clients : ClientTask(t)) \/ Delimiter \/ UNCHANGED vars
  <2>1. peer' = peer /\ untold \subseteq untold'
    <3>1. CASE RxTask \/ Delimiter \/ UNCHANGED vars
      BY <3>1 DEF RxTask, RxGet, RxDispatch, RxNew, RxName, RxOffer, RxPush, RxSignal, RxRefuse, RxDone, SlipSockFree,
                  FreeTest, FreeBlock, FreeQueue, FreeUsed, FreeSignal, Delimiter, vars, taskVars
    <3>2. CASE ServerTask
      BY <3>2 DEF ServerTask, ServerPermit, ServerAccept, ServerSpawn, SlipSockFree, CloseSend, Release,
                  FreeTest, FreeBlock, FreeQueue, FreeUsed, FreeSignal, taskVars
    <3>3. ASSUME NEW t \in Clients, ClientTask(t) PROVE peer' = peer /\ untold \subseteq untold'
      BY <3>3 DEF ClientTask, ClientRecv, ClientSend, ClientClose, SlipSockRecv, RecvTest, RecvGet,
                  RecvWait, RecvUsed, RecvCopy, RecvFree, RecvNull, CloseStart, SlipSockFree, CloseSend, Release,
                  FreeTest, FreeBlock, FreeQueue, FreeUsed, FreeSignal, taskVars
    <3> QED
      BY <1>3, <3>1, <3>2, <3>3
  <2> QED
    BY <2>1
<1> QED
  BY <1>1, <1>2, <1>3 DEF Next

\* As long as the peer does not hang up itself, it knows which connections
\* exist: one it holds open has a socket, or the news that it has not is
\* under way.  The exceptions, connections whose Connect was lost and those
\* closed while the pool was empty, last until a frame gets through.
THEOREM PeerIsTold ==
  ASSUME "Disconnect" \notin Sends
  PROVE  Spec => []PeerKnows
<1>1. Init => Informed
  BY InitInformed
<1>2. Types /\ Polite /\ Informed /\ [Next]_vars => Informed'
  <2> SUFFICES ASSUME Types, Polite, Informed, [Next]_vars,
                      NEW i \in Ids, i \notin untold', peer'[i] = "open"
               PROVE  News(i)'
    BY NextCloses DEF Informed
  <2>1. CASE i \in untold \/ peer[i] # "open"
    BY <2>1, NewsBegins, NewsArrives
  <2>2. CASE i \notin untold /\ peer[i] = "open"
    <3>1. Closes /\ News(i)
      BY <2>2 DEF Informed
    <3> QED
      BY <2>2, <3>1, NewsKept
  <2> QED
    BY <2>1, <2>2
<1>3. Informed => PeerKnows
  <2> SUFFICES ASSUME NEW i \in Ids, News(i) PROVE
        \/ \E s \in SocketOf(i) : Named(s)
        \/ \E k \in DOMAIN rxq : rxq[k].id = i /\ rxq[k].cmd # "Damaged"
        \/ cur.id = i /\ cur.cmd # "Damaged"
        \/ \E k \in DOMAIN txq : txq[k].id = i /\ txq[k].cmd = "Disconnect"
        \/ \E t \in Tasks : Closing(t, i)
    BY DEF Informed, PeerKnows
  <2> QED
    BY DEF News, Heard, NamedOf
<1> QED
  BY <1>1, <1>2, <1>3, PoliteInvariance, PTL DEF Spec

-----------------------------------------------------------------------------
(***************************************************************************)
(* Where the blocks are.  A block is with the receive interrupt, in the    *)
(* frame of a queue, in the hand of the receive task, in the hand of a     *)
(* client or in the queue of a socket; never in two of these places, and   *)
(* nowhere once it is freed.                                               *)
(***************************************************************************)
Kinds == {"rxb", "rx", "tx", "cur", "block", "queue"}
Places == Sockets \cup {NONE}

Past == {"recv_null", "free_queue", "free_used", "new"}

In(b, k, s) ==
  \/ k = "rxb" /\ s = NONE /\ rxblk = b
  \/ k = "rx" /\ s = NONE /\ \E j \in DOMAIN rxq : rxq[j].blk = b
  \/ k = "tx" /\ s = NONE /\ \E j \in DOMAIN txq : txq[j].blk = b
  \/ k = "cur" /\ s = NONE /\ cur.blk = b
  \/ k = "block" /\ s \in Sockets /\ sblock[s] = b /\ Live(s)
  \/ k = "queue" /\ s \in Sockets /\ \E j \in DOMAIN queue[s] : queue[s][j] = b

Apart ==
  \A b \in Blocks, k \in Kinds, s \in Places : In(b, k, s) =>
    b \in busy /\ \A l \in Kinds, u \in Places : In(b, l, u) => l = k /\ u = s

Distinct(q) == \A j, k \in DOMAIN q : q[j].blk = q[k].blk => j = k
Once(q) == \A j, k \in DOMAIN q : q[j] = q[k] => j = k

Rows == Distinct(rxq) /\ Distinct(txq) /\ \A s \in Sockets : Once(queue[s])

Placed == Apart /\ Rows

\* What a step does: blocks leave places, and at most one gets to a place.
Leave == \A c \in Blocks, k \in Kinds, s \in Places : In(c, k, s)' => In(c, k, s) /\ c \in busy'
Gets(b, k, s) ==
  /\ b \in busy'
  /\ \A c \in Blocks, l \in Kinds, u \in Places :
       In(c, l, u)' => (c # b /\ In(c, l, u) /\ c \in busy') \/ (c = b /\ l = k /\ u = s)

\* Blocks stay apart when they leave their places or one gets a new place.
LEMMA StepApart ==
  ASSUME Apart, Leave \/ \E b \in Blocks, k \in Kinds, s \in Places : Gets(b, k, s)
  PROVE  Apart'
<1>0. \A b \in Blocks, k \in Kinds, s \in Places : In(b, k, s) =>
        b \in busy /\ \A l \in Kinds, u \in Places : In(b, l, u) => l = k /\ u = s
  BY DEF Apart
<1> SUFFICES ASSUME NEW b \in Blocks, NEW k \in Kinds, NEW s \in Places, In(b, k, s)'
             PROVE  b \in busy' /\ \A l \in Kinds, u \in Places : In(b, l, u)' => l = k /\ u = s
  BY DEF Apart
<1>1. CASE Leave
  <2>1. \A c \in Blocks, l \in Kinds, u \in Places : In(c, l, u)' => In(c, l, u) /\ c \in busy'
    BY <1>1 DEF Leave
  <2> QED
    BY <1>0, <2>1
<1>2. CASE \E c \in Blocks, l \in Kinds, u \in Places : Gets(c, l, u)
  <2>1. PICK d \in Blocks, m \in Kinds, v \in Places : Gets(d, m, v)
    BY <1>2
  <2>2. /\ d \in busy'
        /\ \A c \in Blocks, l \in Kinds, u \in Places :
             In(c, l, u)' => (c # d /\ In(c, l, u) /\ c \in busy') \/ (c = d /\ l = m /\ u = v)
    BY <2>1 DEF Gets
  <2> QED
    BY <1>0, <2>2
<1> QED
  BY <1>1, <1>2

\* What a row of frames or blocks holds after an insertion and a removal.
LEMMA RowFacts ==
  ASSUME NEW q \in Seq(Frame)
  PROVE  /\ \A f \in Frame : \A b : (\E j \in DOMAIN Append(q, f) : Append(q, f)[j].blk = b)
                                     <=> f.blk = b \/ \E j \in DOMAIN q : q[j].blk = b
         /\ \A f \in Frame : Distinct(q) /\ (\A j \in DOMAIN q : q[j].blk # f.blk) => Distinct(Append(q, f))
         /\ q # <<>> =>
              /\ \E j \in DOMAIN q : q[j] = Head(q)
              /\ Distinct(q) =>
                   /\ Distinct(Tail(q))
                   /\ \A b : (\E j \in DOMAIN Tail(q) : Tail(q)[j].blk = b)
                              => b # Head(q).blk /\ \E j \in DOMAIN q : q[j].blk = b
<1>1. ASSUME NEW f \in Frame
      PROVE  /\ DOMAIN Append(q, f) = 1 .. Len(q) + 1 /\ DOMAIN q = 1 .. Len(q) /\ Len(q) \in Nat
             /\ Append(q, f)[Len(q) + 1] = f
             /\ \A j \in 1 .. Len(q) : Append(q, f)[j] = q[j]
  OBVIOUS
<1>2. ASSUME NEW f \in Frame, NEW b
      PROVE  (\E j \in DOMAIN Append(q, f) : Append(q, f)[j].blk = b)
               <=> f.blk = b \/ \E j \in DOMAIN q : q[j].blk = b
  BY <1>1
<1>3. ASSUME NEW f \in Frame, Distinct(q), \A j \in DOMAIN q : q[j].blk # f.blk
      PROVE  Distinct(Append(q, f))
  BY <1>1, <1>3 DEF Distinct
<1>4. ASSUME q # <<>>
      PROVE  /\ DOMAIN Tail(q) = 1 .. Len(q) - 1 /\ DOMAIN q = 1 .. Len(q) /\ Len(q) \in Nat \ {0}
             /\ Head(q) = q[1]
             /\ \A j \in 1 .. Len(q) - 1 : Tail(q)[j] = q[j + 1]
  BY <1>4
<1>5. ASSUME q # <<>>
      PROVE  \E j \in DOMAIN q : q[j] = Head(q)
  BY <1>4, <1>5
<1>6. ASSUME q # <<>>, Distinct(q)
      PROVE  /\ Distinct(Tail(q))
             /\ \A b : (\E j \in DOMAIN Tail(q) : Tail(q)[j].blk = b)
                         => b # Head(q).blk /\ \E j \in DOMAIN q : q[j].blk = b
  <2>1. Distinct(Tail(q))
    BY <1>4, <1>6 DEF Distinct
  <2>2. ASSUME NEW j \in DOMAIN Tail(q)
        PROVE  Tail(q)[j].blk # Head(q).blk /\ \E n \in DOMAIN q : q[n].blk = Tail(q)[j].blk
    BY <1>4, <1>6, <2>2 DEF Distinct
  <2> QED
    BY <2>1, <2>2
<1> QED
  BY <1>2, <1>3, <1>5, <1>6

\* The blocks of a queue after an append and after taking its head.
LEMMA QueueFacts ==
  ASSUME NEW q \in Seq(Blocks)
  PROVE  /\ \A e \in Blocks : \A b : (\E j \in DOMAIN Append(q, e) : Append(q, e)[j] = b)
                                      <=> e = b \/ \E j \in DOMAIN q : q[j] = b
         /\ \A e \in Blocks : Once(q) /\ (\A j \in DOMAIN q : q[j] # e) => Once(Append(q, e))
         /\ q # <<>> =>
              /\ \E j \in DOMAIN q : q[j] = Head(q)
              /\ Once(q) =>
                   /\ Once(Tail(q))
                   /\ \A b : (\E j \in DOMAIN Tail(q) : Tail(q)[j] = b)
                              => b # Head(q) /\ \E j \in DOMAIN q : q[j] = b
<1>1. ASSUME NEW e \in Blocks
      PROVE  /\ DOMAIN Append(q, e) = 1 .. Len(q) + 1 /\ DOMAIN q = 1 .. Len(q) /\ Len(q) \in Nat
             /\ Append(q, e)[Len(q) + 1] = e
             /\ \A j \in 1 .. Len(q) : Append(q, e)[j] = q[j]
  OBVIOUS
<1>2. ASSUME NEW e \in Blocks, NEW b
      PROVE  (\E j \in DOMAIN Append(q, e) : Append(q, e)[j] = b) <=> e = b \/ \E j \in DOMAIN q : q[j] = b
  BY <1>1
<1>3. ASSUME NEW e \in Blocks, Once(q), \A j \in DOMAIN q : q[j] # e
      PROVE  Once(Append(q, e))
  BY <1>1, <1>3 DEF Once
<1>4. ASSUME q # <<>>
      PROVE  /\ DOMAIN Tail(q) = 1 .. Len(q) - 1 /\ DOMAIN q = 1 .. Len(q) /\ Len(q) \in Nat \ {0}
             /\ Head(q) = q[1]
             /\ \A j \in 1 .. Len(q) - 1 : Tail(q)[j] = q[j + 1]
  BY <1>4
<1>5. ASSUME q # <<>>
      PROVE  \E j \in DOMAIN q : q[j] = Head(q)
  BY <1>4, <1>5
<1>6. ASSUME q # <<>>, Once(q)
      PROVE  /\ Once(Tail(q))
             /\ \A b : (\E j \in DOMAIN Tail(q) : Tail(q)[j] = b)
                         => b # Head(q) /\ \E j \in DOMAIN q : q[j] = b
  <2>1. Once(Tail(q))
    BY <1>4, <1>6 DEF Once
  <2>2. ASSUME NEW j \in DOMAIN Tail(q)
        PROVE  Tail(q)[j] # Head(q) /\ \E n \in DOMAIN q : q[n] = Tail(q)[j]
    BY <1>4, <1>6, <2>2 DEF Once
  <2> QED
    BY <2>1, <2>2
<1> QED
  BY <1>2, <1>3, <1>5, <1>6

\* A task that has freed the block of its socket is past it until the socket
\* is given up or has no block.
LEMMA PastStays ==
  ASSUME Types, [Next]_vars, NEW t \in Tasks, NEW s \in Sockets, at[t] = s, pc[t] \in Past
  PROVE  (at'[t] = s /\ pc'[t] \in Past) \/ ~used'[s] \/ sblock'[s] = NONE
<1> USE DEF Types
<1>1. ASSUME at'[t] = at[t], pc'[t] = pc[t] PROVE at'[t] = s /\ pc'[t] \in Past
  BY <1>1
<1>2. ASSUME NEW u \in Tasks, SlipSockFree(u)
      PROVE  (at'[t] = s /\ pc'[t] \in Past) \/ ~used'[s]
  <2>1. CASE u # t
    BY <1>1, <1>2, <2>1 DEF SlipSockFree, FreeTest, FreeBlock, FreeQueue, FreeUsed, FreeSignal, Goto, PcTypes, Handles
  <2>2. CASE u = t
    BY <1>2, <2>2 DEF SlipSockFree, FreeTest, FreeBlock, FreeQueue, FreeUsed, FreeSignal, Goto, PcTypes, Handles, Past, SockTypes
  <2> QED
    BY <2>1, <2>2
<1>3. CASE RxTask
  <2>1. CASE t # Rx
    BY <1>1, <1>3, <2>1, RxHandles
  <2>3. CASE RxNew
    BY <2>1, <2>3 DEF RxNew, SockTypes
  <2>2. CASE t = Rx /\ ~RxNew
    BY <1>2, <1>3, <2>2, TasksApart DEF RxTask, RxGet, RxDispatch, RxName, RxOffer, RxPush, RxSignal, RxRefuse, RxDone, Goto, Past
  <2> QED
    BY <2>1, <2>2, <2>3
<1>4. CASE ServerTask
  <2>1. CASE t # Server /\ ~SlipSockFree(Server)
    <3>1. CASE ServerSpawn
      BY <1>1, <2>1, <3>1, TasksApart DEF ServerSpawn, PcTypes, Handles, Past
    <3>2. CASE ~ServerSpawn
      BY <1>1, <1>4, <2>1, <3>2, TasksApart DEF ServerTask, ServerPermit, ServerAccept, CloseSend, Release, Goto, PcTypes, Handles
    <3> QED
      BY <3>1, <3>2
  <2>2. CASE t = Server
    BY <1>2, <1>4, <2>2, TasksApart DEF ServerTask, ServerPermit, ServerAccept, ServerSpawn, CloseSend, Release, Goto, Past
  <2> QED
    BY <1>2, <2>1, <2>2, TasksApart
<1>5. ASSUME NEW u \in Clients, ClientTask(u)
      PROVE  (at'[t] = s /\ pc'[t] \in Past) \/ ~used'[s] \/ sblock'[s] = NONE
  <2>1. CASE u # t /\ ~SlipSockFree(u)
    <3>1. at' = at
      BY <1>5, <2>1 DEF ClientTask, ClientRecv, ClientSend, ClientClose, SlipSockRecv, RecvTest, RecvGet,
                RecvWait, RecvUsed, RecvCopy, RecvFree, RecvNull, CloseStart, CloseSend, Release
    <3>2. pc'[t] = pc[t]
      BY <1>5, <2>1 DEF ClientTask, ClientRecv, ClientSend, ClientClose, SlipSockRecv, RecvTest, RecvGet,
                RecvWait, RecvUsed, RecvCopy, RecvFree, RecvNull, CloseStart, CloseSend, Release, Goto, PcTypes
    <3> QED
      BY <1>1, <3>1, <3>2
  <2>2. CASE u = t /\ ~SlipSockFree(u)
    <3>1. RecvNull(t)
      BY <1>5, <2>2 DEF ClientTask, ClientRecv, ClientSend, ClientClose, SlipSockRecv, RecvTest, RecvGet,
                RecvWait, RecvUsed, RecvCopy, RecvFree, CloseStart, CloseSend, Release, Goto, Past
    <3> QED
      BY <3>1 DEF RecvNull, SockTypes
  <2> QED
    BY <1>2, <1>5, <2>1, <2>2, TasksApart
<1>6. CASE Transmit \/ Delimiter \/ (\E i \in Ids : PeerConnect(i) \/ PeerData(i) \/ PeerHangUp(i)) \/ UNCHANGED vars
  <2>1. UNCHANGED <<pc, at>>
    BY <1>6 DEF Transmit, Delimiter, PeerConnect, PeerData, PeerHangUp, PeerSends, FrameEnds, NextBlock, vars
  <2> QED
    BY <1>1, <2>1
<1> QED
  BY <1>3, <1>4, <1>5, <1>6 DEF Next

\* So a socket's block comes back to life only when it is set.
LEMMA LiveStays ==
  ASSUME Types, [Next]_vars, NEW s \in Sockets, Live(s)', sblock'[s] = sblock[s], used'[s] => used[s]
  PROVE  Live(s)
  BY PastStays DEF Live, Past

\* A place whose variable a step leaves alone gets no block.
LEMMA PlaceStays ==
  ASSUME Types, [Next]_vars, NEW c \in Blocks, NEW s \in Places
  PROVE  /\ rxblk' = rxblk => (In(c, "rxb", s)' => In(c, "rxb", s))
         /\ rxq' = rxq => (In(c, "rx", s)' => In(c, "rx", s))
         /\ txq' = txq => (In(c, "tx", s)' => In(c, "tx", s))
         /\ cur' = cur \/ cur' = Nothing => (In(c, "cur", s)' => In(c, "cur", s))
         /\ sblock' = sblock /\ used' = used => (In(c, "block", s)' => In(c, "block", s))
         /\ queue' = queue => (In(c, "queue", s)' => In(c, "queue", s))
<1>1. c # NONE
  BY SockAssumption
<1>2. cur' = Nothing => ~In(c, "cur", s)'
  BY <1>1 DEF In, Nothing
<1>3. sblock' = sblock /\ used' = used => (In(c, "block", s)' => In(c, "block", s))
  BY LiveStays DEF In
<1>4. /\ rxblk' = rxblk => (In(c, "rxb", s)' => In(c, "rxb", s))
      /\ rxq' = rxq => (In(c, "rx", s)' => In(c, "rx", s))
      /\ txq' = txq => (In(c, "tx", s)' => In(c, "tx", s))
      /\ cur' = cur => (In(c, "cur", s)' => In(c, "cur", s))
      /\ queue' = queue => (In(c, "queue", s)' => In(c, "queue", s))
  BY DEF In
<1> QED
  BY <1>2, <1>3, <1>4

\* The receive task holds a block until it clears its variable.
LEMMA CurPlace ==
  /\ In(cur.blk, "cur", NONE)
  /\ \A c \in Blocks, s \in Places : cur' = Nothing => ~In(c, "cur", s)'
<1>1. In(cur.blk, "cur", NONE)
  BY DEF In
<1>2. ASSUME NEW c \in Blocks, NEW s \in Places, cur' = Nothing PROVE ~In(c, "cur", s)'
  <2>1. cur'.blk # c
    BY <1>2, SockAssumption DEF Nothing
  <2> QED
    BY <2>1 DEF In
<1> QED
  BY <1>1, <1>2

\* A block is freed with the only reference to it.
LEMMA Frees ==
  ASSUME Apart, NEW b, busy' = busy \ {b},
         \A c \in Blocks, k \in Kinds, s \in Places : In(c, k, s)' => In(c, k, s),
         b \in Blocks => \E k \in Kinds, s \in Places : In(b, k, s) /\ ~In(b, k, s)'
  PROVE  Leave
  BY DEF Apart, Leave

\* A block moves from one place to another.
LEMMA Moves ==
  ASSUME Apart, busy' = busy,
         NEW b \in Blocks, NEW k \in Kinds, NEW s \in Places, NEW l \in Kinds, NEW u \in Places,
         In(b, k, s),
         \A c \in Blocks, m \in Kinds, v \in Places :
           In(c, m, v)' => (In(c, m, v) /\ ~(c = b /\ m = k /\ v = s)) \/ (c = b /\ m = l /\ v = u)
  PROVE  Gets(b, l, u)
  BY DEF Apart, Gets

\* A block of the pool is taken and put somewhere.
LEMMA Fetches ==
  ASSUME Apart, NEW b \in Blocks, b \notin busy, busy' = busy \cup {b},
         NEW l \in Kinds, NEW u \in Places,
         \A c \in Blocks, m \in Kinds, v \in Places :
           In(c, m, v)' => In(c, m, v) \/ (c = b /\ m = l /\ v = u)
  PROVE  Gets(b, l, u)
  BY DEF Apart, Gets

\* The holder of a socket finds its block alive until it frees it.
LEMMA HolderLive ==
  ASSUME Types, Owned, NEW t \in Tasks, at[t] \in Sockets, pc[t] \in HoldPcs(t), pc[t] \notin Past
  PROVE  sblock[at[t]] = NONE \/ Live(at[t])
<1>1. \A u \in Tasks : at[u] = at[t] /\ u # t => pc[u] \notin HoldPcs(u)
  BY DEF Owned, Holds
<1>2. \A u \in Tasks : pc[u] \in Past => pc[u] \in HoldPcs(u)
  <2>1. \A u \in Tasks : u # Rx /\ pc[u] \in Past => pc[u] \in HoldPcs(u)
    <3>1. \A u \in Tasks : u # Rx => pc[u] # "new"
      BY TasksApart DEF Types, PcTypes, ServerPcs, ClientPcs, FreePcs, RecvPcs
    <3>2. \A u \in Tasks : u # Rx => Past \ {"new"} \subseteq HoldPcs(u)
      BY DEF Past, HoldPcs, RecvPcs, FreePcs
    <3> QED
      BY <3>1, <3>2
  <2>2. pc[Rx] \in Past => pc[Rx] \in HoldPcs(Rx)
    BY DEF Types, PcTypes, RxPcs, Past, HoldPcs, FreePcs
  <2> QED
    BY <2>1, <2>2
<1>3. used[at[t]]
  BY DEF Owned, Holds
<1> QED
  BY <1>1, <1>2, <1>3 DEF Live, Past

Step == Leave \/ \E b \in Blocks, k \in Kinds, s \in Places : Gets(b, k, s)

\* slip_sock_free frees the block of a socket only its task works on, and then
\* the blocks of its queue.
LEMMA FreePlaces ==
  ASSUME Types, [Next]_vars, Owned, Placed, NEW t \in Tasks, SlipSockFree(t)
  PROVE  Step /\ Rows'
<1> USE DEF Types
<1>0. at[t] \in Sockets /\ Apart /\ Rows
  BY TasksApart DEF SlipSockFree, FreeTest, FreeBlock, FreeQueue, FreeUsed, FreeSignal, Goto, FreePcs, Handles,
                    RxHandle, TaskHandle, Placed
<1> DEFINE s == at[t]
<1>1. CASE FreeBlock(t)
  <2>1. /\ busy' = busy \ {sblock[s]} /\ pc[t] = "free_block" /\ pc'[t] = "free_queue" /\ at'[t] = s
        /\ UNCHANGED <<rxblk, rxq, txq, cur, sblock, used, queue>>
    BY <1>1 DEF FreeTest, FreeBlock, Goto, sockVars, PcTypes
  <2>2. \A c \in Blocks, k \in Kinds, u \in Places : In(c, k, u)' => In(c, k, u)
    BY <2>1, PlaceStays DEF Kinds
  <2>3. sblock[s] \in Blocks => In(sblock[s], "block", s)
    <3>1. pc[t] \in HoldPcs(t) \ Past
      BY <2>1 DEF HoldPcs, FreePcs, Past
    <3> QED
      BY <1>0, <3>1, HolderLive, SockAssumption DEF In
  <2>4. ~In(sblock[s], "block", s)'
    BY <2>1 DEF In, Live
  <2>5. Leave
    BY <1>0, <2>1, <2>2, <2>3, <2>4, Frees DEF Kinds, Places
  <2>6. Rows'
    BY <1>0, <2>1 DEF Rows, Distinct, Once
  <2> QED
    BY <2>5, <2>6 DEF Step
<1>2. CASE FreeQueue(t) /\ queue[s] # <<>>
  <2>1. /\ busy' = busy \ {Head(queue[s])} /\ queue' = [queue EXCEPT ![s] = Tail(@)]
        /\ UNCHANGED <<rxblk, rxq, txq, cur, sblock, used>>
    BY <1>2 DEF FreeQueue
  <2>2. queue[s] \in Seq(Blocks) /\ Once(queue[s])
    BY <1>0 DEF SockTypes, Rows
  <2>3. /\ \E j \in DOMAIN queue[s] : queue[s][j] = Head(queue[s])
        /\ Once(Tail(queue[s]))
        /\ \A b : (\E j \in DOMAIN Tail(queue[s]) : Tail(queue[s])[j] = b)
                     => b # Head(queue[s]) /\ \E j \in DOMAIN queue[s] : queue[s][j] = b
    BY <1>2, <2>2, QueueFacts
  <2>4. queue'[s] = Tail(queue[s]) /\ \A u \in Sockets \ {s} : queue'[u] = queue[u]
    BY <1>0, <2>1 DEF SockTypes
  <2>5. ASSUME NEW c \in Blocks, NEW u \in Places, In(c, "queue", u)'
        PROVE  In(c, "queue", u) /\ ~(c = Head(queue[s]) /\ u = s)
    BY <2>3, <2>4, <2>5 DEF In
  <2>6. \A c \in Blocks, k \in Kinds, u \in Places : In(c, k, u)' => In(c, k, u)
    BY <2>1, <2>5, PlaceStays DEF Kinds
  <2>7. Head(queue[s]) \in Blocks /\ In(Head(queue[s]), "queue", s)
    BY <1>0, <1>2, <2>2, <2>3, SeqFacts DEF In
  <2>8. Leave
    BY <1>0, <2>1, <2>5, <2>6, <2>7, Frees DEF Kinds, Places
  <2>9. Rows'
    BY <1>0, <2>1, <2>3, <2>4 DEF Rows, Distinct, Once
  <2> QED
    BY <2>8, <2>9 DEF Step
<1>3. CASE FreeTest(t) \/ FreeUsed(t) \/ FreeSignal(t) \/ (FreeQueue(t) /\ queue[s] = <<>>)
  <2>1. /\ UNCHANGED <<busy, rxblk, rxq, txq, cur, sblock, queue>>
        /\ \A u \in Sockets : used'[u] => used[u]
    BY <1>3 DEF FreeTest, FreeUsed, FreeSignal, FreeQueue, Goto, poolVars, sockVars, SockTypes
  <2>2. \A c \in Blocks, u \in Places : In(c, "block", u)' => In(c, "block", u)
    BY <2>1, LiveStays DEF In
  <2>3. \A c \in Blocks, k \in Kinds, u \in Places : In(c, k, u)' => In(c, k, u)
    BY <2>1, <2>2, PlaceStays DEF Kinds
  <2>4. Leave
    BY <1>0, <2>1, <2>3 DEF Leave, Apart
  <2>5. Rows'
    BY <1>0, <2>1 DEF Rows, Distinct, Once
  <2> QED
    BY <2>4, <2>5 DEF Step
<1> QED
  BY <1>1, <1>2, <1>3 DEF SlipSockFree, FreeQueue

\* A step that touches none of the places.
LEMMA NoPlaces ==
  ASSUME Types, [Next]_vars, Placed, UNCHANGED <<busy, rxblk, rxq, txq, cur, sblock, used, queue>>
  PROVE  Step /\ Rows'
<1>1. \A c \in Blocks, k \in Kinds, u \in Places : In(c, k, u)' => In(c, k, u)
  BY PlaceStays DEF Kinds
<1>2. Leave
  BY <1>1 DEF Placed, Apart, Leave
<1>3. Rows'
  BY DEF Placed, Rows, Distinct, Once
<1> QED
  BY <1>2, <1>3 DEF Step

\* A frame is put in the queue of the transmitter: the one the receive task
\* holds, or one in a block of the pool.
LEMMA SendPlaces ==
  ASSUME Types, [Next]_vars, Placed, NEW f \in Frame, txq' = Append(txq, f),
         UNCHANGED <<rxblk, rxq, sblock, used, queue>>,
         \/ busy' = busy /\ cur.blk = f.blk /\ cur' = Nothing
         \/ f.blk \notin busy /\ busy' = busy \cup {f.blk} /\ cur' = cur
  PROVE  Step /\ Rows'
<1> USE DEF Types
<1>0. /\ Apart /\ Rows /\ txq \in Seq(Frame) /\ f.blk \in Blocks
      /\ "tx" \in Kinds /\ "cur" \in Kinds /\ NONE \in Places
  BY FrameFacts DEF Placed, FrameTypes, Kinds, Places
<1>1. ~In(f.blk, "tx", NONE)
  <2>1. CASE cur.blk = f.blk
    <3>1. In(f.blk, "cur", NONE)
      BY <2>1 DEF In
    <3> QED
      BY <1>0, <3>1 DEF Apart
  <2>2. CASE f.blk \notin busy
    BY <1>0, <2>2 DEF Apart
  <2> QED
    BY <2>1, <2>2
<1>2. \A c \in Blocks, u \in Places : In(c, "tx", u)' => In(c, "tx", u) \/ (c = f.blk /\ u = NONE)
  BY <1>0, RowFacts DEF In
<1>3. \A c \in Blocks, k \in Kinds, u \in Places :
         In(c, k, u)' => In(c, k, u) \/ (c = f.blk /\ k = "tx" /\ u = NONE)
  BY <1>2, PlaceStays DEF Kinds
<1>4. Gets(f.blk, "tx", NONE)
  <2>1. CASE busy' = busy /\ cur.blk = f.blk /\ cur' = Nothing
    <3>1. In(f.blk, "cur", NONE) /\ ~In(f.blk, "cur", NONE)'
      BY <1>0, <2>1, SockAssumption DEF In, Nothing
    <3> QED
      BY <1>0, <1>3, <2>1, <3>1, Moves
  <2>2. CASE f.blk \notin busy /\ busy' = busy \cup {f.blk}
    BY <1>0, <1>3, <2>2, Fetches
  <2> QED
    BY <2>1, <2>2
<1>5. Distinct(txq')
  <2>1. \A j \in DOMAIN txq : txq[j].blk # f.blk
    BY <1>1 DEF In
  <2> QED
    BY <1>0, <2>1, RowFacts DEF Rows
<1>6. Rows'
  BY <1>0, <1>5 DEF Rows, Distinct, Once
<1> QED
  BY <1>0, <1>4, <1>6 DEF Step

\* The receive task hands a block on: from its queue, to a socket, back to the
\* peer or to the pool.
LEMMA RxPlaces ==
  ASSUME Types, [Next]_vars, Owned, Placed, RxTask
  PROVE  Step /\ Rows'
<1> USE DEF Types
<1>0. /\ Apart /\ Rows /\ {"rx", "cur", "block", "queue"} \subseteq Kinds
      /\ NONE \in Places /\ Sockets \subseteq Places
  BY DEF Placed, Kinds, Places
<1>1. CASE RxGet
  <2>1. /\ rxq # <<>> /\ cur' = Head(rxq) /\ rxq' = Tail(rxq) /\ rxq \in Seq(Frame)
        /\ UNCHANGED <<busy, rxblk, txq, sblock, used, queue>>
    BY <1>1 DEF RxGet, sockVars, FrameTypes
  <2>2. /\ \E j \in DOMAIN rxq : rxq[j] = Head(rxq)
        /\ Distinct(Tail(rxq))
        /\ \A b : (\E j \in DOMAIN Tail(rxq) : Tail(rxq)[j].blk = b)
                     => b # Head(rxq).blk /\ \E j \in DOMAIN rxq : rxq[j].blk = b
    BY <1>0, <2>1, RowFacts DEF Rows
  <2> DEFINE b == Head(rxq).blk
  <2>3. b \in Blocks /\ In(b, "rx", NONE)
    BY <2>1, <2>2, SeqFacts, FrameFacts DEF In
  <2>4. \A c \in Blocks, u \in Places : In(c, "rx", u)' => In(c, "rx", u) /\ c # b
    BY <2>1, <2>2 DEF In
  <2>5. \A c \in Blocks, u \in Places : In(c, "cur", u)' => c = b /\ u = NONE
    BY <2>1 DEF In
  <2>6. \A c \in Blocks, k \in Kinds, u \in Places :
           In(c, k, u)' => (In(c, k, u) /\ ~(c = b /\ k = "rx" /\ u = NONE)) \/ (c = b /\ k = "cur" /\ u = NONE)
    BY <2>1, <2>4, <2>5, PlaceStays DEF Kinds
  <2> HIDE DEF b
  <2>7. Gets(b, "cur", NONE)
    BY <1>0, <2>1, <2>3, <2>6, Moves
  <2>8. Rows'
    BY <1>0, <2>1, <2>2 DEF Rows, Distinct, Once
  <2> QED
    BY <1>0, <2>3, <2>7, <2>8 DEF Step
<1>2. CASE RxNew
  <2>1. PICK s \in Sockets : /\ sblock' = [sblock EXCEPT ![s] = NONE]
                             /\ queue' = [queue EXCEPT ![s] = <<>>]
                             /\ UNCHANGED <<busy, rxblk, rxq, txq, cur, used>>
    BY <1>2 DEF RxNew, Goto, poolVars, Handles, RxHandle
  <2>2. /\ sblock'[s] = NONE /\ queue'[s] = <<>>
        /\ \A u \in Sockets \ {s} : sblock'[u] = sblock[u] /\ queue'[u] = queue[u]
    BY <2>1 DEF SockTypes
  <2>3. \A c \in Blocks, u \in Places : In(c, "block", u)' => In(c, "block", u)
    <3> SUFFICES ASSUME NEW c \in Blocks, NEW u \in Sockets, In(c, "block", u)' PROVE In(c, "block", u)
      BY DEF In
    <3>1. u # s
      BY <2>2, SockAssumption DEF In
    <3> QED
      BY <2>1, <2>2, <3>1, LiveStays DEF In
  <2>4. \A c \in Blocks, u \in Places : In(c, "queue", u)' => In(c, "queue", u)
    BY <2>2 DEF In
  <2>5. Leave
    BY <1>0, <2>1, <2>3, <2>4, PlaceStays DEF Leave, Apart, Kinds
  <2>6. Rows'
    BY <1>0, <2>1, <2>2 DEF Rows, Distinct, Once
  <2> QED
    BY <2>5, <2>6 DEF Step
<1>7. CASE RxDispatch /\ used' # used
  <2>1. PICK s \in Sockets : /\ used' = [used EXCEPT ![s] = TRUE] /\ at'[Rx] = s /\ pc'[Rx] = "new"
    BY <1>7, TasksApart DEF RxDispatch, PcTypes, Handles
  <2>2. UNCHANGED <<busy, rxblk, rxq, txq, cur, sblock, queue>>
    BY <1>7 DEF RxDispatch, poolVars
  <2>3. \A c \in Blocks, u \in Places : In(c, "block", u)' => In(c, "block", u)
    <3> SUFFICES ASSUME NEW c \in Blocks, NEW u \in Sockets, In(c, "block", u)' PROVE In(c, "block", u)
      BY DEF In
    <3>1. u # s
      BY <2>1, TasksApart DEF In, Live
    <3>2. used'[u] = used[u]
      BY <2>1, <3>1 DEF SockTypes
    <3> QED
      BY <2>2, <3>2, LiveStays DEF In
  <2>4. Leave
    BY <1>0, <2>2, <2>3, PlaceStays DEF Leave, Apart, Kinds
  <2>5. Rows'
    BY <1>0, <2>2 DEF Rows, Distinct, Once
  <2> QED
    BY <2>4, <2>5 DEF Step
<1>3. CASE RxPush
  <2>1. PICK s \in Sockets, b \in Blocks :
          /\ cur.blk = b /\ queue' = [queue EXCEPT ![s] = Append(@, b)] /\ cur' = Nothing
          /\ UNCHANGED <<busy, rxblk, rxq, txq, sblock, used>>
    BY <1>3, FrameFacts DEF RxPush, Goto, poolVars, FrameTypes, Handles, RxHandle
  <2>2. In(b, "cur", NONE) /\ ~In(b, "cur", NONE)'
    BY <1>0, <2>1, CurPlace
  <2>3. queue[s] \in Seq(Blocks) /\ queue'[s] = Append(queue[s], b) /\ \A u \in Sockets \ {s} : queue'[u] = queue[u]
    BY <2>1 DEF SockTypes
  <2>4. \A c \in Blocks, u \in Places : In(c, "queue", u)' => In(c, "queue", u) \/ (c = b /\ u = s)
    <3>1. \A c \in Blocks : (\E j \in DOMAIN queue'[s] : queue'[s][j] = c)
                               => c = b \/ \E j \in DOMAIN queue[s] : queue[s][j] = c
      BY <2>1, <2>3, QueueFacts
    <3> QED
      BY <2>3, <3>1 DEF In
  <2>5. Once(queue'[s])
    <3>1. ~In(b, "queue", s)
      BY <1>0, <2>1, <2>2 DEF Apart
    <3>2. \A j \in DOMAIN queue[s] : queue[s][j] # b
      BY <2>1, <3>1 DEF In
    <3>3. Once(queue[s])
      BY <1>0, <2>1 DEF Rows
    <3> QED
      BY <2>1, <2>3, <3>2, <3>3, QueueFacts
  <2>6. \A c \in Blocks, k \in Kinds, u \in Places :
           In(c, k, u)' => (In(c, k, u) /\ ~(c = b /\ k = "cur" /\ u = NONE)) \/ (c = b /\ k = "queue" /\ u = s)
    BY <2>1, <2>4, CurPlace, PlaceStays DEF Kinds
  <2>7. Gets(b, "queue", s)
    BY <1>0, <2>1, <2>2, <2>6, Moves
  <2>8. Rows'
    BY <1>0, <2>1, <2>3, <2>5 DEF Rows, Distinct, Once
  <2> QED
    BY <1>0, <2>1, <2>7, <2>8 DEF Step
<1>4. CASE RxRefuse
  <2> DEFINE f == [cur EXCEPT !.cmd = "Disconnect"]
  <2>1. /\ f \in Frame /\ f.blk = cur.blk /\ txq' = Append(txq, f) /\ cur' = Nothing
        /\ UNCHANGED <<busy, rxblk, rxq, sblock, used, queue>>
    BY <1>4, FrameFacts DEF RxRefuse, Goto, sockVars, FrameTypes, Frame
  <2> HIDE DEF f
  <2> QED
    BY <2>1, SendPlaces
<1>5. CASE RxDone
  <2>1. /\ busy' = busy \ {cur.blk} /\ cur' = Nothing /\ UNCHANGED <<rxblk, rxq, txq, sblock, used, queue>>
    BY <1>5 DEF RxDone, sockVars
  <2>2. \A c \in Blocks, k \in Kinds, u \in Places : In(c, k, u)' => In(c, k, u)
    BY <2>1, PlaceStays DEF Kinds
  <2>3. \A b \in Blocks : cur.blk = b => In(b, "cur", NONE) /\ ~In(b, "cur", NONE)'
    BY <1>0, <2>1, CurPlace
  <2>4. Leave
    BY <1>0, <2>1, <2>2, <2>3, Frees
  <2>5. Rows'
    BY <1>0, <2>1 DEF Rows, Distinct, Once
  <2> QED
    BY <2>4, <2>5 DEF Step
<1>6. CASE RxName \/ RxOffer \/ RxSignal \/ (RxDispatch /\ used' = used)
  BY <1>6, NoPlaces DEF RxName, RxOffer, RxSignal, RxDispatch, poolVars, sockVars
<1> QED
  BY <1>1, <1>2, <1>3, <1>4, <1>5, <1>6, <1>7, FreePlaces, TasksApart DEF RxTask

\* slip_sock_send and slip_sock_close take a block of the pool.
LEMMA TaskSends ==
  ASSUME Types, [Next]_vars, Placed, NEW t \in Tasks \ {Rx}, ClientSend(t) \/ CloseSend(t)
  PROVE  Step /\ Rows'
<1>1. UNCHANGED <<rxblk, rxq, cur, sblock, used, queue>>
  BY DEF ClientSend, CloseSend, sockVars
<1>2. CASE UNCHANGED <<busy, txq>>
  BY <1>1, <1>2, NoPlaces
<1>3. CASE ~UNCHANGED <<busy, txq>>
  <2>1. /\ ClientSend(t) => sid[at[t]] \in Ids
        /\ CloseSend(t) => closeId[t] \in Ids
    BY DEF ClientSend, CloseSend, Goto, Types, Handles, TaskHandle
  <2>2. PICK b \in Blocks \ busy, c \in Commands, i \in Ids :
          busy' = busy \cup {b} /\ txq' = Append(txq, [blk |-> b, cmd |-> c, id |-> i])
    BY <1>3, <2>1 DEF ClientSend, CloseSend, Commands
  <2> DEFINE f == [blk |-> b, cmd |-> c, id |-> i]
  <2>3. f \in Frame /\ f.blk = b
    BY FrameFacts
  <2> HIDE DEF f
  <2> QED
    BY <1>1, <2>2, <2>3, SendPlaces DEF f
<1> QED
  BY <1>2, <1>3

\* slip_sock_recv takes a block from the queue of the socket, reads it and
\* frees it.
LEMMA RecvPlaces ==
  ASSUME Types, [Next]_vars, Owned, Placed, NEW t \in Clients, SlipSockRecv(t)
  PROVE  Step /\ Rows'
<1> USE DEF Types
<1>0. /\ at[t] \in Sockets /\ t \in Tasks /\ t # Rx /\ Apart /\ Rows
      /\ {"block", "queue"} \subseteq Kinds /\ Sockets \subseteq Places /\ pc[t] \in RecvPcs
  BY TasksApart DEF SlipSockRecv, RecvTest, RecvGet, RecvWait, RecvUsed, RecvCopy, RecvFree, RecvNull, Goto,
                    RecvPcs, Handles, TaskHandle, Placed, Kinds, Places
<1>1. CASE RecvGet(t)
  <2>1. PICK s \in Sockets : s = at[t]
    BY <1>0
  <2>2. /\ UNCHANGED <<busy, rxblk, rxq, txq, cur, used>>
        /\ \A u \in Sockets \ {s} : sblock'[u] = sblock[u] /\ queue'[u] = queue[u]
    BY <1>1, <2>1 DEF RecvGet, poolVars, SockTypes
  <2>3. CASE queue[s] = <<>>
    <3>1. sblock'[s] = NONE /\ queue' = queue
      BY <1>1, <2>1, <2>3 DEF RecvGet, SockTypes
    <3>2. \A c \in Blocks, u \in Places : In(c, "block", u)' => In(c, "block", u)
      <4> SUFFICES ASSUME NEW c \in Blocks, NEW u \in Sockets, In(c, "block", u)' PROVE In(c, "block", u)
        BY DEF In
      <4>1. u # s
        BY <3>1, SockAssumption DEF In
      <4> QED
        BY <2>2, <4>1, LiveStays DEF In
    <3>3. Leave
      BY <1>0, <2>2, <3>1, <3>2, PlaceStays DEF Leave, Apart, Kinds
    <3>4. Rows'
      BY <1>0, <2>2, <3>1 DEF Rows, Distinct, Once
    <3> QED
      BY <3>3, <3>4 DEF Step
  <2>4. CASE queue[s] # <<>>
    <3>1. /\ queue[s] \in Seq(Blocks) /\ Once(queue[s])
          /\ sblock'[s] = Head(queue[s]) /\ queue'[s] = Tail(queue[s])
      BY <1>0, <1>1, <2>1, <2>4 DEF RecvGet, SockTypes, Rows
    <3>2. /\ \E j \in DOMAIN queue[s] : queue[s][j] = Head(queue[s])
          /\ Once(Tail(queue[s]))
          /\ \A b : (\E j \in DOMAIN Tail(queue[s]) : Tail(queue[s])[j] = b)
                       => b # Head(queue[s]) /\ \E j \in DOMAIN queue[s] : queue[s][j] = b
      BY <2>4, <3>1, QueueFacts
    <3>3. PICK b \in Blocks : b = Head(queue[s])
      BY <2>4, <3>1, SeqFacts
    <3>4. In(b, "queue", s)
      BY <3>2, <3>3 DEF In
    <3>5. \A c \in Blocks, u \in Places : In(c, "queue", u)' => In(c, "queue", u) /\ ~(c = b /\ u = s)
      BY <2>2, <3>1, <3>2, <3>3, ZenonT(60) DEF In
    <3>6. \A c \in Blocks, u \in Places : In(c, "block", u)' => In(c, "block", u) \/ (c = b /\ u = s)
      <4> SUFFICES ASSUME NEW c \in Blocks, NEW u \in Sockets, u # s, In(c, "block", u)' PROVE In(c, "block", u)
        BY <3>1, <3>3 DEF In
      <4> QED
        BY <2>2, LiveStays DEF In
    <3>7. \A c \in Blocks, k \in Kinds, u \in Places :
             In(c, k, u)' => (In(c, k, u) /\ ~(c = b /\ k = "queue" /\ u = s)) \/ (c = b /\ k = "block" /\ u = s)
      BY <2>2, <3>5, <3>6, PlaceStays DEF Kinds
    <3>8. Gets(b, "block", s)
      BY <1>0, <2>2, <3>4, <3>7, Moves
    <3>9. Rows'
      BY <1>0, <2>2, <3>1, <3>2, ZenonT(60) DEF Rows, Distinct, Once
    <3> QED
      BY <1>0, <3>8, <3>9 DEF Step
  <2> QED
    BY <2>3, <2>4
<1>2. CASE RecvFree(t)
  <2>1. PICK s \in Sockets : s = at[t]
    BY <1>0
  <2>2. /\ pc[t] = "recv_free" /\ pc'[t] = "recv_null" /\ busy' = busy \ {sblock[s]} /\ at'[t] = s
        /\ UNCHANGED <<rxblk, rxq, txq, cur, sblock, used, queue>>
    BY <1>0, <1>2, <2>1 DEF RecvFree, Goto, PcTypes, sockVars
  <2>3. \A c \in Blocks, k \in Kinds, u \in Places : In(c, k, u)' => In(c, k, u)
    BY <2>2, PlaceStays DEF Kinds
  <2>4. "recv_free" \in HoldPcs(t) /\ "recv_free" \notin Past
    BY <1>0 DEF HoldPcs, RecvPcs, Past
  <2>5. \A b \in Blocks : b = sblock[s] => In(b, "block", s)
    BY <1>0, <2>1, <2>2, <2>4, HolderLive, SockAssumption DEF In
  <2>6. \A b \in Blocks : ~In(b, "block", s)'
    BY <1>0, <2>2 DEF In, Live
  <2>7. Leave
    BY <1>0, <2>2, <2>3, <2>5, <2>6, Frees
  <2>8. Rows'
    BY <1>0, <2>2 DEF Rows, Distinct, Once
  <2> QED
    BY <2>7, <2>8 DEF Step
<1>3. CASE RecvNull(t)
  <2>1. PICK s \in Sockets : s = at[t]
    BY <1>0
  <2>2. /\ sblock' = [sblock EXCEPT ![s] = NONE] /\ UNCHANGED <<busy, rxblk, rxq, txq, cur, used, queue>>
    BY <1>3, <2>1 DEF RecvNull, poolVars
  <2>3. sblock'[s] = NONE /\ \A u \in Sockets \ {s} : sblock'[u] = sblock[u]
    BY <2>2 DEF SockTypes
  <2>4. \A c \in Blocks, u \in Places : In(c, "block", u)' => In(c, "block", u)
    <3> SUFFICES ASSUME NEW c \in Blocks, NEW u \in Sockets, In(c, "block", u)' PROVE In(c, "block", u)
      BY DEF In
    <3>1. u # s
      BY <2>3, SockAssumption DEF In
    <3> QED
      BY <2>2, <2>3, <3>1, LiveStays DEF In
  <2>5. Leave
    BY <1>0, <2>2, <2>4, PlaceStays DEF Leave, Apart, Kinds
  <2>6. Rows'
    BY <1>0, <2>2 DEF Rows, Distinct, Once
  <2> QED
    BY <2>5, <2>6 DEF Step
<1>4. CASE RecvTest(t) \/ RecvWait(t) \/ RecvUsed(t) \/ RecvCopy(t)
  BY <1>4, NoPlaces DEF RecvTest, RecvWait, RecvUsed, RecvCopy, poolVars, sockVars
<1> QED
  BY <1>1, <1>2, <1>3, <1>4 DEF SlipSockRecv

\* The transmitter sends a frame and frees its block.
LEMMA SentPlaces ==
  ASSUME Types, [Next]_vars, Placed, Transmit
  PROVE  Step /\ Rows'
<1> USE DEF Types
<1>0. /\ Apart /\ Rows /\ {"rx", "tx"} \subseteq Kinds /\ NONE \in Places
      /\ rxq \in Seq(Frame) /\ txq \in Seq(Frame)
  BY DEF Placed, Kinds, Places, FrameTypes
<1>1. /\ txq # <<>> /\ txq' = Tail(txq) /\ busy' = busy \ {Head(txq).blk}
      /\ UNCHANGED <<rxblk, rxq, cur, sblock, used, queue>>
  BY DEF Transmit, sockVars
<1>2. /\ \E j \in DOMAIN txq : txq[j] = Head(txq)
      /\ Distinct(Tail(txq))
      /\ \A b : (\E j \in DOMAIN Tail(txq) : Tail(txq)[j].blk = b)
                   => b # Head(txq).blk /\ \E j \in DOMAIN txq : txq[j].blk = b
  BY <1>0, <1>1, RowFacts DEF Rows
<1>3. PICK b \in Blocks : b = Head(txq).blk
  BY <1>0, <1>1, SeqFacts, FrameFacts
<1>4. In(b, "tx", NONE)
  BY <1>2, <1>3 DEF In
<1>5. \A c \in Blocks, u \in Places : In(c, "tx", u)' => In(c, "tx", u) /\ c # b
  BY <1>1, <1>2, <1>3 DEF In
<1>6. \A c \in Blocks, k \in Kinds, u \in Places : In(c, k, u)' => In(c, k, u)
  BY <1>1, <1>5, PlaceStays DEF Kinds
<1>7. Leave
  BY <1>0, <1>1, <1>3, <1>4, <1>5, <1>6, Frees
<1>8. Rows'
  BY <1>0, <1>1, <1>2 DEF Rows, Distinct, Once
<1> QED
  BY <1>7, <1>8 DEF Step

\* At a delimiter the block of the receive interrupt goes to its queue, and the
\* next one is taken from the pool.
LEMMA HeardPlaces ==
  ASSUME Types, [Next]_vars, Placed, NextBlock, UNCHANGED <<txq, cur, sblock, used, queue>>,
         \/ rxblk = NONE /\ rxq' = rxq
         \/ rxblk # NONE /\ \E c \in Commands, i \in Ids :
              rxq' = Append(rxq, [blk |-> rxblk, cmd |-> c, id |-> i])
  PROVE  Placed'
<1> USE DEF Types
<1>0. /\ Apart /\ Rows /\ {"rx", "rxb"} \subseteq Kinds /\ NONE \in Places /\ NONE \notin Blocks
      /\ rxq \in Seq(Frame) /\ busy \subseteq Blocks /\ rxblk \in Blocks \cup {NONE}
  BY SockAssumption DEF Placed, Kinds, Places, FrameTypes
<1>1. /\ busy \subseteq busy'
      /\ \A c \in Blocks : rxblk' = c => c \notin busy /\ c \in busy'
  BY <1>0 DEF NextBlock
<1>2. /\ \A c \in Blocks, u \in Places :
            In(c, "rx", u)' => In(c, "rx", u) \/ (u = NONE /\ In(c, "rxb", NONE))
      /\ Distinct(rxq')
  <2>1. CASE rxblk = NONE
    BY <1>0, <2>1 DEF In, Rows, Distinct
  <2>2. CASE rxblk # NONE
    <3>1. PICK f \in Frame : rxq' = Append(rxq, f) /\ f.blk = rxblk
      BY <1>0, <2>2, FrameFacts
    <3>2. In(rxblk, "rxb", NONE)
      BY DEF In
    <3>3. ~In(rxblk, "rx", NONE)
      BY <1>0, <2>2, <3>2 DEF Apart
    <3>4. \A c \in Blocks, u \in Places : In(c, "rx", u)' => In(c, "rx", u) \/ (c = rxblk /\ u = NONE)
      BY <1>0, <3>1, RowFacts DEF In
    <3>5. Distinct(rxq')
      BY <1>0, <3>1, <3>3, RowFacts DEF In, Rows
    <3> QED
      BY <3>2, <3>4, <3>5
  <2> QED
    BY <2>1, <2>2
<1>3. \A c \in Blocks, k \in Kinds, u \in Places : In(c, k, u)' =>
         \/ k = "rxb" /\ u = NONE /\ c \notin busy /\ c \in busy'
         \/ k = "rx" /\ u = NONE /\ In(c, "rxb", NONE)
         \/ k # "rxb" /\ In(c, k, u)
  <2>1. \A c \in Blocks, u \in Places : In(c, "rxb", u)' => u = NONE /\ c \notin busy /\ c \in busy'
    BY <1>1 DEF In
  <2> QED
    BY <1>2, <2>1, PlaceStays DEF Kinds
<1>4. Apart'
  <2>1. \A c \in Blocks, k \in Kinds, u \in Places : In(c, k, u) =>
           c \in busy /\ \A l \in Kinds, v \in Places : In(c, l, v) => l = k /\ v = u
    BY <1>0 DEF Apart
  <2> SUFFICES ASSUME NEW c \in Blocks, NEW k \in Kinds, NEW u \in Places, In(c, k, u)'
               PROVE  c \in busy' /\ \A l \in Kinds, v \in Places : In(c, l, v)' => l = k /\ v = u
    BY DEF Apart
  <2>2. c \in busy'
    BY <1>0, <1>1, <1>3, <2>1
  <2>3. ASSUME NEW l \in Kinds, NEW v \in Places, In(c, l, v)' PROVE l = k /\ v = u
    <3>1. CASE c \notin busy
      BY <1>0, <1>3, <2>1, <2>3, <3>1
    <3>2. CASE c \in busy
      <4>1. \/ k = "rx" /\ u = NONE /\ In(c, "rxb", NONE)
            \/ k # "rxb" /\ In(c, k, u)
        BY <1>3, <3>2
      <4>2. \/ l = "rx" /\ v = NONE /\ In(c, "rxb", NONE)
            \/ l # "rxb" /\ In(c, l, v)
        BY <1>3, <2>3, <3>2
      <4> QED
        BY <1>0, <2>1, <4>1, <4>2
    <3> QED
      BY <3>1, <3>2
  <2> QED
    BY <2>2, <2>3
<1>5. Rows'
  BY <1>0, <1>2 DEF Rows, Distinct, Once
<1> QED
  BY <1>4, <1>5 DEF Placed

\* Every step leaves each block in one place.
LEMMA NextPlaced ==
  ASSUME Types, Owned, Placed, [Next]_vars
  PROVE  Placed'
<1>0. Step /\ Rows' => Placed'
  BY StepApart DEF Step, Placed
<1>1. ASSUME ServerPermit \/ ServerAccept \/ ServerSpawn \/ Release(Server) \/ UNCHANGED vars PROVE Step /\ Rows'
  BY <1>1, NoPlaces DEF ServerPermit, ServerAccept, ServerSpawn, Release, vars, poolVars, sockVars
<1>2. ASSUME NEW t \in Clients, ClientRecv(t) \/ ClientClose(t) \/ CloseStart(t) \/ Release(t)
      PROVE  Step /\ Rows'
  BY <1>2, NoPlaces DEF ClientRecv, ClientClose, CloseStart, Release, poolVars, sockVars
<1>3. ASSUME ServerTask PROVE Step /\ Rows'
  <2>1. CASE SlipSockFree(Server)
    BY <2>1, FreePlaces, TasksApart
  <2>2. CASE CloseSend(Server)
    BY <2>2, TaskSends, TasksApart
  <2> QED
    BY <1>1, <1>3, <2>1, <2>2 DEF ServerTask
<1>4. ASSUME NEW t \in Clients, ClientTask(t) PROVE Step /\ Rows'
  <2>0. t \in Tasks \ {Rx}
    BY TasksApart
  <2>1. CASE SlipSockFree(t)
    BY <2>0, <2>1, FreePlaces
  <2>2. CASE ClientSend(t) \/ CloseSend(t)
    BY <2>0, <2>2, TaskSends
  <2>3. CASE SlipSockRecv(t)
    BY <2>3, RecvPlaces
  <2> QED
    BY <1>2, <1>4, <2>1, <2>2, <2>3 DEF ClientTask
<1>5. ASSUME RxTask PROVE Step /\ Rows'
  BY <1>5, RxPlaces
<1>6. ASSUME Transmit PROVE Step /\ Rows'
  BY <1>6, SentPlaces
<1>7. CASE Delimiter
  BY <1>7, HeardPlaces DEF Delimiter, sockVars
<1>8. ASSUME NEW i \in Ids, PeerConnect(i) \/ PeerData(i) \/ PeerHangUp(i) PROVE Placed'
  <2>1. PICK c \in Commands : FrameEnds(c, i)
    BY <1>8, SockAssumption DEF PeerConnect, PeerData, PeerHangUp, PeerSends, Commands
  <2> QED
    BY <2>1, HeardPlaces DEF FrameEnds, sockVars
<1> QED
  BY <1>0, <1>1, <1>3, <1>4, <1>5, <1>6, <1>7, <1>8 DEF Next

\* At the start the receive interrupt has its block.
LEMMA InitPlaced == Init => Placed
<1> SUFFICES ASSUME Init PROVE Placed
  OBVIOUS
<1>1. ASSUME NEW b \in Blocks, NEW k, NEW s, In(b, k, s) PROVE k = "rxb" /\ s = NONE /\ b \in busy
  BY <1>1, SockAssumption DEF Init, In, Nothing, Live
<1> QED
  BY <1>1 DEF Init, Placed, Apart, Rows, Distinct, Once

\* A queue without repetitions is no longer than the pool is large.
LEMMA QueueFits ==
  ASSUME Types, Rows, NEW s \in Sockets
  PROVE  DOMAIN queue[s] \subseteq 1 .. Cardinality(Blocks)
<1> DEFINE q == queue[s]
<1>1. q \in Seq(Blocks) /\ Once(q)
  BY DEF Types, SockTypes, Rows
<1> HIDE DEF q
<1>2. Len(q) \in Nat /\ DOMAIN q = 1 .. Len(q) /\ q \in [1 .. Len(q) -> Blocks]
  BY <1>1
<1>3. \A j, k \in 1 .. Len(q) : q[j] = q[k] => j = k
  BY <1>1, <1>2 DEF Once
<1>4. q \in Injection(1 .. Len(q), Blocks)
  BY <1>2, <1>3 DEF Injection, IsInjective
<1>5. Cardinality(1 .. Len(q)) <= Cardinality(Blocks)
  BY <1>4, SockAssumption, FS_Injection
<1>6. Cardinality(1 .. Len(q)) = Len(q)
  <2>1. Cardinality(1 .. Len(q)) = IF 1 > Len(q) THEN 0 ELSE (Len(q) - 1) + 1
    BY <1>2, FS_Interval
  <2> QED
    BY <1>2, <2>1
<1>7. Cardinality(Blocks) \in Nat
  BY SockAssumption, FS_CardinalityType
<1> QED
  BY <1>2, <1>5, <1>6, <1>7 DEF q

\* The references to a block are its places, counted.
LEMMA PlacesCounted ==
  ASSUME Types, Placed, NEW b \in Blocks
  PROVE  /\ References(b) <= 1
         /\ References(b) = 1 => b \in busy
         /\ (\E k \in Kinds, s \in Places : In(b, k, s)) => References(b) = 1
<1> DEFINE R == {k \in DOMAIN rxq : rxq[k].blk = b}
           T == {k \in DOMAIN txq : txq[k].blk = b}
           C == IF cur.blk = b THEN 1 ELSE 0
           X == IF rxblk = b THEN 1 ELSE 0
           S == {s \in Sockets : sblock[s] = b /\ Live(s)}
           Q == {p \in Sockets \X (1 .. Cardinality(Blocks)) :
                   p[2] \in DOMAIN queue[p[1]] /\ queue[p[1]][p[2]] = b}
<1>0. Apart /\ Rows
  BY DEF Placed
<1>1. /\ \A k \in R : In(b, "rx", NONE)
      /\ \A k \in T : In(b, "tx", NONE)
      /\ C = 1 => In(b, "cur", NONE)
      /\ X = 1 => In(b, "rxb", NONE)
      /\ \A s \in S : In(b, "block", s)
      /\ \A p \in Q : In(b, "queue", p[1]) /\ p[1] \in Sockets
  BY DEF In
<1>2. /\ \A j, k \in R : j = k
      /\ \A j, k \in T : j = k
  BY <1>0 DEF Rows, Distinct
<1>3. \A r, s \in S : r = s
  BY <1>0, <1>1 DEF Apart, Kinds, Places
<1>4. \A p, q \in Q : p = q
  <2> SUFFICES ASSUME NEW p \in Q, NEW q \in Q PROVE p = q
    OBVIOUS
  <2>1. p[1] = q[1]
    BY <1>0, <1>1 DEF Apart, Kinds, Places
  <2>2. p[2] = q[2]
    BY <1>0, <2>1 DEF Rows, Once
  <2> QED
    BY <2>1, <2>2
<1>5. /\ R # {} => In(b, "rx", NONE)
      /\ T # {} => In(b, "tx", NONE)
      /\ C # 0 => In(b, "cur", NONE)
      /\ X # 0 => In(b, "rxb", NONE)
      /\ S # {} => \E s \in Sockets : In(b, "block", s)
      /\ Q # {} => \E s \in Sockets : In(b, "queue", s)
  BY <1>1
<1>6. \A k, l \in Kinds, s, u \in Places : In(b, k, s) /\ In(b, l, u) => k = l /\ b \in busy
  BY <1>0 DEF Apart
<1>7. References(b) = Cardinality(R) + Cardinality(T) + C + X + Cardinality(S) + Cardinality(Q)
  BY DEF References
<1>8. C \in {0, 1} /\ X \in {0, 1}
  OBVIOUS
<1>9. ASSUME NEW k \in Kinds, NEW s \in Places, In(b, k, s)
      PROVE  R # {} \/ T # {} \/ C # 0 \/ X # 0 \/ S # {} \/ Q # {}
  <2>1. CASE k \in {"rxb", "rx", "tx", "cur", "block"}
    BY <1>9, <2>1 DEF In
  <2>2. CASE k = "queue"
    <3>1. s \in Sockets /\ DOMAIN queue[s] \subseteq 1 .. Cardinality(Blocks)
      BY <1>0, <1>9, <2>2, QueueFits DEF In
    <3>2. PICK j \in DOMAIN queue[s] : queue[s][j] = b
      BY <1>9, <2>2 DEF In
    <3>3. <<s, j>> \in Q
      BY <3>1, <3>2
    <3> QED
      BY <3>3
  <2> QED
    BY <2>1, <2>2 DEF Kinds
<1> HIDE DEF R, T, C, X, S, Q
<1>10. /\ (R = {} /\ Cardinality(R) = 0) \/ (R # {} /\ Cardinality(R) = 1)
       /\ (T = {} /\ Cardinality(T) = 0) \/ (T # {} /\ Cardinality(T) = 1)
       /\ (S = {} /\ Cardinality(S) = 0) \/ (S # {} /\ Cardinality(S) = 1)
       /\ (Q = {} /\ Cardinality(Q) = 0) \/ (Q # {} /\ Cardinality(Q) = 1)
  <2>1. ASSUME NEW A, \A x, y \in A : x = y
        PROVE  (A = {} /\ Cardinality(A) = 0) \/ (A # {} /\ Cardinality(A) = 1)
    <3>1. A = {} \/ \E x : A = {x}
      BY <2>1, SMTT(30)
    <3> QED
      BY <3>1, FS_EmptySet, FS_Singleton
  <2> QED
    BY <1>2, <1>3, <1>4, <2>1
<1>11. /\ R # {} => T = {} /\ C = 0 /\ X = 0 /\ S = {} /\ Q = {} /\ b \in busy
       /\ T # {} => C = 0 /\ X = 0 /\ S = {} /\ Q = {} /\ b \in busy
       /\ C # 0 => X = 0 /\ S = {} /\ Q = {} /\ b \in busy
       /\ X # 0 => S = {} /\ Q = {} /\ b \in busy
       /\ S # {} => Q = {} /\ b \in busy
       /\ Q # {} => b \in busy
  BY <1>5, <1>6 DEF Kinds, Places
<1> QED
  BY <1>7, <1>8, <1>9, <1>10, <1>11

\* As long as the peer does not hang up, a block somebody will still read, send
\* or free is busy, and exactly one place refers to it: the receive interrupt, a
\* frame in a queue, the receive task, the block or the queue of one socket.  No task reads a block
\* after it was freed and none frees one twice.
THEOREM BlockHasOneUser ==
  ASSUME "Disconnect" \notin Sends
  PROVE  Spec => []BlocksHaveOneUser
<1>1. Types /\ Placed => BlocksHaveOneUser
  BY PlacesCounted DEF BlocksHaveOneUser
<1>2. (Types /\ Polite) /\ Placed /\ [Next]_vars => Placed'
  BY NextPlaced DEF Polite
<1> QED
  BY <1>1, <1>2, InitPlaced, PoliteInvariance, PTL DEF Spec

-----------------------------------------------------------------------------
(***************************************************************************)
(* No block is forgotten but the late ones.                                *)
(*                                                                         *)
(* The danger is the window of slip_sock_free: a block put in the queue of *)
(* a socket after the loop has emptied it is forgotten by the next         *)
(* queue_init.  Every other block stays in a place until it is freed: it   *)
(* only ever moves from one to the next.  A late one is never freed.       *)
(***************************************************************************)
RecvLacks == {"recv_get", "recv_wait", "recv_used"}

\* Sockets whose queue nobody will look at again before queue_init.
Forgotten(s) == Emptied(s) \/ (at[Rx] = s /\ pc[Rx] = "new")

\* When a place is free to be written: the hand of the receive task, the hand
\* of a client and the queue of a socket.
Free == /\ pc[Rx] \in {"get", "signal"} => cur = Nothing
        /\ \A t \in Clients : pc[t] \in RecvLacks => sblock[at[t]] = NONE
        /\ \A s \in Sockets : Forgotten(s) => \A j \in DOMAIN queue[s] : queue[s][j] \in late

\* A block in the hands or the queue of a socket.
Has(s, b) == In(b, "block", s) \/ In(b, "queue", s)

\* Every busy block has a place, or was pushed too late.
Kept == \A b \in busy \ late : \E k \in Kinds, s \in Places : In(b, k, s)

\* Who a step that is not its own leaves alone.
LEMMA OthersStay ==
  ASSUME Types, [Next]_vars, NEW t \in Tasks
  PROVE  \/ pc'[t] = pc[t] /\ at'[t] = at[t]
         \/ t = Rx /\ RxTask
         \/ t = Server /\ ServerTask
         \/ t \in Clients /\ ClientTask(t)
         \/ t \in Clients /\ pc[t] = "dead" /\ pc'[t] = "act"
<1> USE DEF Types
<1>1. CASE RxTask
  BY <1>1, RxHandles
<1>2. CASE ServerTask /\ t # Server
  <2>1. CASE ServerPermit \/ ServerAccept
    BY <1>2, <2>1 DEF ServerPermit, ServerAccept, Goto, PcTypes, Handles
  <2>2. CASE ServerSpawn
    <3>1. CASE \E u \in Clients : /\ pc[u] = "dead" /\ pc' = [pc EXCEPT ![u] = "act", ![Server] = "permit"]
                                 /\ at' = [at EXCEPT ![u] = at[Server], ![Server] = NONE]
      BY <1>2, <3>1, TasksApart DEF PcTypes, Handles
    <3>2. CASE pc' = [pc EXCEPT ![Server] = "free_test"] /\ at' = at
      BY <1>2, <3>2 DEF PcTypes
    <3> QED
      BY <2>2, <3>1, <3>2 DEF ServerSpawn
  <2>3. CASE SlipSockFree(Server)
    BY <1>2, <2>3 DEF SlipSockFree, FreeTest, FreeBlock, FreeQueue, FreeUsed, FreeSignal, Goto, PcTypes, Handles
  <2>4. CASE CloseSend(Server) \/ Release(Server)
    BY <1>2, <2>4 DEF CloseSend, Release, Goto, PcTypes, taskVars
  <2> QED
    BY <1>2, <2>1, <2>2, <2>3, <2>4 DEF ServerTask
<1>3. ASSUME NEW u \in Clients, ClientTask(u), u # t
      PROVE  pc'[t] = pc[t] /\ at'[t] = at[t]
  <2>1. pc'[t] = pc[t]
    BY <1>3, TasksApart DEF ClientTask, ClientRecv, ClientSend, ClientClose, SlipSockRecv, RecvTest, RecvGet,
            RecvWait, RecvUsed, RecvCopy, RecvFree, RecvNull, CloseStart, CloseSend, Release, SlipSockFree,
            FreeTest, FreeBlock, FreeQueue, FreeUsed, FreeSignal, Goto, PcTypes
  <2>2. at'[t] = at[t]
    BY <1>3, TasksApart DEF ClientTask, ClientRecv, ClientSend, ClientClose, SlipSockRecv, RecvTest, RecvGet,
            RecvWait, RecvUsed, RecvCopy, RecvFree, RecvNull, CloseStart, CloseSend, Release, SlipSockFree,
            FreeTest, FreeBlock, FreeQueue, FreeUsed, FreeSignal, Goto, Handles
  <2> QED
    BY <2>1, <2>2
<1>4. CASE Transmit \/ Delimiter \/ (\E j \in Ids : PeerConnect(j) \/ PeerData(j) \/ PeerHangUp(j)) \/ UNCHANGED vars
  BY <1>4 DEF Transmit, Delimiter, PeerConnect, PeerData, PeerHangUp, PeerSends, FrameEnds, NextBlock, vars
<1> QED
  BY <1>1, <1>2, <1>3, <1>4 DEF Next

\* What can happen to the flag, the queue and the block of a socket.
LEMMA SockSteps ==
  ASSUME Types, [Next]_vars, NEW s \in Sockets
  PROVE  /\ \/ used'[s] = used[s]
            \/ ~used[s] /\ RxDispatch /\ at'[Rx] = s /\ pc'[Rx] = "new"
            \/ \E t \in Tasks : FreeUsed(t) /\ at[t] = s
         /\ \/ queue'[s] = queue[s]
            \/ RxNew /\ at[Rx] = s /\ queue'[s] = <<>>
            \/ queue[s] # <<>> /\ queue'[s] = Tail(queue[s])
            \/ RxPush /\ at[Rx] = s /\ queue'[s] = Append(queue[s], cur.blk)
         /\ \/ sblock'[s] = sblock[s]
            \/ RxNew /\ at[Rx] = s /\ sblock'[s] = NONE
            \/ \E t \in Clients : (RecvGet(t) \/ RecvNull(t)) /\ at[t] = s
<1> USE DEF Types
<1>1. CASE UNCHANGED <<used, queue, sblock>>
  BY <1>1
<1>2. CASE RxDispatch
  <2>1. CASE used' # used
    <3>1. PICK r \in Sockets : /\ ~used[r] /\ used' = [used EXCEPT ![r] = TRUE]
                               /\ at' = [at EXCEPT ![Rx] = r] /\ pc' = [pc EXCEPT ![Rx] = "new"]
      BY <1>2, <2>1 DEF RxDispatch
    <3>2. UNCHANGED <<queue, sblock>>
      BY <1>2 DEF RxDispatch
    <3> QED
      BY <1>2, <3>1, <3>2, TasksApart DEF SockTypes, PcTypes, Handles
  <2> QED
    BY <1>1, <1>2, <2>1 DEF RxDispatch
<1>3. CASE RxPush
  BY <1>3 DEF RxPush, SockTypes
<1>4. ASSUME NEW t \in Tasks, SlipSockFree(t)
      PROVE  /\ sblock' = sblock
             /\ used'[s] = used[s] \/ (FreeUsed(t) /\ at[t] = s)
             /\ queue'[s] = queue[s] \/ (queue[s] # <<>> /\ queue'[s] = Tail(queue[s]))
  BY <1>4 DEF SlipSockFree, FreeTest, FreeBlock, FreeQueue, FreeUsed, FreeSignal, sockVars, SockTypes
<1>9. CASE RxNew
  BY <1>9 DEF RxNew, SockTypes
<1>5. CASE RxTask
  BY <1>1, <1>2, <1>3, <1>4, <1>5, <1>9, TasksApart DEF RxTask, RxGet, RxName, RxOffer, RxSignal, RxRefuse, RxDone, sockVars
<1>6. CASE ServerTask
  BY <1>1, <1>4, <1>6, TasksApart DEF ServerTask, ServerPermit, ServerAccept, ServerSpawn, CloseSend, Release, sockVars
<1>7. ASSUME NEW t \in Clients, ClientTask(t)
      PROVE  /\ used'[s] = used[s] \/ (FreeUsed(t) /\ at[t] = s)
             /\ queue'[s] = queue[s] \/ (queue[s] # <<>> /\ queue'[s] = Tail(queue[s]))
             /\ sblock'[s] = sblock[s] \/ ((RecvGet(t) \/ RecvNull(t)) /\ at[t] = s)
  <2>1. CASE RecvGet(t) \/ RecvNull(t)
    BY <2>1, ZenonT(60) DEF RecvGet, RecvNull, SockTypes
  <2>2. CASE ~(RecvGet(t) \/ RecvNull(t) \/ SlipSockFree(t))
    BY <1>7, <2>2 DEF ClientTask, ClientRecv, ClientSend, ClientClose, SlipSockRecv, RecvTest,
              RecvWait, RecvUsed, RecvCopy, RecvFree, CloseStart, CloseSend, Release, sockVars
  <2> QED
    BY <1>4, <1>7, <2>1, <2>2, TasksApart
<1>8. CASE Transmit \/ Delimiter \/ (\E i \in Ids : PeerConnect(i) \/ PeerData(i) \/ PeerHangUp(i)) \/ UNCHANGED vars
  BY <1>1, <1>8 DEF Transmit, Delimiter, PeerConnect, PeerData, PeerHangUp, PeerSends, FrameEnds, NextBlock, vars, sockVars
<1> QED
  BY <1>5, <1>6, <1>7, <1>8, TasksApart DEF Next

\* Only the receive task changes the frame it handles.
LEMMA CurSteps ==
  ASSUME [Next]_vars
  PROVE  cur' = cur \/ RxGet \/ RxPush \/ RxRefuse \/ RxDone
<1>1. CASE RxTask
  BY <1>1 DEF RxTask, RxDispatch, RxNew, RxName, RxOffer, RxSignal, SlipSockFree, FreeTest, FreeBlock, FreeQueue, FreeUsed, FreeSignal
<1>2. CASE ServerTask
  BY <1>2 DEF ServerTask, ServerPermit, ServerAccept, ServerSpawn, SlipSockFree, CloseSend, Release,
              FreeTest, FreeBlock, FreeQueue, FreeUsed, FreeSignal
<1>3. ASSUME NEW t \in Clients, ClientTask(t) PROVE cur' = cur
  BY <1>3 DEF ClientTask, ClientRecv, ClientSend, ClientClose, SlipSockRecv, RecvTest, RecvGet,
              RecvWait, RecvUsed, RecvCopy, RecvFree, RecvNull, CloseStart, SlipSockFree, CloseSend, Release,
              FreeTest, FreeBlock, FreeQueue, FreeUsed, FreeSignal
<1>4. CASE Transmit \/ Delimiter \/ (\E i \in Ids : PeerConnect(i) \/ PeerData(i) \/ PeerHangUp(i)) \/ UNCHANGED vars
  BY <1>4 DEF Transmit, Delimiter, PeerConnect, PeerData, PeerHangUp, PeerSends, FrameEnds, NextBlock, vars
<1> QED
  BY <1>1, <1>2, <1>3, <1>4 DEF Next

\* Only a push adds a late block, and none is taken back.
LEMMA LateSteps ==
  ASSUME [Next]_vars
  PROVE  late' = late \/ RxPush
<1>1. CASE RxTask
  BY <1>1 DEF RxTask, RxGet, RxDispatch, RxNew, RxName, RxOffer, RxSignal, RxRefuse, RxDone,
              SlipSockFree, FreeTest, FreeBlock, FreeQueue, FreeUsed, FreeSignal, taskVars
<1>2. CASE ServerTask
  BY <1>2 DEF ServerTask, ServerPermit, ServerAccept, ServerSpawn, SlipSockFree, CloseSend, Release,
              FreeTest, FreeBlock, FreeQueue, FreeUsed, FreeSignal, taskVars
<1>3. ASSUME NEW t \in Clients, ClientTask(t) PROVE late' = late
  BY <1>3 DEF ClientTask, ClientRecv, ClientSend, ClientClose, SlipSockRecv, RecvTest, RecvGet,
              RecvWait, RecvUsed, RecvCopy, RecvFree, RecvNull, CloseStart, SlipSockFree, CloseSend, Release,
              FreeTest, FreeBlock, FreeQueue, FreeUsed, FreeSignal, taskVars
<1>4. CASE Transmit \/ Delimiter \/ (\E i \in Ids : PeerConnect(i) \/ PeerData(i) \/ PeerHangUp(i)) \/ UNCHANGED vars
  BY <1>4 DEF Transmit, Delimiter, PeerConnect, PeerData, PeerHangUp, PeerSends, FrameEnds, NextBlock, vars, taskVars
<1> QED
  BY <1>1, <1>2, <1>3, <1>4 DEF Next

-----------------------------------------------------------------------------
(***************************************************************************)
(* A place is free when it is written.                                     *)
(***************************************************************************)
LEMMA InitFree == Init => Free /\ Kept
<1> SUFFICES ASSUME Init PROVE Free /\ Kept
  OBVIOUS
<1>1. Free
  BY TasksApart DEF Init, Free, RecvLacks
<1>2. ASSUME NEW b \in busy PROVE In(b, "rxb", NONE)
  BY <1>2 DEF Init, In
<1> QED
  BY <1>1, <1>2 DEF Kept, Kinds, Places

\* The receive task has no frame when it asks for one.
LEMMA NextCurFree ==
  ASSUME Types, [Next]_vars, Free
  PROVE  pc'[Rx] \in {"get", "signal"} => cur' = Nothing
<1> USE DEF Types
<1>0. Rx \in Tasks /\ (pc[Rx] \in {"get", "signal"} => cur = Nothing)
  BY TasksApart DEF Free
<1>1. CASE RxTask
  <2>1. CASE RxPush \/ RxRefuse \/ RxDone
    BY <2>1 DEF RxPush, RxRefuse, RxDone
  <2>2. CASE RxSignal
    BY <1>0, <2>2 DEF RxSignal, Goto
  <2>3. CASE RxGet \/ RxDispatch \/ RxNew \/ RxName \/ RxOffer
    BY <1>0, <2>3 DEF RxGet, RxDispatch, RxNew, RxName, RxOffer, Goto, PcTypes
  <2>4. CASE SlipSockFree(Rx)
    BY <1>0, <2>4 DEF SlipSockFree, FreeTest, FreeBlock, FreeQueue, FreeUsed, FreeSignal, Goto, PcTypes
  <2> QED
    BY <1>1, <2>1, <2>2, <2>3, <2>4 DEF RxTask
<1>2. CASE ~RxTask
  <2>1. pc'[Rx] = pc[Rx]
    BY <1>0, <1>2, OthersStay, TasksApart
  <2>2. cur' = cur
    BY <1>2, CurSteps DEF RxTask
  <2> QED
    BY <1>0, <2>1, <2>2
<1> QED
  BY <1>1, <1>2

\* A client that waits has no block.
LEMMA NextHandFree ==
  ASSUME Types, [Next]_vars, Owned, Free, NEW t \in Clients, pc'[t] \in RecvLacks
  PROVE  sblock'[at'[t]] = NONE
<1> USE DEF Types
<1>0. t \in Tasks /\ t # Rx /\ t # Server /\ (pc[t] \in RecvLacks => sblock[at[t]] = NONE)
  BY TasksApart DEF Free
<1>1. ASSUME pc[t] \in RecvLacks, ~(RecvGet(t) \/ RecvNull(t))
      PROVE  sblock'[at[t]] = NONE
  <2>1. at[t] \in Sockets /\ Holds(t, at[t])
    BY <1>0, <1>1 DEF Handles, TaskHandle, Holds, HoldPcs, RecvPcs, RecvLacks
  <2>2. ASSUME NEW u \in Clients, RecvGet(u) \/ RecvNull(u), at[u] = at[t] PROVE FALSE
    <3>1. Holds(u, at[t]) /\ u \in Tasks
      BY <2>2, TasksApart DEF Holds, HoldPcs, RecvPcs, RecvGet, RecvNull, Goto
    <3> QED
      BY <1>0, <1>1, <2>1, <2>2, <3>1 DEF Owned
  <2> QED
    BY <1>0, <1>1, <2>1, <2>2, SockSteps
<1>2. CASE pc'[t] = pc[t] /\ at'[t] = at[t]
  <2>1. ~(RecvGet(t) \/ RecvNull(t))
    BY <1>0, <1>2 DEF RecvGet, RecvNull, Goto, PcTypes, RecvLacks
  <2> QED
    BY <1>1, <1>2, <2>1
<1>3. CASE ClientTask(t)
  <2>1. CASE SlipSockFree(t) \/ ClientRecv(t) \/ CloseSend(t) \/ Release(t) \/ RecvFree(t) \/ RecvNull(t)
             \/ ClientClose(t) \/ CloseStart(t) \/ RecvCopy(t)
    BY <1>0, <2>1 DEF SlipSockFree, FreeTest, FreeBlock, FreeQueue, FreeUsed, FreeSignal, ClientRecv, CloseSend,
           Release, RecvFree, RecvNull, ClientClose, CloseStart, RecvCopy, Goto, PcTypes, RecvLacks
  <2>2. CASE ClientSend(t)
    BY <1>0, <2>2 DEF ClientSend, PcTypes, RecvLacks
  <2>4. CASE RecvTest(t)
    BY <1>0, <2>4 DEF RecvTest, Goto, PcTypes, sockVars, RecvLacks
  <2>5. CASE RecvGet(t)
    <3>1. at[t] \in Sockets /\ at' = at
      BY <1>0, <2>5 DEF RecvGet, Handles, TaskHandle, RecvPcs
    <3> QED
      BY <1>0, <2>5, <3>1 DEF RecvGet, PcTypes, SockTypes, RecvLacks
  <2>6. CASE RecvWait(t) \/ RecvUsed(t)
    BY <1>0, <2>6 DEF RecvWait, RecvUsed, Goto, RecvLacks, sockVars
  <2> QED
    BY <1>3, <2>1, <2>2, <2>4, <2>5, <2>6 DEF ClientTask, SlipSockRecv
<1> QED
  BY <1>0, <1>2, <1>3, OthersStay DEF RecvLacks

\* A socket comes to be forgotten when its loop finds the queue empty, and
\* until then what is pushed is not late.
LEMMA ForgottenBefore ==
  ASSUME Types, [Next]_vars, NEW s \in Sockets, Forgotten(s)'
  PROVE  Forgotten(s) \/ (queue[s] = <<>> /\ queue' = queue)
<1> USE DEF Types
<1>1. CASE ~used'[s]
  <2>1. ASSUME NEW t \in Tasks, FreeUsed(t), at[t] = s PROVE Forgotten(s)
    BY <2>1 DEF FreeUsed, Goto, Forgotten, Emptied
  <2>2. ~used[s] => Forgotten(s)
    BY DEF Forgotten, Emptied
  <2>3. \/ used'[s] = used[s] \/ ~used[s]
        \/ \E t \in Tasks : FreeUsed(t) /\ at[t] = s
    BY SockSteps
  <2> QED
    BY <1>1, <2>1, <2>2, <2>3
<1>2. ASSUME NEW t \in Tasks, at'[t] = s, pc'[t] = "free_used"
      PROVE  Forgotten(s) \/ (queue[s] = <<>> /\ queue' = queue)
  <2>1. CASE pc[t] = "free_used" /\ at[t] = s
    BY <2>1 DEF Forgotten, Emptied
  <2>2. ASSUME FreeQueue(t) PROVE Forgotten(s) \/ (queue[s] = <<>> /\ queue' = queue)
    BY <1>2, <2>1, <2>2 DEF FreeQueue
  <2>3. CASE SlipSockFree(t)
    BY <1>2, <2>2, <2>3 DEF SlipSockFree, FreeTest, FreeBlock, FreeUsed, FreeSignal, Goto, PcTypes
  <2>4. CASE RxTask /\ t = Rx
    BY <1>2, <2>3, <2>4, TasksApart DEF RxTask, RxGet, RxDispatch, RxNew, RxName, RxOffer, RxPush, RxSignal,
              RxRefuse, RxDone, Goto, PcTypes
  <2>5. CASE t \in Clients /\ ClientTask(t)
    BY <1>2, <2>3, <2>5, TasksApart DEF ClientTask, ClientRecv, ClientSend, ClientClose, SlipSockRecv, RecvTest, RecvGet,
          RecvWait, RecvUsed, RecvCopy, RecvFree, RecvNull, CloseStart, CloseSend, Release, Goto, PcTypes
  <2>6. CASE t = Server /\ ServerTask
    BY <1>2, <2>3, <2>6, TasksApart DEF ServerTask, ServerPermit, ServerAccept, ServerSpawn, CloseSend, Release, Goto, PcTypes
  <2> QED
    BY <1>2, <2>1, <2>4, <2>5, <2>6, OthersStay
<1>3. CASE at'[Rx] = s /\ pc'[Rx] = "new"
  <2>1. CASE RxTask
    <3>1. RxDispatch \/ (pc[Rx] = "new" /\ at[Rx] = s)
      BY <1>3, <2>1, TasksApart DEF RxTask, RxGet, RxNew, RxName, RxOffer, RxPush, RxSignal, RxRefuse, RxDone, Goto,
                SlipSockFree, FreeTest, FreeBlock, FreeQueue, FreeUsed, FreeSignal, PcTypes
    <3>2. RxDispatch => ~used[s]
      BY <1>3, TasksApart DEF RxDispatch, PcTypes, Handles
    <3> QED
      BY <3>1, <3>2 DEF Forgotten, Emptied
  <2>2. CASE ~RxTask
    <3>1. pc'[Rx] = pc[Rx] /\ at'[Rx] = at[Rx]
      BY <2>2, OthersStay, TasksApart
    <3> QED
      BY <1>3, <3>1 DEF Forgotten
  <2> QED
    BY <2>1, <2>2
<1> QED
  BY <1>1, <1>2, <1>3 DEF Forgotten, Emptied

\* The queue of a forgotten socket holds late blocks only.
LEMMA NextQueueFree ==
  ASSUME Types, [Next]_vars, Free, NEW s \in Sockets, Forgotten(s)', NEW j \in DOMAIN queue'[s]
  PROVE  queue'[s][j] \in late'
<1> USE DEF Types
<1>0. queue[s] \in Seq(Blocks) /\ late \subseteq late'
  BY LateSteps DEF SockTypes, RxPush
<1>1. CASE Forgotten(s)
  <2>1. \A k \in DOMAIN queue[s] : queue[s][k] \in late
    BY <1>1 DEF Free
  <2>2. CASE queue'[s] = queue[s]
    BY <1>0, <2>1, <2>2
  <2>3. CASE queue[s] # <<>> /\ queue'[s] = Tail(queue[s])
    <3>1. j \in 1 .. Len(queue[s]) - 1 /\ queue'[s][j] = queue[s][j + 1] /\ j + 1 \in DOMAIN queue[s]
      BY <1>0, <2>3
    <3> QED
      BY <1>0, <2>1, <3>1
  <2>4. CASE queue'[s] = <<>>
    BY <2>4
  <2>5. CASE RxPush /\ at[Rx] = s /\ queue'[s] = Append(queue[s], cur.blk)
    <3>1. Emptied(s)
      BY <1>1, <2>5 DEF Forgotten, RxPush, Goto
    <3>2. cur.blk \in late'
      BY <2>5, <3>1 DEF RxPush
    <3>3. j = Len(queue[s]) + 1 \/ (j \in DOMAIN queue[s] /\ queue'[s][j] = queue[s][j])
      BY <1>0, <2>5
    <3>4. queue'[s][Len(queue[s]) + 1] = cur.blk
      BY <1>0, <2>5
    <3> QED
      BY <1>0, <2>1, <3>2, <3>3, <3>4
  <2> QED
    BY <2>2, <2>3, <2>4, <2>5, SockSteps
<1>2. CASE queue[s] = <<>> /\ queue' = queue
  BY <1>2
<1> QED
  BY <1>1, <1>2, ForgottenBefore

LEMMA NextFree ==
  ASSUME Types, [Next]_vars, Owned, Free
  PROVE  Free'
  BY NextCurFree, NextHandFree, NextQueueFree DEF Free

-----------------------------------------------------------------------------
(***************************************************************************)
(* A block that leaves a place gets to the next one or is freed.           *)
(***************************************************************************)

\* Nothing in a row is lost by an insertion, and only its head by a removal.
LEMMA RowLasts ==
  ASSUME NEW S, NEW q \in Seq(S), NEW j \in DOMAIN q
  PROVE  /\ q # <<>> => q[j] = Head(q) \/ \E n \in DOMAIN Tail(q) : Tail(q)[n] = q[j]
         /\ \A e \in S : /\ j \in DOMAIN Append(q, e) /\ Append(q, e)[j] = q[j]
                         /\ Len(q) + 1 \in DOMAIN Append(q, e) /\ Append(q, e)[Len(q) + 1] = e
<1>1. ASSUME NEW e \in S
      PROVE  /\ j \in DOMAIN Append(q, e) /\ Append(q, e)[j] = q[j]
             /\ Len(q) + 1 \in DOMAIN Append(q, e) /\ Append(q, e)[Len(q) + 1] = e
  OBVIOUS
<1>2. ASSUME q # <<>>, j # 1
      PROVE  \E n \in DOMAIN Tail(q) : Tail(q)[n] = q[j]
  <2>1. /\ DOMAIN Tail(q) = 1 .. Len(q) - 1 /\ DOMAIN q = 1 .. Len(q) /\ Len(q) \in Nat \ {0}
        /\ \A n \in 1 .. Len(q) - 1 : Tail(q)[n] = q[n + 1]
    BY <1>2
  <2>2. j - 1 \in DOMAIN Tail(q) /\ Tail(q)[j - 1] = q[j]
    BY <1>2, <2>1
  <2> QED
    BY <2>2
<1>3. q # <<>> /\ j = 1 => q[j] = Head(q)
  OBVIOUS
<1> QED
  BY <1>1, <1>2, <1>3

\* What is put at the end of a row is there.
LEMMA LastIn ==
  ASSUME NEW S, NEW q \in Seq(S), NEW e \in S
  PROVE  \E n \in DOMAIN Append(q, e) : Append(q, e)[n] = e
<1>1. Len(q) + 1 \in DOMAIN Append(q, e) /\ Append(q, e)[Len(q) + 1] = e
  OBVIOUS
<1> QED
  BY <1>1

\* The block in the hand of a client stays there until it is freed.
LEMMA BlockLasts ==
  ASSUME Types, [Next]_vars, Free, NEW b \in Blocks, NEW s \in Sockets, In(b, "block", s), b \in busy'
  PROVE  In(b, "block", s)'
<1> USE DEF Types
<1>1. sblock[s] = b /\ used[s] /\ b # NONE /\ \A t \in Tasks : at[t] = s => pc[t] \notin Past
  BY SockAssumption DEF In, Live, Past
<1>2. sblock'[s] = sblock[s]
  <2>1. ASSUME NEW t \in Clients, RecvGet(t) \/ RecvNull(t), at[t] = s PROVE FALSE
    <3>1. pc[t] \in {"recv_get", "recv_null"} /\ t \in Tasks
      BY <2>1, TasksApart DEF RecvGet, RecvNull, Goto
    <3> QED
      BY <1>1, <2>1, <3>1 DEF Past, Free, RecvLacks
  <2>2. ~(RxNew /\ at[Rx] = s)
    BY <1>1, TasksApart DEF RxNew, Goto, Past
  <2> QED
    BY <1>1, <2>1, <2>2, SockSteps
<1>3. used'[s]
  <2>1. ASSUME NEW t \in Tasks, FreeUsed(t), at[t] = s PROVE FALSE
    BY <1>1, <2>1 DEF FreeUsed, Goto, Past
  <2> QED
    BY <1>1, <2>1, SockSteps
<1>4. ASSUME NEW t \in Tasks, at'[t] = s PROVE pc'[t] \notin Past
  <2>1. CASE pc'[t] = pc[t] /\ at'[t] = at[t]
    BY <1>1, <1>4, <2>1
  <2>2. CASE SlipSockFree(t)
    <3>1. CASE FreeBlock(t)
      BY <1>1, <1>4, <3>1 DEF FreeBlock
    <3>2. CASE FreeQueue(t)
      BY <1>1, <1>4, <3>2 DEF FreeQueue, Past
    <3>3. CASE FreeUsed(t) \/ FreeSignal(t)
      BY <3>3 DEF FreeUsed, FreeSignal, Goto, Past, PcTypes
    <3>4. CASE FreeTest(t)
      BY <1>1, <1>4, <3>4 DEF FreeTest, Goto, Past, PcTypes
    <3> QED
      BY <2>2, <3>1, <3>2, <3>3, <3>4 DEF SlipSockFree
  <2>3. CASE t = Rx /\ RxTask /\ ~SlipSockFree(t)
    <3>1. CASE RxDispatch
      BY <1>1, <1>4, <2>3, <3>1 DEF RxDispatch, PcTypes, Handles, Past
    <3> QED
      BY <2>3, <3>1 DEF RxTask, RxGet, RxNew, RxName, RxOffer, RxPush, RxSignal, RxRefuse, RxDone, Goto, PcTypes, Past
  <2>4. CASE t = Server /\ ServerTask /\ ~SlipSockFree(t)
    BY <2>4, TasksApart DEF ServerTask, ServerPermit, ServerAccept, ServerSpawn, CloseSend, Release, Goto, PcTypes, Past
  <2>5. CASE t \in Clients /\ ClientTask(t) /\ ~SlipSockFree(t)
    <3>1. CASE RecvFree(t)
      BY <1>1, <1>4, <3>1 DEF RecvFree
    <3>2. CASE ~RecvFree(t)
      BY <2>5, <3>2, TasksApart DEF ClientTask, ClientRecv, ClientSend, ClientClose, SlipSockRecv, RecvTest, RecvGet,
              RecvWait, RecvUsed, RecvCopy, RecvNull, CloseStart, CloseSend, Release, Goto, PcTypes, Past
    <3> QED
      BY <3>1, <3>2
  <2> QED
    BY <2>1, <2>2, <2>3, <2>4, <2>5, OthersStay DEF Past
<1> QED
  BY <1>1, <1>2, <1>3, <1>4 DEF In, Live, Past

\* A block in the queue of a socket stays there until it is freed or taken.
LEMMA QueueLasts ==
  ASSUME Types, Types', [Next]_vars, Owned', Free,
         NEW b \in Blocks, NEW s \in Sockets, In(b, "queue", s), b \in busy'
  PROVE  Has(s, b)' \/ b \in late
<1> USE DEF Types
<1>1. queue[s] \in Seq(Blocks) /\ queue[s] # <<>> /\ b # NONE
  BY SockAssumption DEF In, SockTypes
<1>2. PICK j \in DOMAIN queue[s] : queue[s][j] = b
  BY DEF In
<1>3. CASE queue'[s] = queue[s]
  BY <1>2, <1>3 DEF Has, In
<1>4. CASE queue'[s] = Tail(queue[s]) /\ b # Head(queue[s])
  <2>1. \E n \in DOMAIN Tail(queue[s]) : Tail(queue[s])[n] = b
    BY <1>1, <1>2, <1>4, RowLasts
  <2> QED
    BY <1>4, <2>1 DEF Has, In
<1>5. CASE RxPush
  <2>1. cur.blk \in Blocks /\ (queue'[s] = queue[s] \/ queue'[s] = Append(queue[s], cur.blk))
    BY <1>5, FrameFacts DEF RxPush, Goto, SockTypes, FrameTypes
  <2>2. CASE queue'[s] = Append(queue[s], cur.blk)
    <3>1. j \in DOMAIN queue'[s] /\ queue'[s][j] = b
      BY <1>1, <1>2, <2>1, <2>2, RowLasts
    <3> QED
      BY <3>1 DEF Has, In
  <2> QED
    BY <1>3, <2>1, <2>2
<1>6. CASE RxNew
  <2>1. at[Rx] = s => b \in late
    BY <1>2, <1>6 DEF Free, Forgotten, RxNew, Goto
  <2>2. at[Rx] # s => queue'[s] = queue[s]
    BY <1>6 DEF RxNew, SockTypes
  <2> QED
    BY <1>3, <2>1, <2>2
<1>7. ASSUME NEW t \in Tasks, SlipSockFree(t) PROVE Has(s, b)' \/ b \in late
  <2>1. CASE queue'[s] # queue[s]
    <3>1. busy' = busy \ {Head(queue[s])} /\ queue'[s] = Tail(queue[s])
      BY <1>7, <2>1 DEF SlipSockFree, FreeTest, FreeBlock, FreeQueue, FreeUsed, FreeSignal, sockVars, SockTypes
    <3> QED
      BY <1>4, <3>1
  <2> QED
    BY <1>3, <2>1
<1>8. ASSUME NEW t \in Clients, RecvGet(t) PROVE Has(s, b)' \/ b \in late
  <2>1. CASE queue'[s] # queue[s]
    <3>1. /\ at[t] = s /\ queue'[s] = Tail(queue[s]) /\ sblock'[s] = Head(queue[s])
          /\ pc'[t] = "recv_copy" /\ at' = at /\ t \in Tasks /\ t # Rx
      <4>1. t \in Tasks /\ t # Rx /\ at' = at
        BY <1>8, TasksApart DEF RecvGet
      <4>2. /\ sblock' = [sblock EXCEPT ![at[t]] = Head(queue[at[t]])]
            /\ queue' = [queue EXCEPT ![at[t]] = Tail(@)]
            /\ pc' = [pc EXCEPT ![t] = "recv_copy"]
        BY <1>8, <2>1 DEF RecvGet
      <4>3. at[t] = s
        BY <2>1, <4>2 DEF SockTypes
      <4> QED
        BY <4>1, <4>2, <4>3 DEF SockTypes, PcTypes
    <3>2. CASE b = Head(queue[s])
      <4>1. Holds(t, s)'
        BY <3>1 DEF Holds, HoldPcs, RecvPcs
      <4>2. used'[s] /\ \A u \in Tasks : u # t => ~Holds(u, s)'
        BY <3>1, <4>1 DEF Owned
      <4>3. ASSUME NEW u \in Tasks, at'[u] = s PROVE pc'[u] \notin Past
        <5>1. CASE u = t
          BY <3>1, <5>1 DEF Past
        <5>2. CASE u # t
          <6>1. pc'[u] \notin HoldPcs(u)
            BY <4>2, <4>3, <5>2 DEF Holds
          <6>2. u # Rx => Past \ {"new"} \subseteq HoldPcs(u) /\ pc'[u] # "new"
            BY TasksApart DEF Past, HoldPcs, RecvPcs, FreePcs, PcTypes, ServerPcs, ClientPcs
          <6>3. pc'[Rx] \in Past => pc'[Rx] \in HoldPcs(Rx)
            BY DEF PcTypes, RxPcs, Past, HoldPcs, FreePcs
          <6> QED
            BY <6>1, <6>2, <6>3
        <5> QED
          BY <5>1, <5>2
      <4> QED
        BY <1>1, <3>1, <3>2, <4>2, <4>3 DEF Has, In, Live, Past
    <3> QED
      BY <1>4, <3>1, <3>2
  <2> QED
    BY <1>3, <2>1
<1>9. CASE UNCHANGED queue
  BY <1>3, <1>9
<1>10. CASE RxTask
  BY <1>5, <1>6, <1>7, <1>9, <1>10, TasksApart DEF RxTask, RxGet, RxDispatch, RxName, RxOffer, RxSignal, RxRefuse, RxDone, sockVars
<1>11. CASE ServerTask
  BY <1>7, <1>9, <1>11, TasksApart DEF ServerTask, ServerPermit, ServerAccept, ServerSpawn, CloseSend, Release, sockVars
<1>12. ASSUME NEW t \in Clients, ClientTask(t) PROVE Has(s, b)' \/ b \in late
  BY <1>7, <1>8, <1>9, <1>12, TasksApart DEF ClientTask, ClientRecv, ClientSend, ClientClose, SlipSockRecv, RecvTest,
              RecvWait, RecvUsed, RecvCopy, RecvFree, RecvNull, CloseStart, CloseSend, Release, sockVars
<1>13. CASE Transmit \/ Delimiter \/ (\E i \in Ids : PeerConnect(i) \/ PeerData(i) \/ PeerHangUp(i)) \/ UNCHANGED vars
  BY <1>9, <1>13 DEF Transmit, Delimiter, PeerConnect, PeerData, PeerHangUp, PeerSends, FrameEnds, NextBlock, vars, sockVars
<1> QED
  BY <1>10, <1>11, <1>12, <1>13 DEF Next

\* A block a row of frames refers to is still there after an insertion, and
\* after a removal unless it was at the head.
LEMMA RowHolds ==
  ASSUME NEW q \in Seq(Frame), NEW b, \E j \in DOMAIN q : q[j].blk = b
  PROVE  /\ \A f \in Frame : \E j \in DOMAIN Append(q, f) : Append(q, f)[j].blk = b
         /\ q # <<>> => b = Head(q).blk \/ \E j \in DOMAIN Tail(q) : Tail(q)[j].blk = b
<1>1. PICK j \in DOMAIN q : q[j].blk = b
  OBVIOUS
<1>2. \A f \in Frame : \E n \in DOMAIN Append(q, f) : Append(q, f)[n].blk = b
  BY RowFacts
<1>3. ASSUME q # <<>>, b # Head(q).blk PROVE \E n \in DOMAIN Tail(q) : Tail(q)[n].blk = b
  <2>1. PICK n \in DOMAIN Tail(q) : Tail(q)[n] = q[j]
    BY <1>1, <1>3, RowLasts
  <2> QED
    BY <1>1, <2>1
<1> QED
  BY <1>2, <1>3

\* The rows, and the block of the receive interrupt, after a step.
LEMMA RowSteps ==
  ASSUME Types, [Next]_vars
  PROVE  /\ \/ rxq' = rxq /\ rxblk' = rxblk
            \/ \E f \in Frame : f.blk = rxblk /\ rxq' = Append(rxq, f)
            \/ rxblk = NONE /\ rxq' = rxq
            \/ RxGet
         /\ \/ txq' = txq
            \/ \E f \in Frame : txq' = Append(txq, f)
            \/ Transmit
         /\ \/ busy' \subseteq busy
            \/ \E f \in Frame : txq' = Append(txq, f) /\ busy' = busy \cup {f.blk}
            \/ rxblk' \in Blocks /\ busy' = busy \cup {rxblk'}
<1> USE DEF Types
<1> DEFINE R == \/ rxq' = rxq /\ rxblk' = rxblk
                \/ \E f \in Frame : f.blk = rxblk /\ rxq' = Append(rxq, f)
                \/ rxblk = NONE /\ rxq' = rxq
                \/ RxGet
           T == \/ txq' = txq
                \/ \E f \in Frame : txq' = Append(txq, f)
                \/ Transmit
           B == \/ busy' \subseteq busy
                \/ \E f \in Frame : txq' = Append(txq, f) /\ busy' = busy \cup {f.blk}
                \/ rxblk' \in Blocks /\ busy' = busy \cup {rxblk'}
<1> SUFFICES R /\ T /\ B
  OBVIOUS
<1>1. ASSUME NEW t \in Tasks, SlipSockFree(t) PROVE R /\ T /\ B
  BY <1>1 DEF SlipSockFree, FreeTest, FreeBlock, FreeQueue, FreeUsed, FreeSignal, poolVars
<1>2. CASE RxTask
  <2>1. CASE RxRefuse
    <3> DEFINE g == [cur EXCEPT !.cmd = "Disconnect"]
    <3>1. g \in Frame /\ txq' = Append(txq, g) /\ UNCHANGED <<busy, rxblk, rxq>>
      BY <2>1, FrameFacts DEF RxRefuse, Goto, FrameTypes
    <3> HIDE DEF g
    <3> QED
      BY <3>1
  <2> QED
    BY <1>1, <1>2, <2>1, TasksApart DEF RxTask, RxGet, RxDispatch, RxNew, RxName, RxOffer, RxPush, RxSignal, RxDone, poolVars
<1>3. ASSUME NEW b \in Blocks, NEW c \in Commands, NEW i \in Ids, busy' = busy \cup {b},
             txq' = Append(txq, [blk |-> b, cmd |-> c, id |-> i]), UNCHANGED <<rxblk, rxq>>
      PROVE  R /\ T /\ B
  <2> DEFINE f == [blk |-> b, cmd |-> c, id |-> i]
  <2>1. f \in Frame /\ f.blk = b /\ txq' = Append(txq, f)
    BY <1>3, FrameFacts
  <2> HIDE DEF f
  <2> QED
    BY <1>3, <2>1
<1>4. ASSUME NEW t \in Tasks \ {Rx}, CloseSend(t) PROVE R /\ T /\ B
  <2>1. closeId[t] \in Ids
    BY <1>4 DEF CloseSend, Goto, Handles, TaskHandle
  <2>2. CASE busy # Blocks
    BY <1>3, <1>4, <2>1, <2>2 DEF CloseSend, Commands
  <2>3. CASE busy = Blocks
    BY <1>4, <2>3 DEF CloseSend
  <2> QED
    BY <2>2, <2>3
<1>5. ASSUME NEW t \in Clients, ClientSend(t) PROVE R /\ T /\ B
  <2>1. sid[at[t]] \in Ids /\ t \in Tasks
    BY <1>5, TasksApart DEF ClientSend, Handles, TaskHandle
  <2>2. CASE busy # Blocks
    BY <1>3, <1>5, <2>1, <2>2 DEF ClientSend, Commands
  <2>3. CASE busy = Blocks
    BY <1>5, <2>3 DEF ClientSend
  <2> QED
    BY <2>2, <2>3
<1>6. CASE ServerTask
  BY <1>1, <1>4, <1>6, TasksApart DEF ServerTask, ServerPermit, ServerAccept, ServerSpawn, Release, poolVars
<1>7. ASSUME NEW t \in Clients, ClientTask(t) PROVE R /\ T /\ B
  BY <1>1, <1>4, <1>5, <1>7, TasksApart DEF ClientTask, ClientRecv, ClientClose, SlipSockRecv, RecvTest, RecvGet,
              RecvWait, RecvUsed, RecvCopy, RecvFree, RecvNull, CloseStart, Release, poolVars
<1>8. ASSUME NextBlock PROVE B
  BY <1>8 DEF NextBlock
<1>9. ASSUME NEW i \in Ids, NEW c \in Commands, FrameEnds(c, i) PROVE R /\ T /\ B
  <2>1. T /\ B
    BY <1>8, <1>9 DEF FrameEnds
  <2>2. CASE rxblk = NONE
    BY <1>9, <2>1, <2>2 DEF FrameEnds
  <2>3. CASE rxblk # NONE
    <3> DEFINE f == [blk |-> rxblk, cmd |-> c, id |-> i]
    <3>1. f \in Frame /\ f.blk = rxblk /\ rxq' = Append(rxq, f)
      BY <1>9, <2>3, FrameFacts DEF FrameEnds, FrameTypes
    <3> HIDE DEF f
    <3> QED
      BY <2>1, <3>1
  <2> QED
    BY <2>2, <2>3
<1>10. ASSUME NEW i \in Ids, PeerConnect(i) \/ PeerData(i) \/ PeerHangUp(i) PROVE R /\ T /\ B
  <2>1. PICK c \in Commands : FrameEnds(c, i)
    BY <1>10, SockAssumption DEF PeerConnect, PeerData, PeerHangUp, PeerSends, Commands
  <2> QED
    BY <1>9, <2>1
<1>11. CASE Transmit \/ Delimiter \/ UNCHANGED vars
  BY <1>8, <1>11 DEF Transmit, Delimiter, vars, poolVars
<1> QED
  BY <1>2, <1>6, <1>7, <1>10, <1>11 DEF Next

\* A busy block has a place after every step: a new one is in one of the rows,
\* and one that leaves its place without being freed has moved to the next.
LEMMA EveryBlockPlaced ==
  ASSUME Types, Types', [Next]_vars, Owned', Free, Kept
  PROVE  Kept'
<1> USE DEF Types
<1> SUFFICES ASSUME NEW b \in busy' \ late' PROVE \E k \in Kinds, s \in Places : In(b, k, s)'
  BY DEF Kept
<1>0. /\ b \notin late /\ b \in Blocks /\ b # NONE /\ rxq \in Seq(Frame) /\ txq \in Seq(Frame) /\ NONE \in Places
      /\ Kinds = {"rxb", "rx", "tx", "cur", "block", "queue"} /\ Sockets \subseteq Places
  BY SockAssumption, LateSteps DEF FrameTypes, Kinds, Places, RxPush
<1>1. ASSUME \E j \in DOMAIN rxq' : rxq'[j].blk = b PROVE \E k \in Kinds, s \in Places : In(b, k, s)'
  <2>1. In(b, "rx", NONE)'
    BY <1>1 DEF In
  <2> QED
    BY <1>0, <2>1
<1>2. ASSUME \E j \in DOMAIN txq' : txq'[j].blk = b PROVE \E k \in Kinds, s \in Places : In(b, k, s)'
  <2>1. In(b, "tx", NONE)'
    BY <1>2 DEF In
  <2> QED
    BY <1>0, <2>1
<1>3. ASSUME cur'.blk = b PROVE \E k \in Kinds, s \in Places : In(b, k, s)'
  <2>1. In(b, "cur", NONE)'
    BY <1>3 DEF In
  <2> QED
    BY <1>0, <2>1
<1>4. ASSUME NEW s \in Sockets, Has(s, b)' PROVE \E k \in Kinds, u \in Places : In(b, k, u)'
  BY <1>0, <1>4 DEF Has
<1>7. ASSUME rxblk' = b PROVE \E k \in Kinds, s \in Places : In(b, k, s)'
  <2>1. In(b, "rxb", NONE)'
    BY <1>7 DEF In
  <2> QED
    BY <1>0, <2>1
<1>5. CASE b \notin busy
  <2>1. CASE rxblk' = b
    BY <1>7, <2>1
  <2>2. CASE rxblk' # b
    <3>1. PICK f \in Frame : f.blk = b /\ txq' = Append(txq, f)
      BY <1>5, <2>2, RowSteps
    <3> QED
      BY <1>0, <1>2, <3>1, RowFacts
  <2> QED
    BY <2>1, <2>2
<1>6. CASE b \in busy
  <2>1. PICK k \in Kinds, s \in Places : In(b, k, s)
    BY <1>0, <1>6 DEF Kept
  <2>7. CASE k = "rxb"
    <3>1. rxblk = b
      BY <2>1, <2>7 DEF In
    <3>2. CASE rxblk' = rxblk
      BY <1>7, <3>1, <3>2
    <3>3. CASE \E f \in Frame : f.blk = rxblk /\ rxq' = Append(rxq, f)
      BY <1>0, <1>1, <3>1, <3>3, RowFacts
    <3> QED
      BY <1>0, <3>1, <3>2, <3>3, RowSteps DEF RxGet
  <2>2. CASE k = "rx"
    <3>1. \E j \in DOMAIN rxq : rxq[j].blk = b
      BY <2>1, <2>2 DEF In
    <3>2. CASE RxGet
      <4>1. rxq # <<>> /\ cur' = Head(rxq) /\ rxq' = Tail(rxq)
        BY <3>2 DEF RxGet
      <4>2. b = Head(rxq).blk \/ \E j \in DOMAIN Tail(rxq) : Tail(rxq)[j].blk = b
        BY <1>0, <3>1, <4>1, RowHolds
      <4> QED
        BY <1>1, <1>3, <4>1, <4>2
    <3>3. CASE rxq' = rxq
      BY <1>1, <3>1, <3>3
    <3>4. CASE \E f \in Frame : rxq' = Append(rxq, f)
      BY <1>0, <1>1, <3>1, <3>4, RowHolds
    <3> QED
      BY <3>2, <3>3, <3>4, RowSteps
  <2>3. CASE k = "tx"
    <3>1. \E j \in DOMAIN txq : txq[j].blk = b
      BY <2>1, <2>3 DEF In
    <3>2. CASE Transmit
      <4>1. txq # <<>> /\ b # Head(txq).blk /\ txq' = Tail(txq)
        BY <3>2 DEF Transmit
      <4>2. \E j \in DOMAIN Tail(txq) : Tail(txq)[j].blk = b
        BY <1>0, <3>1, <4>1, RowHolds
      <4> QED
        BY <1>2, <4>1, <4>2
    <3>4. CASE txq' = txq
      BY <1>2, <3>1, <3>4
    <3>5. CASE \E f \in Frame : txq' = Append(txq, f)
      BY <1>0, <1>2, <3>1, <3>5, RowHolds
    <3> QED
      BY <3>2, <3>4, <3>5, RowSteps
  <2>4. CASE k = "cur"
    <3>0. cur.blk = b /\ cur # Nothing
      BY <1>0, <2>1, <2>4 DEF In, Nothing
    <3>1. CASE cur' = cur
      BY <1>3, <3>0, <3>1
    <3>2. CASE RxGet
      BY <3>0, <3>2 DEF RxGet, Goto, Free
    <3>3. CASE RxPush
      <4>1. PICK u \in Sockets : u = at[Rx]
        BY <3>3 DEF RxPush, Goto, Handles, RxHandle
      <4>2. queue[u] \in Seq(Blocks) /\ queue'[u] = Append(queue[u], b)
        BY <3>0, <3>3, <4>1 DEF RxPush, SockTypes
      <4>3. \E n \in DOMAIN queue'[u] : queue'[u][n] = b
        BY <1>0, <4>2, LastIn
      <4>4. In(b, "queue", u)'
        BY <4>3 DEF In
      <4> QED
        BY <1>4, <4>4 DEF Has
    <3>4. CASE RxRefuse
      <4> DEFINE f == [cur EXCEPT !.cmd = "Disconnect"]
      <4>1. f \in Frame /\ f.blk = b /\ txq' = Append(txq, f)
        BY <3>0, <3>4, FrameFacts DEF RxRefuse, Goto, FrameTypes, Frame
      <4> HIDE DEF f
      <4> QED
        BY <1>0, <1>2, <4>1, RowFacts
    <3>5. CASE RxDone
      BY <3>0, <3>5 DEF RxDone
    <3> QED
      BY <3>1, <3>2, <3>3, <3>4, <3>5, CurSteps
  <2>5. CASE k = "block"
    <3>1. s \in Sockets /\ In(b, "block", s)
      BY <2>1, <2>5 DEF In
    <3> QED
      BY <1>0, <1>4, <3>1, BlockLasts DEF Has
  <2>6. CASE k = "queue"
    <3>1. s \in Sockets /\ In(b, "queue", s)
      BY <2>1, <2>6 DEF In
    <3> QED
      BY <1>0, <1>4, <3>1, QueueLasts
  <2> QED
    BY <1>0, <2>2, <2>3, <2>4, <2>5, <2>6, <2>7
<1> QED
  BY <1>5, <1>6

-----------------------------------------------------------------------------
(***************************************************************************)
(* What is late stays where it was pushed, and is never freed.             *)
(***************************************************************************)

\* A late block is busy, and at most in the queue of a forgotten socket.
Stray ==
  /\ late \subseteq busy
  /\ \A b \in late, k \in Kinds, s \in Places : In(b, k, s) => k = "queue" /\ Forgotten(s)

\* Nobody forgets a socket its holder still works on.
LEMMA HeldIsKnown ==
  ASSUME Types, Owned, NEW t \in Tasks, NEW s \in Sockets, Holds(t, s), pc[t] \notin {"free_used", "new"}
  PROVE  ~Forgotten(s)
<1>1. \A u \in Tasks : pc[u] = "free_used" => pc[u] \in HoldPcs(u)
  BY DEF HoldPcs, FreePcs
<1>2. pc[Rx] = "new" => pc[Rx] \in HoldPcs(Rx)
  BY DEF HoldPcs
<1> QED
  BY <1>1, <1>2, TasksApart DEF Forgotten, Emptied, Owned, Holds

\* The head of a row is in it.
LEMMA HeadIn ==
  ASSUME NEW S, NEW q \in Seq(S), q # <<>>
  PROVE  1 \in DOMAIN q /\ q[1] = Head(q)
  OBVIOUS

\* What is left when the head is taken was in the row before.
LEMMA TailIn ==
  ASSUME NEW S, NEW q \in Seq(S), q # <<>>, NEW n \in DOMAIN Tail(q)
  PROVE  n + 1 \in DOMAIN q /\ Tail(q)[n] = q[n + 1]
<1>1. DOMAIN Tail(q) = 1 .. Len(q) - 1 /\ DOMAIN q = 1 .. Len(q) /\ Len(q) \in Nat \ {0}
  OBVIOUS
<1> QED
  BY <1>1

\* slip_sock_free frees what the socket holds, which is not late.
LEMMA FreeSparesLate ==
  ASSUME Types, Owned, Stray, NEW t \in Tasks, SlipSockFree(t), NEW b \in late
  PROVE  b \in busy'
<1> USE DEF Types
<1>0. /\ b \in busy /\ b \in Blocks /\ b # NONE /\ Sockets \subseteq Places /\ {"block", "queue"} \subseteq Kinds
  BY SockAssumption DEF Stray, OtherTypes, Kinds, Places
<1>1. CASE FreeBlock(t)
  <2>1. pc[t] = "free_block" /\ at[t] \in Sockets /\ pc[t] \in HoldPcs(t) /\ pc[t] \notin Past
    BY <1>1, TasksApart DEF FreeBlock, Goto, FreePcs, Handles, RxHandle, TaskHandle, HoldPcs, Past
  <2>2. sblock[at[t]] # b
    BY <1>0, <2>1, HolderLive DEF Stray, In
  <2> QED
    BY <1>0, <1>1, <2>2 DEF FreeBlock
<1>2. CASE FreeQueue(t)
  <2>1. pc[t] = "free_queue" /\ at[t] \in Sockets /\ pc[t] \in HoldPcs(t)
    BY <1>2, TasksApart DEF FreeQueue, FreePcs, Handles, RxHandle, TaskHandle, HoldPcs
  <2>2. ~Forgotten(at[t])
    BY <2>1, HeldIsKnown DEF Holds
  <2>3. CASE queue[at[t]] # <<>>
    <3>1. In(Head(queue[at[t]]), "queue", at[t])
      BY <2>1, <2>3, HeadIn DEF In, SockTypes
    <3> QED
      BY <1>0, <1>2, <2>1, <2>2, <3>1 DEF Stray, FreeQueue
  <2> QED
    BY <1>0, <1>2, <2>3 DEF FreeQueue
<1> QED
  BY <1>0, <1>1, <1>2 DEF SlipSockFree, FreeTest, FreeUsed, FreeSignal, poolVars

\* No step frees a late block.
LEMMA LateStaysBusy ==
  ASSUME Types, [Next]_vars, Owned, Stray, NEW b \in late
  PROVE  b \in busy'
<1> USE DEF Types
<1>0. /\ b \in busy /\ b \in Blocks /\ b # NONE /\ NONE \in Places /\ Sockets \subseteq Places
      /\ {"cur", "tx", "block"} \subseteq Kinds
  BY SockAssumption DEF Stray, OtherTypes, Kinds, Places
<1>1. CASE RxTask
  <2>1. CASE RxDone
    <3>1. cur.blk # b
      BY <1>0 DEF Stray, In
    <3> QED
      BY <1>0, <2>1, <3>1 DEF RxDone
  <2> QED
    BY <1>0, <1>1, <2>1, FreeSparesLate, TasksApart
    DEF RxTask, RxGet, RxDispatch, RxNew, RxName, RxOffer, RxPush, RxSignal, RxRefuse, poolVars
<1>2. CASE ServerTask
  BY <1>0, <1>2, FreeSparesLate, TasksApart
  DEF ServerTask, ServerPermit, ServerAccept, ServerSpawn, CloseSend, Release, poolVars
<1>3. ASSUME NEW t \in Clients, ClientTask(t) PROVE b \in busy'
  <2>1. CASE RecvFree(t)
    <3>1. t \in Tasks /\ at[t] \in Sockets /\ pc[t] \in HoldPcs(t) /\ pc[t] \notin Past
      BY <2>1, TasksApart DEF RecvFree, Goto, RecvPcs, Handles, TaskHandle, HoldPcs, Past
    <3>2. sblock[at[t]] # b
      BY <1>0, <3>1, HolderLive DEF Stray, In
    <3> QED
      BY <1>0, <2>1, <3>2 DEF RecvFree
  <2> QED
    BY <1>0, <1>3, <2>1, FreeSparesLate, TasksApart
    DEF ClientTask, ClientRecv, ClientSend, ClientClose, SlipSockRecv, RecvTest, RecvGet, RecvWait, RecvUsed,
        RecvCopy, RecvNull, CloseStart, CloseSend, Release, poolVars
<1>4. CASE Transmit
  <2>1. In(Head(txq).blk, "tx", NONE)
    BY <1>4, HeadIn DEF Transmit, In, FrameTypes
  <2> QED
    BY <1>0, <1>4, <2>1 DEF Stray, Transmit
<1>5. CASE Delimiter \/ (\E i \in Ids : PeerConnect(i) \/ PeerData(i) \/ PeerHangUp(i)) \/ UNCHANGED vars
  BY <1>0, <1>5 DEF Delimiter, PeerConnect, PeerData, PeerHangUp, PeerSends, FrameEnds, NextBlock, vars, poolVars
<1> QED
  BY <1>1, <1>2, <1>3, <1>4, <1>5 DEF Next

\* Where the next block of the receive interrupt and the next frame of the
\* transmitter come from.
LEMMA TakenSteps ==
  ASSUME Types, [Next]_vars
  PROVE  /\ rxblk' = rxblk \/ rxblk' \notin busy
         /\ \/ txq' = txq \/ Transmit
            \/ \E f \in Frame : txq' = Append(txq, f) /\ (f.blk = cur.blk \/ f.blk \notin busy)
<1> USE DEF Types
<1> DEFINE T == \/ txq' = txq \/ Transmit
                \/ \E f \in Frame : txq' = Append(txq, f) /\ (f.blk = cur.blk \/ f.blk \notin busy)
<1> SUFFICES (rxblk' = rxblk \/ rxblk' \notin busy) /\ T
  OBVIOUS
<1>0. NONE \notin busy
  BY SockAssumption DEF FrameTypes
<1>1. ASSUME NEW t \in Tasks, SlipSockFree(t) PROVE rxblk' = rxblk /\ T
  BY <1>1 DEF SlipSockFree, FreeTest, FreeBlock, FreeQueue, FreeUsed, FreeSignal, poolVars
<1>2. CASE RxTask
  <2>1. CASE RxRefuse
    <3> DEFINE g == [cur EXCEPT !.cmd = "Disconnect"]
    <3>1. g \in Frame /\ g.blk = cur.blk /\ txq' = Append(txq, g) /\ rxblk' = rxblk
      BY <2>1, FrameFacts DEF RxRefuse, Goto, FrameTypes, Frame
    <3> HIDE DEF g
    <3> QED
      BY <3>1
  <2> QED
    BY <1>1, <1>2, <2>1, TasksApart DEF RxTask, RxGet, RxDispatch, RxNew, RxName, RxOffer, RxPush, RxSignal, RxDone, poolVars
<1>3. ASSUME NEW b \in Blocks \ busy, NEW c \in Commands, NEW i \in Ids,
             txq' = Append(txq, [blk |-> b, cmd |-> c, id |-> i])
      PROVE  T
  <2> DEFINE f == [blk |-> b, cmd |-> c, id |-> i]
  <2>1. f \in Frame /\ f.blk = b /\ txq' = Append(txq, f)
    BY <1>3, FrameFacts
  <2> HIDE DEF f
  <2> QED
    BY <1>3, <2>1
<1>4. ASSUME NEW t \in Tasks \ {Rx}, CloseSend(t) PROVE rxblk' = rxblk /\ T
  <2>1. closeId[t] \in Ids
    BY <1>4 DEF CloseSend, Goto, Handles, TaskHandle
  <2> QED
    BY <1>3, <1>4, <2>1 DEF CloseSend, Commands
<1>5. ASSUME NEW t \in Clients, ClientSend(t) PROVE rxblk' = rxblk /\ T
  <2>1. sid[at[t]] \in Ids /\ t \in Tasks
    BY <1>5, TasksApart DEF ClientSend, Handles, TaskHandle
  <2> QED
    BY <1>3, <1>5, <2>1 DEF ClientSend, Commands
<1>6. CASE ServerTask
  BY <1>1, <1>4, <1>6, TasksApart DEF ServerTask, ServerPermit, ServerAccept, ServerSpawn, Release, poolVars
<1>7. ASSUME NEW t \in Clients, ClientTask(t) PROVE rxblk' = rxblk /\ T
  BY <1>1, <1>4, <1>5, <1>7, TasksApart DEF ClientTask, ClientRecv, ClientClose, SlipSockRecv, RecvTest, RecvGet,
              RecvWait, RecvUsed, RecvCopy, RecvFree, RecvNull, CloseStart, Release, poolVars
<1>8. CASE Delimiter \/ (\E i \in Ids : PeerConnect(i) \/ PeerData(i) \/ PeerHangUp(i))
  BY <1>0, <1>8 DEF Delimiter, PeerConnect, PeerData, PeerHangUp, PeerSends, FrameEnds, NextBlock
<1>9. CASE Transmit \/ UNCHANGED vars
  BY <1>9 DEF Transmit, vars, poolVars
<1> QED
  BY <1>2, <1>6, <1>7, <1>8, <1>9 DEF Next

\* A late block comes to no other place.
LEMMA LateStaysPut ==
  ASSUME Types, [Next]_vars, Owned, Stray, NEW b \in late, NEW k \in Kinds, NEW s \in Places, In(b, k, s)'
  PROVE  k = "queue" /\ In(b, "queue", s)
<1> USE DEF Types
<1>0. /\ b \in busy /\ b \in Blocks /\ b # NONE /\ NONE \in Places /\ Sockets \subseteq Places
      /\ Kinds = {"rxb", "rx", "tx", "cur", "block", "queue"}
      /\ rxq \in Seq(Frame) /\ txq \in Seq(Frame)
  BY SockAssumption DEF Stray, OtherTypes, Kinds, Places, FrameTypes
<1>1. /\ ~In(b, "rxb", NONE) /\ ~In(b, "rx", NONE) /\ ~In(b, "tx", NONE) /\ ~In(b, "cur", NONE)
      /\ \A u \in Sockets : ~In(b, "block", u)
  BY <1>0 DEF Stray
<1>2. rxblk # b /\ cur.blk # b
  BY <1>1 DEF In
<1>3. RxGet => Head(rxq).blk # b
  BY <1>0, <1>1, HeadIn DEF RxGet, In
<1>4. k # "rxb"
  BY <1>0, <1>2, TakenSteps DEF In
<1>5. k # "rx"
  <2>1. CASE RxGet
    <3>1. \A n \in DOMAIN Tail(rxq) : Tail(rxq)[n].blk # b
      BY <1>0, <1>1, <2>1, TailIn DEF RxGet, In
    <3> QED
      BY <2>1, <3>1 DEF RxGet, In
  <2>2. CASE rxq' = rxq
    BY <1>1, <2>2 DEF In
  <2>3. CASE \E f \in Frame : f.blk = rxblk /\ rxq' = Append(rxq, f)
    BY <1>0, <1>1, <1>2, <2>3, RowFacts DEF In
  <2> QED
    BY <2>1, <2>2, <2>3, RowSteps
<1>6. k # "tx"
  <2>1. CASE Transmit
    <3>1. \A n \in DOMAIN Tail(txq) : Tail(txq)[n].blk # b
      BY <1>0, <1>1, <2>1, TailIn DEF Transmit, In
    <3> QED
      BY <2>1, <3>1 DEF Transmit, In
  <2>2. CASE txq' = txq
    BY <1>1, <2>2 DEF In
  <2>3. CASE \E f \in Frame : txq' = Append(txq, f) /\ (f.blk = cur.blk \/ f.blk \notin busy)
    BY <1>0, <1>1, <1>2, <2>3, RowFacts DEF In
  <2> QED
    BY <2>1, <2>2, <2>3, TakenSteps
<1>7. k # "cur"
  BY <1>0, <1>2, <1>3, CurSteps DEF In, Nothing, RxGet, RxPush, RxRefuse, RxDone
<1>8. k # "block"
  <2> SUFFICES ASSUME s \in Sockets, sblock'[s] = b, Live(s)' PROVE FALSE
    BY DEF In
  <2>1. CASE sblock'[s] = sblock[s]
    <3>1. used'[s] => used[s]
      <4>1. ~(at'[Rx] = s /\ pc'[Rx] = "new")
        BY TasksApart DEF Live
      <4>2. ASSUME NEW t \in Tasks, FreeUsed(t), at[t] = s PROVE ~used'[s]
        BY <4>2 DEF FreeUsed, SockTypes
      <4> QED
        BY <4>1, <4>2, SockSteps
    <3> QED
      BY <1>1, <2>1, <3>1, LiveStays DEF In
  <2>2. ASSUME NEW t \in Clients, RecvGet(t) \/ RecvNull(t), at[t] = s PROVE FALSE
    <3>1. /\ queue[s] # <<>> /\ Head(queue[s]) = b /\ queue[s] \in Seq(Blocks)
          /\ pc[t] = "recv_get" /\ t \in Tasks /\ t # Rx
      BY <1>0, <2>2, TasksApart DEF RecvGet, RecvNull, Goto, SockTypes
    <3>2. ~Forgotten(s)
      BY <2>2, <3>1, HeldIsKnown DEF Holds, HoldPcs, RecvPcs
    <3>3. In(b, "queue", s)
      BY <3>1, HeadIn DEF In
    <3> QED
      BY <1>0, <3>2, <3>3 DEF Stray
  <2> QED
    BY <1>0, <2>1, <2>2, SockSteps
<1>9. ASSUME k = "queue" PROVE In(b, "queue", s)
  <2>0. s \in Sockets /\ queue[s] \in Seq(Blocks) /\ \E n \in DOMAIN queue'[s] : queue'[s][n] = b
    BY <1>9 DEF In, SockTypes
  <2>1. CASE queue[s] # <<>> /\ queue'[s] = Tail(queue[s])
    <3>1. PICK n \in DOMAIN Tail(queue[s]) : Tail(queue[s])[n] = b
      BY <2>0, <2>1
    <3> QED
      BY <2>0, <2>1, <3>1, TailIn DEF In
  <2>2. CASE RxPush /\ queue'[s] = Append(queue[s], cur.blk)
    <3>1. cur.blk \in Blocks
      BY <2>2, FrameFacts DEF RxPush, Goto, FrameTypes
    <3> QED
      BY <1>2, <2>0, <2>2, <3>1, QueueFacts DEF In
  <2> QED
    BY <2>0, <2>1, <2>2, SockSteps DEF In
<1> QED
  BY <1>0, <1>4, <1>5, <1>6, <1>7, <1>8, <1>9

\* A socket is forgotten until queue_init empties its queue.
LEMMA ForgottenStays ==
  ASSUME Types, [Next]_vars, NEW s \in Sockets, Forgotten(s)
  PROVE  Forgotten(s)' \/ queue'[s] = <<>>
<1> USE DEF Types
<1>1. CASE ~used[s]
  <2>1. ~used'[s] => Forgotten(s)'
    BY DEF Forgotten, Emptied
  <2>2. at'[Rx] = s /\ pc'[Rx] = "new" => Forgotten(s)'
    BY DEF Forgotten
  <2>3. ASSUME NEW t \in Tasks, FreeUsed(t), at[t] = s PROVE ~used'[s]
    BY <2>3 DEF FreeUsed, SockTypes
  <2> QED
    BY <1>1, <2>1, <2>2, <2>3, SockSteps
<1>2. ASSUME NEW t \in Tasks, at[t] = s, pc[t] = "free_used"
      PROVE  Forgotten(s)'
  <2>1. CASE pc'[t] = pc[t] /\ at'[t] = at[t]
    BY <1>2, <2>1 DEF Forgotten, Emptied
  <2>2. CASE SlipSockFree(t)
    <3>1. FreeUsed(t)
      BY <1>2, <2>2 DEF SlipSockFree, FreeTest, FreeBlock, FreeQueue, FreeSignal, Goto
    <3>2. ~used'[s]
      BY <1>2, <3>1 DEF FreeUsed, SockTypes
    <3> QED
      BY <3>2 DEF Forgotten, Emptied
  <2>3. ASSUME t = Rx, RxTask PROVE SlipSockFree(t)
    BY <1>2, <2>3 DEF RxTask, RxGet, RxDispatch, RxNew, RxName, RxOffer, RxPush, RxSignal, RxRefuse, RxDone, Goto
  <2>4. ASSUME t = Server, ServerTask PROVE SlipSockFree(t)
    BY <1>2, <2>4 DEF ServerTask, ServerPermit, ServerAccept, ServerSpawn, CloseSend, Release, Goto
  <2>5. ASSUME t \in Clients, ClientTask(t) PROVE SlipSockFree(t)
    BY <1>2, <2>5 DEF ClientTask, ClientRecv, ClientSend, ClientClose, SlipSockRecv, RecvTest, RecvGet,
          RecvWait, RecvUsed, RecvCopy, RecvFree, RecvNull, CloseStart, CloseSend, Release, Goto
  <2> QED
    BY <1>2, <2>1, <2>2, <2>3, <2>4, <2>5, OthersStay
<1>3. CASE at[Rx] = s /\ pc[Rx] = "new"
  <2>1. CASE RxTask
    <3>1. RxNew
      BY <1>3, <2>1 DEF RxTask, RxGet, RxDispatch, RxName, RxOffer, RxPush, RxSignal, RxRefuse, RxDone, Goto,
            SlipSockFree, FreeTest, FreeBlock, FreeQueue, FreeUsed, FreeSignal
    <3> QED
      BY <1>3, <3>1 DEF RxNew, SockTypes
  <2>2. CASE ~RxTask
    BY <1>3, <2>2, OthersStay, TasksApart DEF Forgotten
  <2> QED
    BY <2>1, <2>2
<1> QED
  BY <1>1, <1>2, <1>3 DEF Forgotten, Emptied

\* A block becomes late in the queue of a socket that stays forgotten.
LEMMA PushedLate ==
  ASSUME Types, Placed, Placed', RxPush, NEW b \in late' \ late
  PROVE  b \in busy' /\ \A k \in Kinds, s \in Places : In(b, k, s)' => k = "queue" /\ Forgotten(s)'
<1> USE DEF Types
<1>1. PICK u \in Sockets : u = at[Rx]
  BY DEF RxPush, Goto, Handles, RxHandle
<1>2. /\ b = cur.blk /\ b \in Blocks /\ Emptied(u) /\ busy' = busy /\ used' = used /\ at' = at
      /\ pc[Rx] = "push" /\ pc' = [pc EXCEPT ![Rx] = "signal"] /\ queue'[u] = Append(queue[u], b)
      /\ {"cur", "queue"} \subseteq Kinds /\ NONE \in Places /\ Sockets \subseteq Places
  BY <1>1, FrameFacts DEF RxPush, Goto, poolVars, FrameTypes, SockTypes, Kinds, Places
<1>3. b \in busy'
  BY <1>2, CurPlace DEF Placed, Apart
<1>4. Forgotten(u)'
  <2>1. CASE ~used[u]
    BY <1>2, <2>1 DEF Forgotten, Emptied
  <2>2. ASSUME NEW t \in Tasks, at[t] = u, pc[t] = "free_used" PROVE Forgotten(u)'
    BY <1>2, <2>2 DEF Forgotten, Emptied, PcTypes
  <2> QED
    BY <1>2, <2>1, <2>2 DEF Emptied
<1>5. In(b, "queue", u)'
  <2>1. queue[u] \in Seq(Blocks)
    BY <1>1 DEF SockTypes
  <2>2. \E n \in DOMAIN queue'[u] : queue'[u][n] = b
    BY <1>2, <2>1, LastIn
  <2> QED
    BY <2>2 DEF In
<1>6. ASSUME NEW k \in Kinds, NEW s \in Places, In(b, k, s)' PROVE k = "queue" /\ s = u
  BY <1>2, <1>5, <1>6 DEF Placed, Apart
<1> QED
  BY <1>3, <1>4, <1>6

LEMMA NextStray ==
  ASSUME Types, [Next]_vars, Owned, Placed, Placed', Stray
  PROVE  Stray'
<1> SUFFICES ASSUME NEW b \in late'
             PROVE  /\ b \in busy'
                    /\ \A k \in Kinds, s \in Places : In(b, k, s)' => k = "queue" /\ Forgotten(s)'
  BY DEF Stray
<1>1. CASE b \in late
  <2>1. ASSUME NEW k \in Kinds, NEW s \in Places, In(b, k, s)' PROVE k = "queue" /\ Forgotten(s)'
    <3>1. k = "queue" /\ In(b, "queue", s)
      BY <1>1, <2>1, LateStaysPut
    <3>2. s \in Sockets /\ Forgotten(s)
      BY <1>1, <3>1 DEF Stray, In
    <3>3. queue'[s] # <<>>
      BY <2>1, <3>1 DEF In
    <3> QED
      BY <3>1, <3>2, <3>3, ForgottenStays
  <2> QED
    BY <1>1, <2>1, LateStaysBusy
<1>2. CASE b \notin late
  BY <1>2, LateSteps, PushedLate
<1> QED
  BY <1>1, <1>2

\* As long as the peer does not hang up, every busy block is referred to once
\* (by the receive interrupt, a frame in a queue, the receive task, the block or
\* the queue of one socket) or is late: no path through the dispatch, recv, send,
\* the close and their errors forgets one but the push behind the loop of
\* slip_sock_free.  And what that push takes from the pool never comes back.
THEOREM OnlyLateBlocksLeak ==
  ASSUME "Disconnect" \notin Sends
  PROVE  Spec => []OnlyLatePushesLeak
<1>1. Types /\ Placed /\ Kept /\ Stray => OnlyLatePushesLeak
  <2> SUFFICES ASSUME Types, Placed, Kept, Stray, NEW b \in busy, b \notin late PROVE References(b) = 1
    BY DEF OnlyLatePushesLeak, Stray
  <2>1. b \in Blocks
    BY DEF Types, FrameTypes
  <2>2. \E k \in Kinds, s \in Places : In(b, k, s)
    BY DEF Kept
  <2> QED
    BY <2>1, <2>2, PlacesCounted
<1> DEFINE IInv == Placed /\ Free /\ Kept /\ Stray
<1>2. (Types /\ Polite) /\ (Types /\ Polite)' /\ IInv /\ [Next]_vars => IInv'
  BY NextPlaced, NextFree, EveryBlockPlaced, NextStray DEF Polite
<1>3. Init => IInv
  BY InitPlaced, InitFree DEF Init, Stray
<1> QED
  BY <1>1, <1>2, <1>3, PoliteInvariance, PTL DEF Spec

=============================================================================
