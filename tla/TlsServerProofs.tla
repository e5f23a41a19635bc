-------------------------- MODULE TlsServerProofs --------------------------
(***************************************************************************)
(* Safety of the Ethernet server for any number of connections and permits. *)
(*                                                                          *)
(* The properties are inductive together with InHand: a connection has no   *)
(* task while it waits in the backlog or in the server task's hand, so      *)
(* starting its task adds one holder, which the permit taken before is for. *)
(***************************************************************************)
EXTENDS TlsServer, FiniteSetTheorems, TLAPS

InHand ==
    /\ spc = "create" <=> clientSocket \in Connections
    /\ \A c \in Connections : (c \in backlog \/ c = clientSocket) => cpc[c] = "none"
    /\ clientSocket \notin backlog

(***************************************************************************)
(* The bounds on the hit counter that hold while increments overlap.        *)
(***************************************************************************)
Hits ==
    /\ hitCounter <= counted
    /\ \A c \in Connections : register[c] <= counted
    /\ ~raced => hitCounter = counted

TypeInv ==
    /\ backlog \subseteq Connections /\ open \subseteq Connections /\ context \subseteq Connections
    /\ permits \in Nat
    /\ spc \in {"wait", "accept", "create"} /\ clientSocket \in Connections \union {None}
    /\ cpc \in [Connections -> Active \union {"none", "release", "delete", "gone"}]
    /\ hitCounter \in Nat /\ register \in [Connections -> Nat]
    /\ lostPermits \in Nat /\ counted \in Nat /\ raced \in BOOLEAN

Inv == TypeInv /\ InHand /\ SocketsAreOwned /\ ContextsAreFreed /\ PermitsBalance /\ Hits

(* The server starts with all permits in the semaphore and nothing open.    *)
THEOREM InitInv == Init => Inv
<1> SUFFICES ASSUME Init PROVE Inv
  OBVIOUS
<1>1. TypeInv
  BY ServerAssumption DEF Init, TypeInv
<1>2. InHand /\ SocketsAreOwned /\ ContextsAreFreed
  BY ServerAssumption DEF Init, InHand, SocketsAreOwned, InService, ContextsAreFreed, Active, AfterTlsInit
<1>3. Holders = {}
  BY DEF Init, Holders, Active
<1>4. PermitsBalance
  BY <1>3, FS_EmptySet, ServerAssumption DEF Init, PermitsBalance
<1>5. Hits
  BY DEF Init, Hits
<1> QED
  BY <1>1, <1>2, <1>4, <1>5 DEF Inv

(* Only finitely many connections hold a permit.                            *)
LEMMA HoldersFinite == IsFiniteSet(Holders) /\ Cardinality(Holders) \in Nat
<1>1. Holders \subseteq Connections
  BY DEF Holders
<1> QED
  BY <1>1, ServerAssumption, FS_Subset, FS_CardinalityType

(* Every step of the two tasks keeps the variables in their types.          *)
LEMMA NextTyped == TypeInv /\ InHand /\ Next => TypeInv'
<1> SUFFICES ASSUME TypeInv, InHand, Next PROVE TypeInv'
  OBVIOUS
<1> USE DEF TypeInv, Active, serverVars, hitVars, Goto
<1>1. CASE \E c \in Connections : Connect(c)
  BY <1>1 DEF Connect
<1>2. CASE WaitForSemaphore \/ AcceptNothing
  BY <1>2 DEF WaitForSemaphore, AcceptNothing
<1>3. CASE \E c \in Connections : Accept(c)
  BY <1>3 DEF Accept
<1>4. CASE CreateTask \/ CreateTaskFails
  BY <1>4 DEF CreateTask, CreateTaskFails
<1>5. ASSUME NEW c \in Connections, ClientTask(c) PROVE TypeInv'
  <2>1. CASE Proceed(c) \/ Fail(c)
    BY <2>1 DEF Proceed, Fail
  <2>2. CASE TlsInit(c) \/ FreeContext(c) \/ CloseSocket(c)
    BY <2>2 DEF TlsInit, FreeContext, CloseSocket
  <2>3. CASE LoadHits(c)
    BY <2>3 DEF LoadHits
  <2>4. CASE StoreHits(c)
    <3>1. raced' \in BOOLEAN
      BY <2>4, Zenon DEF StoreHits
    <3>2. QED
      BY <2>4, <3>1 DEF StoreHits
  <2>5. CASE ReleaseSemaphore(c) \/ DeleteTask(c)
    BY <2>5 DEF ReleaseSemaphore, DeleteTask
  <2> QED
    BY <1>5, <2>1, <2>2, <2>3, <2>4, <2>5 DEF ClientTask
<1> QED
  BY <1>1, <1>2, <1>3, <1>4, <1>5 DEF Next, ServerTask

(* No task is started for a connection that still waits to be accepted.     *)
LEMMA NextInHand == TypeInv /\ InHand /\ Next => InHand'
<1> SUFFICES ASSUME TypeInv, InHand, Next PROVE InHand'
  OBVIOUS
<1> USE DEF TypeInv, InHand, Active, serverVars, hitVars, Goto
<1>1. CASE \E c \in Connections : Connect(c)
  BY <1>1 DEF Connect
<1>2. CASE WaitForSemaphore \/ AcceptNothing
  BY <1>2 DEF WaitForSemaphore, AcceptNothing
<1>3. CASE \E c \in Connections : Accept(c)
  BY <1>3, ServerAssumption DEF Accept
<1>4. CASE CreateTask \/ CreateTaskFails
  BY <1>4, ServerAssumption DEF CreateTask, CreateTaskFails
<1>5. ASSUME NEW c \in Connections, ClientTask(c) PROVE InHand'
  <2>1. CASE Proceed(c) \/ Fail(c)
    BY <2>1 DEF Proceed, Fail
  <2>2. CASE TlsInit(c) \/ FreeContext(c) \/ CloseSocket(c)
    BY <2>2 DEF TlsInit, FreeContext, CloseSocket
  <2>3. CASE LoadHits(c) \/ StoreHits(c)
    BY <2>3 DEF LoadHits, StoreHits
  <2>4. CASE ReleaseSemaphore(c) \/ DeleteTask(c)
    BY <2>4 DEF ReleaseSemaphore, DeleteTask
  <2> QED
    BY <1>5, <2>1, <2>2, <2>3, <2>4 DEF ClientTask
<1> QED
  BY <1>1, <1>2, <1>3, <1>4, <1>5 DEF Next, ServerTask

(* Every socketAccept, socketClose and exit keeps the open sockets owned.   *)
LEMMA NextSockets == TypeInv /\ InHand /\ SocketsAreOwned /\ Next => SocketsAreOwned'
<1> SUFFICES ASSUME TypeInv, InHand, SocketsAreOwned, Next PROVE SocketsAreOwned'
  OBVIOUS
<1> USE DEF TypeInv, InHand, SocketsAreOwned, InService, Active, serverVars, hitVars, Goto
<1>1. CASE \E c \in Connections : Connect(c)
  BY <1>1 DEF Connect
<1>2. CASE WaitForSemaphore \/ AcceptNothing
  BY <1>2 DEF WaitForSemaphore, AcceptNothing
<1>3. CASE \E c \in Connections : Accept(c)
  BY <1>3, ServerAssumption DEF Accept
<1>4. CASE CreateTask \/ CreateTaskFails
  BY <1>4, ServerAssumption DEF CreateTask, CreateTaskFails
<1>5. ASSUME NEW c \in Connections, ClientTask(c) PROVE SocketsAreOwned'
  <2>1. CASE Proceed(c) \/ Fail(c)
    BY <2>1 DEF Proceed, Fail
  <2>2. CASE TlsInit(c) \/ FreeContext(c) \/ CloseSocket(c)
    BY <2>2 DEF TlsInit, FreeContext, CloseSocket
  <2>3. CASE LoadHits(c) \/ StoreHits(c)
    BY <2>3 DEF LoadHits, StoreHits
  <2>4. CASE ReleaseSemaphore(c) \/ DeleteTask(c)
    BY <2>4 DEF ReleaseSemaphore, DeleteTask
  <2> QED
    BY <1>5, <2>1, <2>2, <2>3, <2>4 DEF ClientTask
<1> QED
  BY <1>1, <1>2, <1>3, <1>4, <1>5 DEF Next, ServerTask

(* Every exit of the exception block keeps contexts and tasks in step.      *)
LEMMA NextContexts == TypeInv /\ InHand /\ ContextsAreFreed /\ Next => ContextsAreFreed'
<1> SUFFICES ASSUME TypeInv, InHand, ContextsAreFreed, Next PROVE ContextsAreFreed'
  OBVIOUS
<1> USE DEF TypeInv, InHand, ContextsAreFreed, AfterTlsInit, Active, serverVars, hitVars, Goto
<1>1. CASE \E c \in Connections : Connect(c)
  BY <1>1 DEF Connect
<1>2. CASE WaitForSemaphore \/ AcceptNothing
  BY <1>2 DEF WaitForSemaphore, AcceptNothing
<1>3. CASE \E c \in Connections : Accept(c)
  BY <1>3, ServerAssumption DEF Accept
<1>4. CASE CreateTask \/ CreateTaskFails
  BY <1>4, ServerAssumption DEF CreateTask, CreateTaskFails
<1>5. ASSUME NEW c \in Connections, ClientTask(c) PROVE ContextsAreFreed'
  <2>1. CASE Proceed(c) \/ Fail(c)
    BY <2>1 DEF Proceed, Fail
  <2>2. CASE TlsInit(c) \/ FreeContext(c) \/ CloseSocket(c)
    BY <2>2 DEF TlsInit, FreeContext, CloseSocket
  <2>3. CASE LoadHits(c) \/ StoreHits(c)
    BY <2>3 DEF LoadHits, StoreHits
  <2>4. CASE ReleaseSemaphore(c) \/ DeleteTask(c)
    BY <2>4 DEF ReleaseSemaphore, DeleteTask
  <2> QED
    BY <1>5, <2>1, <2>2, <2>3, <2>4 DEF ClientTask
<1> QED
  BY <1>1, <1>2, <1>3, <1>4, <1>5 DEF Next, ServerTask

(***************************************************************************)
(* The balance: every action that moves a permit adds or removes one        *)
(* holder, or moves it between the semaphore and the server task.           *)
(***************************************************************************)
LEMMA NextBalance == TypeInv /\ InHand /\ PermitsBalance /\ Next => PermitsBalance'
<1> SUFFICES ASSUME TypeInv, InHand, PermitsBalance, Next PROVE PermitsBalance'
  OBVIOUS
<1> USE DEF TypeInv, Active, serverVars, hitVars, Goto
<1>0. IsFiniteSet(Holders) /\ Cardinality(Holders) \in Nat
  BY HoldersFinite
<1>1. CASE (\E c \in Connections : Connect(c)) \/ WaitForSemaphore \/ AcceptNothing
           \/ (\E c \in Connections : Accept(c))
  <2>1. Holders' = Holders
    BY <1>1 DEF Holders, Connect, WaitForSemaphore, AcceptNothing, Accept
  <2> QED
    BY <1>0, <1>1, <2>1, ServerAssumption
       DEF PermitsBalance, Connect, WaitForSemaphore, AcceptNothing, Accept
<1>2. CASE CreateTask
  <2>1. clientSocket \in Connections /\ cpc[clientSocket] = "none" /\ clientSocket \notin Holders
    BY <1>2 DEF CreateTask, InHand, Holders
  <2>2. Holders' = Holders \union {clientSocket}
    BY <1>2, <2>1 DEF CreateTask, Holders
  <2>3. Cardinality(Holders') = Cardinality(Holders) + 1
    BY <1>0, <2>1, <2>2, FS_AddElement
  <2> QED
    BY <1>0, <1>2, <2>3, ServerAssumption DEF PermitsBalance, CreateTask
<1>3. CASE CreateTaskFails
  <2>1. Holders' = Holders
    BY <1>3 DEF CreateTaskFails, InHand, Holders
  <2> QED
    BY <1>0, <1>3, <2>1, ServerAssumption DEF PermitsBalance, CreateTaskFails
<1>4. ASSUME NEW c \in Connections, ClientTask(c) PROVE PermitsBalance'
  <2>1. CASE ReleaseSemaphore(c)
    <3>1. c \in Holders /\ Holders' = Holders \ {c}
      BY <2>1 DEF ReleaseSemaphore, Holders
    <3>2. Cardinality(Holders') = Cardinality(Holders) - 1
      BY <1>0, <3>1, FS_RemoveElement
    <3> QED
      BY <1>0, <2>1, <3>2, ServerAssumption DEF PermitsBalance, ReleaseSemaphore
  <2>2. CASE ~ReleaseSemaphore(c)
    <3>1. Holders' = Holders
      BY <1>4, <2>2 DEF ClientTask, Holders, Proceed, Fail, TlsInit, LoadHits, StoreHits,
                        FreeContext, CloseSocket, DeleteTask
    <3>2. UNCHANGED <<permits, lostPermits, spc>>
      BY <1>4, <2>2 DEF ClientTask, Proceed, Fail, TlsInit, LoadHits, StoreHits,
                        FreeContext, CloseSocket, DeleteTask
    <3> QED
      BY <3>1, <3>2 DEF PermitsBalance
  <2> QED
    BY <2>1, <2>2
<1> QED
  BY <1>1, <1>2, <1>3, <1>4 DEF Next, ServerTask

(* Only an increment that is overtaken can miss a hit.                      *)
LEMMA NextHits == TypeInv /\ Hits /\ Next => Hits'
<1> SUFFICES ASSUME TypeInv, Hits, Next PROVE Hits'
  OBVIOUS
<1>1. CASE UNCHANGED hitVars
  BY <1>1 DEF Hits, hitVars
<1>2. ASSUME NEW c \in Connections, LoadHits(c) PROVE Hits'
  BY <1>2 DEF TypeInv, Hits, LoadHits
<1>3. ASSUME NEW c \in Connections, StoreHits(c) PROVE Hits'
  <2>1. hitCounter' = register[c] + 1 /\ counted' = counted + 1 /\ register' = [register EXCEPT ![c] = 0]
    BY <1>3 DEF StoreHits
  <2>2. ~raced' => ~raced /\ hitCounter = register[c]
    BY <1>3, Zenon DEF StoreHits
  <2>3. ~raced' => hitCounter' = counted'
    BY <2>1, <2>2 DEF Hits
  <2>4. hitCounter' <= counted' /\ \A d \in Connections : register'[d] <= counted'
    BY <2>1 DEF TypeInv, Hits
  <2> QED
    BY <2>3, <2>4 DEF Hits
<1>4. (\E c \in Connections : LoadHits(c) \/ StoreHits(c)) \/ UNCHANGED hitVars
  BY DEF Next, ServerTask, ClientTask, Connect, WaitForSemaphore, Accept, AcceptNothing, CreateTask,
         CreateTaskFails, Proceed, Fail, TlsInit, FreeContext, CloseSocket, ReleaseSemaphore, DeleteTask
<1> QED
  BY <1>1, <1>2, <1>3, <1>4

(* The parts are inductive together.                                        *)
THEOREM Inductive == Spec => []Inv
<1>1. Inv /\ [Next]_vars => Inv'
  <2> SUFFICES ASSUME Inv, [Next]_vars PROVE Inv'
    OBVIOUS
  <2>1. CASE Next
    BY <2>1, NextTyped, NextInHand, NextSockets, NextContexts, NextBalance, NextHits DEF Inv
  <2>2. CASE UNCHANGED vars
    BY <2>2 DEF Inv, vars, serverVars, hitVars, TypeInv, InHand, SocketsAreOwned, InService,
                ContextsAreFreed, PermitsBalance, Holders, Hits
  <2> QED
    BY <2>1, <2>2
<1> QED
  BY <1>1, InitInv, PTL DEF Spec

(***************************************************************************)
(* Every reachable state is well typed; permits never exceed what the       *)
(* semaphore was created with.                                              *)
(***************************************************************************)
THEOREM TypeCorrect == Spec => []TypeOK
<1>1. Inv => TypeOK
  <2> SUFFICES ASSUME Inv PROVE TypeOK
    OBVIOUS
  <2>1. permits \in 0..APP_SERVER_MAX_CONNECTIONS
    BY HoldersFinite, ServerAssumption DEF Inv, TypeInv, PermitsBalance
  <2> QED
    BY <2>1 DEF Inv, TypeInv, TypeOK
<1> QED
  BY <1>1, Inductive, PTL

(***************************************************************************)
(* No error exit of tlsServerTask or tlsClientTask loses a permit or gives  *)
(* one back twice.                                                          *)
(***************************************************************************)
THEOREM PermitsAreKept == Spec => []PermitsBalance
<1>1. Inv => PermitsBalance
  BY DEF Inv
<1> QED
  BY <1>1, Inductive, PTL

(***************************************************************************)
(* No error exit leaves a socket open, no task works on a closed one.       *)
(***************************************************************************)
THEOREM NoSocketLeaks == Spec => []SocketsAreOwned
<1>1. Inv => SocketsAreOwned
  BY DEF Inv
<1> QED
  BY <1>1, Inductive, PTL

(***************************************************************************)
(* No error exit leaves a TLS context allocated, none is used after tlsFree.*)
(***************************************************************************)
THEOREM NoContextLeaks == Spec => []ContextsAreFreed
<1>1. Inv => ContextsAreFreed
  BY DEF Inv
<1> QED
  BY <1>1, Inductive, PTL

(***************************************************************************)
(* Overlapping increments of hitCounter lose hits and never make them up.   *)
(***************************************************************************)
THEOREM HitsNeverInvented == Spec => []HitsAreCounted
<1>1. Inv => HitsAreCounted
  BY DEF Inv, Hits, HitsAreCounted
<1> QED
  BY <1>1, Inductive, PTL
=============================================================================
