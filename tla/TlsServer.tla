----------------------------- MODULE TlsServer -----------------------------
(***************************************************************************)
(* tlsServerTask and tlsClientTask of the Ethernet demos                    *)
(* (src/st/stm32f407/tls_server_demo-freertos/src/main.c; the RTX variant   *)
(* has the same two functions).  One task accepts connections, a semaphore  *)
(* limits them, one task serves each.  TCP and TLS are libraries: a call    *)
(* succeeds or fails, and with the socket's timeout it comes back.          *)
(*                                                                          *)
(* A member of Connections is a connection a peer makes, and the socket     *)
(* and the task it gets.                                                    *)
(***************************************************************************)
EXTENDS Naturals, FiniteSets

CONSTANTS
    Connections,
    APP_SERVER_MAX_CONNECTIONS,
    None

ASSUME ServerAssumption ==
    /\ APP_SERVER_MAX_CONNECTIONS \in Nat \ {0}
    /\ IsFiniteSet(Connections)
    /\ None \notin Connections

VARIABLES
    backlog,        \* connections made and not accepted
    permits,        \* connectionSemaphore
    spc,            \* where the server task is
    clientSocket,   \* its local variable
    open,           \* sockets accepted and not closed
    cpc,            \* where each client task is
    context,        \* client tasks that hold a TLS context
    hitCounter,
    register,       \* a task's copy of hitCounter, in ++hitCounter
    lostPermits,    \* history: permits kept when socketAccept gave nothing
    counted,        \* history: increments of hitCounter completed
    raced           \* history: one of them was overtaken

serverVars == <<spc, clientSocket>>
hitVars == <<hitCounter, register, counted, raced>>
vars == <<backlog, permits, spc, clientSocket, open, cpc, context, lostPermits, hitVars>>

(***************************************************************************)
(* The semaphore is taken as created.  A server socket that could not be    *)
(* opened, bound or put in listening state is only logged and makes every   *)
(* socketAccept fail, which AcceptNothing allows from the first one on.     *)
(***************************************************************************)
Init ==
    /\ backlog = {} /\ open = {} /\ context = {}
    /\ permits = APP_SERVER_MAX_CONNECTIONS
    /\ spc = "wait" /\ clientSocket = None
    /\ cpc = [c \in Connections |-> "none"]
    /\ hitCounter = 0 /\ register = [c \in Connections |-> 0]
    /\ lostPermits = 0 /\ counted = 0 /\ raced = FALSE

(***************************************************************************)
(* A peer connects (once, which bounds the model).                          *)
(***************************************************************************)
Connect(c) ==
    /\ cpc[c] = "none" /\ c \notin backlog /\ clientSocket # c
    /\ backlog' = backlog \union {c}
    /\ UNCHANGED <<permits, serverVars, open, cpc, context, lostPermits, hitVars>>
-----------------------------------------------------------------------------
(* The server task.                                                         *)

WaitForSemaphore ==
    /\ spc = "wait" /\ permits > 0
    /\ permits' = permits - 1
    /\ spc' = "accept"
    /\ UNCHANGED <<backlog, clientSocket, open, cpc, context, lostPermits, hitVars>>

Accept(c) ==
    /\ spc = "accept" /\ c \in backlog
    /\ backlog' = backlog \ {c}
    /\ open' = open \union {c}
    /\ clientSocket' = c
    /\ spc' = "create"
    /\ UNCHANGED <<permits, cpc, context, lostPermits, hitVars>>

(***************************************************************************)
(* socketAccept returns NULL: the loop goes round and takes another permit. *)
(***************************************************************************)
AcceptNothing ==
    /\ spc = "accept"
    /\ spc' = "wait"
    /\ lostPermits' = lostPermits + 1
    /\ UNCHANGED <<backlog, permits, clientSocket, open, cpc, context, hitVars>>

CreateTask ==
    /\ spc = "create"
    /\ cpc' = [cpc EXCEPT ![clientSocket] = "timeout"]
    /\ spc' = "wait" /\ clientSocket' = None
    /\ UNCHANGED <<backlog, permits, open, context, lostPermits, hitVars>>

CreateTaskFails_LeavesOpen ==
    /\ spc = "create"
    /\ permits' = permits + 1
    /\ cpc' = [cpc EXCEPT ![clientSocket] = "gone"]
    /\ spc' = "wait" /\ clientSocket' = None
    /\ UNCHANGED <<backlog, open, context, lostPermits, hitVars>>

CreateTaskFails ==
    /\ spc = "create"
    /\ open' = open \ {clientSocket}
    /\ permits' = permits + 1
    /\ cpc' = [cpc EXCEPT ![clientSocket] = "gone"]     \* no task; the peer is done
    /\ spc' = "wait" /\ clientSocket' = None
    /\ UNCHANGED <<backlog, context, lostPermits, hitVars>>
-----------------------------------------------------------------------------
(* A client task.  Every call of the exception block may fail, and a        *)
(* failure goes straight to the clean-up.                                   *)

Goto(c, from, to) ==
    /\ cpc[c] = from
    /\ cpc' = [cpc EXCEPT ![c] = to]

Fail(c) ==
    /\ cpc[c] \in {"timeout", "init", "configure", "handshake", "request",
                   "page1", "page2", "page3", "page4", "tlsShutdown", "socketShutdown"}
    /\ cpc' = [cpc EXCEPT ![c] = "free"]
    /\ UNCHANGED <<backlog, permits, serverVars, open, context, lostPermits, hitVars>>

(***************************************************************************)
(* Calls that leave this program's own state alone.  Between page1 and      *)
(* page2 the hit is counted.                                                *)
(***************************************************************************)
Proceed(c) ==
    /\ \/ Goto(c, "timeout", "init")
       \/ Goto(c, "configure", "handshake")
       \/ Goto(c, "handshake", "request")
       \/ Goto(c, "request", "page1")
       \/ Goto(c, "page1", "hit")
       \/ Goto(c, "page2", "page3")
       \/ Goto(c, "page3", "page4")
       \/ Goto(c, "page4", "tlsShutdown")
       \/ Goto(c, "tlsShutdown", "socketShutdown")
       \/ Goto(c, "socketShutdown", "free")
    /\ UNCHANGED <<backlog, permits, serverVars, open, context, lostPermits, hitVars>>

TlsInit(c) ==
    /\ Goto(c, "init", "configure")
    /\ context' = context \union {c}
    /\ UNCHANGED <<backlog, permits, serverVars, open, lostPermits, hitVars>>

LoadHits(c) ==
    /\ Goto(c, "hit", "count")
    /\ register' = [register EXCEPT ![c] = hitCounter]
    /\ UNCHANGED <<backlog, permits, serverVars, open, context, lostPermits, hitCounter, counted, raced>>

StoreHits_Twice(c) ==
    /\ Goto(c, "count", "page2")
    /\ hitCounter' = register[c] + 2
    /\ register' = [register EXCEPT ![c] = 0]
    /\ counted' = counted + 1
    /\ raced' = (raced \/ hitCounter # register[c])
    /\ UNCHANGED <<backlog, permits, serverVars, open, context, lostPermits>>

StoreHits(c) ==
    /\ Goto(c, "count", "page2")
    /\ hitCounter' = register[c] + 1
    /\ register' = [register EXCEPT ![c] = 0]
    /\ counted' = counted + 1
    /\ raced' = (raced \/ hitCounter # register[c])
    /\ UNCHANGED <<backlog, permits, serverVars, open, context, lostPermits>>

FreeContext_Forgotten(c) ==
    /\ Goto(c, "free", "close")
    /\ UNCHANGED <<backlog, permits, serverVars, open, context, lostPermits, hitVars>>

FreeContext(c) ==
    /\ Goto(c, "free", "close")
    /\ context' = context \ {c}
    /\ UNCHANGED <<backlog, permits, serverVars, open, lostPermits, hitVars>>

CloseSocket(c) ==
    /\ Goto(c, "close", "release")
    /\ open' = open \ {c}
    /\ UNCHANGED <<backlog, permits, serverVars, context, lostPermits, hitVars>>

ReleaseSemaphore_Forgotten(c) ==
    /\ Goto(c, "release", "delete")
    /\ UNCHANGED <<backlog, permits, serverVars, open, context, lostPermits, hitVars>>

ReleaseSemaphore(c) ==
    /\ Goto(c, "release", "delete")
    /\ permits' = permits + 1
    /\ UNCHANGED <<backlog, serverVars, open, context, lostPermits, hitVars>>

DeleteTask(c) ==
    /\ Goto(c, "delete", "gone")
    /\ UNCHANGED <<backlog, permits, serverVars, open, context, lostPermits, hitVars>>

ServerTask ==
    \/ WaitForSemaphore
    \/ \E c \in Connections : Accept(c)
    \/ AcceptNothing
    \/ CreateTask
    \/ CreateTaskFails

ClientTask(c) ==
    \/ Proceed(c) \/ Fail(c) \/ TlsInit(c) \/ LoadHits(c) \/ StoreHits(c)
    \/ FreeContext(c) \/ CloseSocket(c) \/ ReleaseSemaphore(c) \/ DeleteTask(c)

Next == ServerTask \/ \E c \in Connections : Connect(c) \/ ClientTask(c)

Spec == Init /\ [][Next]_vars

(***************************************************************************)
(* The scheduler runs every ready task; socketSetTimeout makes every call   *)
(* on the socket come back; a request is assumed to end (the loop that      *)
(* reads it has no limit of its own); peers need not connect.               *)
(***************************************************************************)
FairSpec == Spec /\ WF_vars(ServerTask) /\ \A c \in Connections : WF_vars(ClientTask(c))
-----------------------------------------------------------------------------
Active == {"timeout", "init", "configure", "handshake", "request", "page1", "hit", "count",
           "page2", "page3", "page4", "tlsShutdown", "socketShutdown", "free", "close"}
AfterTlsInit == Active \ {"timeout", "init", "close"}
InService == {c \in Connections : cpc[c] \in Active}
Holders == {c \in Connections : cpc[c] \in Active \union {"release"}}

(***************************************************************************)
(* The types of the server's state.                                         *)
(***************************************************************************)
TypeOK ==
    /\ backlog \subseteq Connections /\ open \subseteq Connections /\ context \subseteq Connections
    /\ permits \in 0..APP_SERVER_MAX_CONNECTIONS
    /\ spc \in {"wait", "accept", "create"} /\ clientSocket \in Connections \union {None}
    /\ cpc \in [Connections -> Active \union {"none", "release", "delete", "gone"}]
    /\ hitCounter \in Nat /\ register \in [Connections -> Nat]
    /\ lostPermits \in Nat /\ counted \in Nat /\ raced \in BOOLEAN

(***************************************************************************)
(* Every permit is in the semaphore, with the server task, with one         *)
(* connection, or was kept by an accept that gave nothing: no error exit    *)
(* of the two tasks loses one or gives one back twice.                      *)
(***************************************************************************)
PermitsBalance ==
    permits + lostPermits + Cardinality(Holders) + (IF spc = "wait" THEN 0 ELSE 1)
      = APP_SERVER_MAX_CONNECTIONS

(***************************************************************************)
(* The open sockets are exactly the one the server task has in hand and     *)
(* those of the tasks before their socketClose: none is left open by an     *)
(* error exit and no task works on a closed one.                            *)
(***************************************************************************)
SocketsAreOwned ==
    open = InService \union (IF spc = "create" THEN {clientSocket} ELSE {})

(***************************************************************************)
(* A TLS context exists exactly while its task is between tlsInit and       *)
(* tlsFree, or on its way from an early failure to the clean-up's test for  *)
(* NULL.                                                                    *)
(***************************************************************************)
ContextsAreFreed ==
    /\ \A c \in context : cpc[c] \in AfterTlsInit
    /\ \A c \in Connections : cpc[c] \in AfterTlsInit \ {"free"} => c \in context

(***************************************************************************)
(* The hit counter of the page: overlapping increments may lose hits, never *)
(* make them up, and while none has overlapped every hit is counted.        *)
(***************************************************************************)
HitsAreCounted == hitCounter <= counted /\ (~raced => hitCounter = counted)

(***************************************************************************)
(* Whoever connects is accepted, unless accepts that gave nothing have used *)
(* up all the permits: then the server waits for its semaphore for ever.    *)
(***************************************************************************)
ConnectionsAreAccepted ==
    \A c \in Connections :
        c \in backlog ~> (c \notin backlog \/ lostPermits = APP_SERVER_MAX_CONNECTIONS)
=============================================================================
