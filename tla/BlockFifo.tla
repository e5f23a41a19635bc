----------------------------- MODULE BlockFifo ------------------------------
(***************************************************************************)
(* What a queue of block pointers promises its users: every block put in   *)
(* comes out once, in the order of the puts, to the consumer that took it. *)
(***************************************************************************)
EXTENDS Sequences

CONSTANTS Blocks, Consumers, NULL

VARIABLES
  fifo,  \* the blocks in the queue, oldest first
  got    \* the block each consumer took and has not given up yet

vars == <<fifo, got>>

Init == fifo = <<>> /\ got = [c \in Consumers |-> NULL]

\* A block is put at most once: neither queued nor taken yet.
Put(b) ==
  /\ \A k \in DOMAIN fifo : fifo[k] # b
  /\ \A c \in Consumers : got[c] # b
  /\ fifo' = Append(fifo, b)
  /\ UNCHANGED got

Take(c) ==
  /\ got[c] = NULL /\ fifo # <<>>
  /\ got' = [got EXCEPT ![c] = Head(fifo)]
  /\ fifo' = Tail(fifo)

GiveUp(c) ==
  /\ got[c] # NULL
  /\ got' = [got EXCEPT ![c] = NULL]
  /\ UNCHANGED fifo

Next ==
  \/ \E b \in Blocks : Put(b)
  \/ \E c \in Consumers : Take(c) \/ GiveUp(c)

Spec == Init /\ [][Next]_vars
=============================================================================
