-------------------------- MODULE PoolAndQueueProofs --------------------------
(***************************************************************************)
(* Proofs about the two structures blocks are kept in.                     *)
(*                                                                         *)
(* The ring, for any size that divides the range of an index, any number   *)
(* of threads and any pool of at most that many blocks: as long as no two  *)
(* calls overlapped at one end, a caller with a block finds room and the   *)
(* ring is the queue of BlockFifo.                                         *)
(*                                                                         *)
(* The pool, for any number of blocks, tasks and cells: a busy block is in *)
(* somebody's hands, and as long as no MB_Get was overtaken, in one hand.  *)
(* The module extends that of the ring and has its own instance of the     *)
(* pool's steps, so PoolAssumption is a hypothesis of those theorems.      *)
(***************************************************************************)
EXTENDS Queue, Ownership, FiniteSetTheorems, SequenceTheorems, TLAPS

-----------------------------------------------------------------------------
(***************************************************************************)
(* Remainders.                                                             *)
(***************************************************************************)
\* The range of a remainder.
LEMMA ModBasic ==
  ASSUME NEW x \in Int, NEW m \in Nat \ {0}
  PROVE  x % m \in 0 .. m - 1
  OBVIOUS

\* A number is a multiple of m and its remainder.
LEMMA ModDef ==
  ASSUME NEW x \in Int, NEW m \in Nat \ {0}
  PROVE  \E q \in Int : x = (q * m) + (x % m)
<1>1. x = (m * (x \div m)) + (x % m) /\ (x \div m) \in Int
  OBVIOUS
<1>2. PICK q \in Int : q = x \div m
  BY <1>1
<1>3. x = (q * m) + (x % m)
  BY <1>1, <1>2
<1> QED
  BY <1>3

\* Multiplication distributes over addition, as a fact the solver can cite.
LEMMA Distributes ==
  ASSUME NEW a \in Int, NEW b \in Int, NEW m \in Int
  PROVE  (a + b) * m = (a * m) + (b * m) /\ a * m \in Int /\ b * m \in Int
  OBVIOUS

\* The remainder of a multiple of m and a rest below m is the rest.
LEMMA ModUnique ==
  ASSUME NEW m \in Nat \ {0}, NEW q \in Int, NEW r \in 0 .. m - 1
  PROVE  ((q * m) + r) % m = r
  OBVIOUS

\* A multiple of m does not change the remainder.
LEMMA ModAdd ==
  ASSUME NEW m \in Nat \ {0}, NEW x \in Int, NEW y \in Int, NEW q \in Int, x = y + (q * m)
  PROVE  x % m = y % m
<1>1. PICK a \in Int : x = (a * m) + (x % m)
  BY ModDef
<1>2. PICK b \in Int : y = (b * m) + (y % m)
  BY ModDef
<1>3. x % m \in 0 .. m - 1 /\ y % m \in 0 .. m - 1
  BY ModBasic
<1>4. x = ((b + q) * m) + (y % m)
  BY <1>2, <1>3, Distributes
<1>5. PICK c \in Int, r \in 0 .. m - 1 : c = b + q /\ r = y % m
  BY <1>3
<1>6. ((c * m) + r) % m = r
  BY ModUnique
<1>7. x = (c * m) + r
  BY <1>4, <1>5
<1> QED
  BY <1>5, <1>6, <1>7

\* A number below m is its own remainder.
LEMMA ModSmall ==
  ASSUME NEW m \in Nat \ {0}, NEW x \in 0 .. m - 1
  PROVE  x % m = x
  OBVIOUS

\* One turn too far goes back by m.
LEMMA ModOver ==
  ASSUME NEW m \in Nat \ {0}, NEW x \in m .. 2 * m - 1
  PROVE  x % m = x - m
  OBVIOUS

\* One turn below 0 goes forward by m.
LEMMA ModUnder ==
  ASSUME NEW m \in Nat \ {0}, NEW x \in (-m) .. -1
  PROVE  x % m = x + m
  OBVIOUS

\* Numbers less than m apart have different remainders.
LEMMA ModApart ==
  ASSUME NEW m \in Nat \ {0}, NEW x \in Int, NEW j \in 0 .. m - 1, NEW k \in 0 .. m - 1, j # k
  PROVE  (x + j) % m # (x + k) % m
<1>1. PICK q \in Int : x = (q * m) + (x % m)
  BY ModDef
<1>2. PICK r \in 0 .. m - 1 : r = x % m
  BY ModBasic
<1>3. \A i \in 0 .. m - 1 : (x + i) % m = IF r + i < m THEN r + i ELSE (r + i) - m
  <2> TAKE i \in 0 .. m - 1
  <2>1. CASE r + i < m
    <3>1. x + i = (q * m) + (r + i) /\ r + i \in 0 .. m - 1
      BY <1>1, <1>2, <2>1
    <3> QED
      BY <2>1, <3>1, ModUnique
  <2>2. CASE ~(r + i < m)
    <3>1. x + i = ((q + 1) * m) + ((r + i) - m) /\ (r + i) - m \in 0 .. m - 1 /\ q + 1 \in Int
      <4>1. (q + 1) * m = (q * m) + (1 * m)
        BY Distributes
      <4>2. q * m \in Int
        OBVIOUS
      <4> QED
        BY <1>1, <1>2, <2>2, <4>1, <4>2
    <3> QED
      BY <2>2, <3>1, ModUnique
  <2> QED
    BY <2>1, <2>2
<1>4. /\ (x + j) % m = IF r + j < m THEN r + j ELSE (r + j) - m
      /\ (x + k) % m = IF r + k < m THEN r + k ELSE (r + k) - m
  BY <1>3
<1>5. (IF r + j < m THEN r + j ELSE (r + j) - m) # (IF r + k < m THEN r + k ELSE (r + k) - m)
  OBVIOUS
<1> QED
  BY <1>4, <1>5

-----------------------------------------------------------------------------
(***************************************************************************)
(* Typing, whether calls overlap or not.                                   *)
(***************************************************************************)
\* What the sizes are.
LEMMA Sizes ==
  /\ QUEUE_SIZE \in Nat \ {0} /\ INDEX_MOD \in Nat \ {0} /\ INDEX_MOD >= 2 * QUEUE_SIZE
  /\ \A x \in Int : x % QUEUE_SIZE \in Slots /\ x % INDEX_MOD \in Index
  /\ Index \subseteq Int /\ 0 \in Index
<1>1. QUEUE_SIZE \in Nat \ {0} /\ INDEX_MOD \in Nat \ {0} /\ INDEX_MOD >= 2 * QUEUE_SIZE
  BY QueueAssumption
<1> QED
  BY <1>1, ModBasic DEF Slots, Index

\* A full turn of the 8-bit index is whole turns of the ring.
LEMMA Wraps ==
  ASSUME NEW x \in Int
  PROVE  (x + INDEX_MOD) % QUEUE_SIZE = x % QUEUE_SIZE
<1>1. QUEUE_SIZE \in Nat \ {0} /\ INDEX_MOD \in Int /\ INDEX_MOD % QUEUE_SIZE = 0
  BY QueueAssumption
<1>2. PICK q \in Int : INDEX_MOD = (q * QUEUE_SIZE) + (INDEX_MOD % QUEUE_SIZE)
  BY <1>1, ModDef
<1>3. q * QUEUE_SIZE \in Int
  BY <1>1
<1>4. x + INDEX_MOD = x + (q * QUEUE_SIZE) /\ x + INDEX_MOD \in Int
  BY <1>1, <1>2, <1>3
<1> QED
  BY <1>1, <1>4, ModAdd

\* The queue is made well typed.
LEMMA InitTypes == Init => TypeOK
  BY Sizes DEF Init, TypeOK

\* Every step keeps the types.
LEMMA NextTypes ==
  ASSUME TypeOK, [Next]_vars
  PROVE  TypeOK'
<1> USE Sizes DEF TypeOK
<1>0. \A h \in Index : Data[h % QUEUE_SIZE] \in Blocks \cup {NULL} /\ (h + 1) % INDEX_MOD \in Index
  <2> TAKE h \in Index
  <2>1. h \in Int /\ h + 1 \in Int
    BY Sizes
  <2>2. h % QUEUE_SIZE \in Slots /\ (h + 1) % INDEX_MOD \in Index
    BY <2>1, Sizes
  <2> QED
    BY <2>2
<1>1. ASSUME NEW p \in Producers, NEW b \in Blocks, InsertTest(p, b) PROVE TypeOK'
  BY <1>1 DEF InsertTest, Threads, Contended
<1>2. ASSUME NEW p \in Producers, InsertPut(p) PROVE TypeOK'
  <2>1. p \in Threads /\ Reload(p, head) \subseteq Index
    BY DEF Threads, Reload
  <2> QED
    BY <1>2, <2>1 DEF InsertPut
<1>3. ASSUME NEW p \in Producers, InsertInc(p) PROVE TypeOK'
  <2>1. p \in Threads /\ Reload(p, head) \subseteq Index
    BY DEF Threads, Reload
  <2> QED
    BY <1>0, <1>3, <2>1 DEF InsertInc
<1>4. ASSUME NEW c \in Consumers, GetTest(c) PROVE TypeOK'
  BY <1>4 DEF GetTest, Threads, Contended
<1>5. ASSUME NEW c \in Consumers, GetRead(c) PROVE TypeOK'
  <2>1. c \in Threads /\ Reload(c, tail) \cup {reg[c]} \subseteq Index
    BY DEF Threads, Reload
  <2> QED
    BY <1>0, <1>5, <2>1 DEF GetRead
<1>6. ASSUME NEW c \in Consumers, GetStore(c) PROVE TypeOK'
  <2>1. c \in Threads /\ Reload(c, tail) \cup {reg[c]} \subseteq Index
    BY DEF Threads, Reload
  <2> QED
    BY <1>0, <1>6, <2>1 DEF GetStore
<1>7. ASSUME NEW c \in Consumers, Release(c) PROVE TypeOK'
  BY <1>7 DEF Release, Threads
<1>8. CASE UNCHANGED vars
  BY <1>8 DEF vars
<1> QED
  BY <1>1, <1>2, <1>3, <1>4, <1>5, <1>6, <1>7, <1>8 DEF Next

-----------------------------------------------------------------------------
(***************************************************************************)
(* The ring as a window of slots: At(k) is the k'th block of the queue.    *)
(***************************************************************************)
At(k) == Data[(tail + k) % QUEUE_SIZE]
Places == 0 .. Count - 1

\* head is Count places after tail, and the difference of line 22 is below the
\* size when Count is.
LEMMA Window ==
  ASSUME TypeOK
  PROVE  /\ Count \in Index
         /\ Count = IF head >= tail THEN head - tail ELSE (head - tail) + INDEX_MOD
         /\ head # tail <=> Count >= 1
         /\ head % QUEUE_SIZE = (tail + Count) % QUEUE_SIZE
         /\ Count < QUEUE_SIZE => NotFull
<1>1. head \in 0 .. INDEX_MOD - 1 /\ tail \in 0 .. INDEX_MOD - 1
  BY DEF TypeOK, Index
<1>2. CASE head >= tail
  <2>1. Count = head - tail
    <3>1. head - tail \in 0 .. INDEX_MOD - 1
      BY <1>1, <1>2, Sizes
    <3> QED
      BY <3>1, Sizes, ModSmall DEF Count
  <2>2. tail + Count = head
    BY <1>1, <2>1
  <2> QED
    BY <1>1, <1>2, <2>1, <2>2, Sizes DEF NotFull, Index
<1>3. CASE ~(head >= tail)
  <2>1. Count = (head - tail) + INDEX_MOD
    <3>1. head - tail \in (-INDEX_MOD) .. -1
      BY <1>1, <1>3, Sizes
    <3> QED
      BY <3>1, Sizes, ModUnder DEF Count
  <2>2. tail + Count = head + INDEX_MOD
    BY <1>1, <2>1, Sizes
  <2>3. (tail + Count) % QUEUE_SIZE = head % QUEUE_SIZE
    <3>1. head \in Int
      BY <1>1
    <3> QED
      BY <2>2, <3>1, Wraps
  <2> QED
    BY <1>1, <1>3, <2>1, <2>3, Sizes DEF NotFull, Index
<1> QED
  BY <1>2, <1>3

\* The next index, and the slots seen from it.
LEMMA NextIndex ==
  ASSUME NEW i \in Index
  PROVE  /\ (i + 1) % INDEX_MOD \in Index
         /\ (i + 1) % INDEX_MOD = IF i + 1 = INDEX_MOD THEN 0 ELSE i + 1
         /\ \A k \in Int : (((i + 1) % INDEX_MOD) + k) % QUEUE_SIZE = ((i + 1) + k) % QUEUE_SIZE
<1>0. i \in 0 .. INDEX_MOD - 1
  BY DEF Index
<1>1. (i + 1) % INDEX_MOD \in Index
  <2>1. i + 1 \in Int
    BY <1>0
  <2> QED
    BY <2>1, Sizes
<1>2. CASE i + 1 = INDEX_MOD
  <2>1. (i + 1) % INDEX_MOD = 0
    <3>1. INDEX_MOD \in Nat \ {0}
      BY Sizes
    <3>2. INDEX_MOD \in INDEX_MOD .. 2 * INDEX_MOD - 1
      BY <3>1
    <3>3. INDEX_MOD % INDEX_MOD = INDEX_MOD - INDEX_MOD
      BY <3>1, <3>2, ModOver
    <3> QED
      BY <1>2, <3>1, <3>3
  <2>2. ASSUME NEW k \in Int PROVE (0 + k) % QUEUE_SIZE = ((i + 1) + k) % QUEUE_SIZE
    <3>1. (i + 1) + k = k + INDEX_MOD /\ 0 + k = k
      BY <1>2, Sizes
    <3> QED
      BY <3>1, Wraps
  <2> QED
    BY <1>1, <1>2, <2>1, <2>2
<1>3. CASE i + 1 # INDEX_MOD
  <2>1. (i + 1) % INDEX_MOD = i + 1
    <3>1. i + 1 \in 0 .. INDEX_MOD - 1
      BY <1>0, <1>3, Sizes
    <3> QED
      BY <3>1, Sizes, ModSmall
  <2> QED
    BY <1>1, <1>3, <2>1
<1> QED
  BY <1>2, <1>3

\* What the stores of the indices do to the window.
LEMMA HeadMoves ==
  ASSUME TypeOK, TypeOK', head' = (head + 1) % INDEX_MOD, tail' = tail, Count < QUEUE_SIZE
  PROVE  Count' = Count + 1
<1>1. head \in 0 .. INDEX_MOD - 1 /\ tail \in 0 .. INDEX_MOD - 1
  BY DEF TypeOK, Index
<1>2. head' = IF head + 1 = INDEX_MOD THEN 0 ELSE head + 1
  BY NextIndex DEF TypeOK
<1>3. Count = IF head >= tail THEN head - tail ELSE (head - tail) + INDEX_MOD
  BY Window
<1>4. Count' = IF head' >= tail THEN head' - tail ELSE (head' - tail) + INDEX_MOD
  <2>1. (head' - tail') \in (-INDEX_MOD) .. INDEX_MOD - 1
    BY <1>1, <1>2, Sizes
  <2>2. CASE head' >= tail
    <3>1. head' - tail \in 0 .. INDEX_MOD - 1
      BY <1>1, <1>2, <2>2, Sizes
    <3> QED
      BY <2>2, <3>1, Sizes, ModSmall DEF Count
  <2>3. CASE ~(head' >= tail)
    <3>1. head' - tail \in (-INDEX_MOD) .. -1
      BY <1>1, <1>2, <2>3, Sizes
    <3> QED
      BY <2>3, <3>1, Sizes, ModUnder DEF Count
  <2> QED
    BY <2>2, <2>3
<1> QED
  BY <1>1, <1>2, <1>3, <1>4, Sizes

\* Taking the oldest block shortens the ring by one place at the tail.
LEMMA TailMoves ==
  ASSUME TypeOK, TypeOK', tail' = (tail + 1) % INDEX_MOD, head' = head, Count >= 1
  PROVE  /\ Count' = Count - 1
         /\ \A k \in Int : (tail' + k) % QUEUE_SIZE = (tail + (k + 1)) % QUEUE_SIZE
<1>1. head \in 0 .. INDEX_MOD - 1 /\ tail \in 0 .. INDEX_MOD - 1
  BY DEF TypeOK, Index
<1>2. tail' = IF tail + 1 = INDEX_MOD THEN 0 ELSE tail + 1
  BY NextIndex DEF TypeOK
<1>3. Count = IF head >= tail THEN head - tail ELSE (head - tail) + INDEX_MOD
  BY Window
<1>4. Count' = IF head >= tail' THEN head - tail' ELSE (head - tail') + INDEX_MOD
  <2>1. CASE head >= tail'
    <3>1. head - tail' \in 0 .. INDEX_MOD - 1
      BY <1>1, <1>2, <2>1, Sizes
    <3> QED
      BY <2>1, <3>1, Sizes, ModSmall DEF Count
  <2>2. CASE ~(head >= tail')
    <3>1. head - tail' \in (-INDEX_MOD) .. -1
      BY <1>1, <1>2, <2>2, Sizes
    <3> QED
      BY <2>2, <3>1, Sizes, ModUnder DEF Count
  <2> QED
    BY <2>1, <2>2
<1>5. ASSUME NEW k \in Int PROVE (tail' + k) % QUEUE_SIZE = (tail + (k + 1)) % QUEUE_SIZE
  <2>1. (tail + 1) + k = tail + (k + 1)
    BY <1>1
  <2> QED
    BY <2>1, NextIndex DEF TypeOK
<1>6. INDEX_MOD \in Nat \ {0}
  BY Sizes
<1>7. Count' = Count - 1
  BY <1>1, <1>2, <1>3, <1>4, <1>6
<1> QED
  BY <1>5, <1>7

\* Places of the window less than QUEUE_SIZE apart are different slots.
LEMMA SlotsApart ==
  ASSUME TypeOK, NEW j \in Int, NEW k \in Int, j < k, k < j + QUEUE_SIZE
  PROVE  (tail + j) % QUEUE_SIZE # (tail + k) % QUEUE_SIZE
<1>1. PICK n \in 1 .. QUEUE_SIZE - 1 : n = k - j
  BY Sizes
<1>2. tail \in Int /\ tail + j \in Int /\ tail + k = (tail + j) + n /\ tail + j = (tail + j) + 0
  BY <1>1, Sizes DEF TypeOK
<1>3. 0 \in 0 .. QUEUE_SIZE - 1 /\ n \in 0 .. QUEUE_SIZE - 1 /\ n # 0
  BY Sizes
<1>4. ((tail + j) + 0) % QUEUE_SIZE # ((tail + j) + n) % QUEUE_SIZE
  BY <1>2, <1>3, Sizes, ModApart
<1> QED
  BY <1>2, <1>4

-----------------------------------------------------------------------------
(***************************************************************************)
(* The invariant.  While no calls overlapped, one producer and one         *)
(* consumer are inside at most; the index a thread loaded is still the     *)
(* index; and a block is free, in the ring, or in the hand of one thread.  *)
(* So there are never more blocks in the ring and in hands than slots, and *)
(* the slot that is written is none that is still to be read.              *)
(***************************************************************************)
Inside == {"take", "read", "store"}

Own(t) == IF t \in Producers THEN hand[t] ELSE Taken(t)

Alone ==
  /\ \A p, q \in Producers : pc[p] # "idle" /\ pc[q] # "idle" => p = q
  /\ \A c, d \in Consumers : pc[c] \in Inside /\ pc[d] \in Inside => c = d

Registers ==
  /\ \A p \in Producers : pc[p] # "idle" => reg[p] = head
  /\ \A c \in Consumers : /\ pc[c] \in {"take", "store"} => reg[c] = tail /\ head # tail
                          /\ pc[c] = "read" => (reg[c] + 1) % INDEX_MOD = tail

Hands ==
  /\ \A p \in Producers : /\ pc[p] \in {"idle", "put", "inc"}
                          /\ hand[p] = NULL <=> pc[p] = "idle"
                          /\ pc[p] = "inc" => Data[head % QUEUE_SIZE] = hand[p]
  /\ \A c \in Consumers : /\ pc[c] \in {"idle", "done"} \cup Inside
                          /\ pc[c] = "store" => hand[c] = At(0)
                          /\ pc[c] \in {"read", "done"} => Taken(c) # NULL

Single ==
  /\ \A k \in Places : At(k) \in Blocks \ free
  /\ \A j, k \in Places : At(j) = At(k) => j = k
  /\ \A t \in Threads : Own(t) \in (Blocks \ free) \cup {NULL}
  /\ \A t \in Threads, k \in Places : Own(t) # At(k)
  /\ \A t, u \in Threads : Own(t) = Own(u) /\ Own(t) # NULL => t = u

Orderly == Alone /\ Registers /\ Hands /\ Single

IInv == TypeOK /\ (~overlapped => Orderly)

\* Blocks outside the ring leave room in it.
LEMMA Room ==
  ASSUME TypeOK, Single, NEW S \in SUBSET Blocks, \A k \in Places : At(k) \notin S
  PROVE  Count + Cardinality(S) <= QUEUE_SIZE
<1> DEFINE T == Blocks \ S
           f == [k \in Places |-> At(k)]
<1>1. IsFiniteSet(Blocks) /\ Cardinality(Blocks) <= QUEUE_SIZE
  BY QueueAssumption
<1>2. f \in Injection(Places, T)
  <2>1. f \in [Places -> T]
    BY DEF Single
  <2>2. \A j, k \in Places : f[j] = f[k] => j = k
    BY DEF Single
  <2> QED
    BY <2>1, <2>2 DEF Injection, IsInjective
<1>3. IsFiniteSet(T) /\ Cardinality(T) = Cardinality(Blocks) - Cardinality(Blocks \cap S)
  BY <1>1, FS_Difference
<1>4. Blocks \cap S = S
  OBVIOUS
<1>5. Cardinality(Places) <= Cardinality(T)
  <2> HIDE DEF f, T
  <2> QED
    BY <1>2, <1>3, FS_Injection
<1>6. Count \in Nat /\ Cardinality(Places) = Count
  <2>1. Count \in Nat
    BY Window DEF Index
  <2>2. Cardinality(0 .. Count - 1) = IF 0 > Count - 1 THEN 0 ELSE (Count - 1) - 0 + 1
    BY <2>1, FS_Interval
  <2> QED
    BY <2>1, <2>2 DEF Places
<1>7. Cardinality(Blocks) \in Nat /\ Cardinality(S) \in Nat /\ Cardinality(T) \in Nat /\ QUEUE_SIZE \in Nat
  <2>1. IsFiniteSet(S)
    BY <1>1, FS_Subset
  <2> QED
    BY <1>1, <1>3, <2>1, FS_CardinalityType, Sizes
<1> HIDE DEF T
<1> QED
  BY <1>1, <1>3, <1>4, <1>5, <1>6, <1>7

\* One block outside the ring, or two.
LEMMA RoomForOne ==
  ASSUME TypeOK, Single, NEW b \in Blocks, \A k \in Places : At(k) # b
  PROVE  Count < QUEUE_SIZE
<1>1. Cardinality({b}) = 1
  BY FS_Singleton
<1>2. Count + Cardinality({b}) <= QUEUE_SIZE
  BY Room
<1>3. Count \in Nat /\ QUEUE_SIZE \in Nat
  BY Window, Sizes DEF Index
<1> QED
  BY <1>1, <1>2, <1>3

\* Two blocks that are not in the ring have room in it together.
LEMMA RoomForTwo ==
  ASSUME TypeOK, Single, NEW b \in Blocks, NEW d \in Blocks, b # d,
         \A k \in Places : At(k) # b /\ At(k) # d
  PROVE  Count + 1 < QUEUE_SIZE
<1>1. Cardinality({b, d}) = 2
  <2>1. {b, d} = {b} \cup {d}
    OBVIOUS
  <2> QED
    <3>1. IsFiniteSet({b}) /\ Cardinality({b}) = 1
      BY FS_Singleton
    <3>2. Cardinality({b} \cup {d}) = 1 + 1
      BY <3>1, FS_AddElement
    <3> QED
      BY <2>1, <3>2
<1>2. Count + Cardinality({b, d}) <= QUEUE_SIZE
  BY Room
<1>3. Count \in Nat /\ QUEUE_SIZE \in Nat
  BY Window, Sizes DEF Index
<1> QED
  BY <1>1, <1>2, <1>3

\* The invariant says what is wanted: a caller with a free block finds room.
LEMMA OrderlyRoom ==
  ASSUME TypeOK, Orderly, free # {}
  PROVE  NotFull
<1>1. PICK b \in Blocks : b \in free
  BY DEF TypeOK
<1>2. \A k \in Places : At(k) # b
  BY <1>1 DEF Orderly, Single
<1> QED
  BY <1>2, RoomForOne, Window DEF Orderly

-----------------------------------------------------------------------------
(***************************************************************************)
(* The steps.                                                              *)
(***************************************************************************)
\* Producers and consumers are threads, and no thread is both.
LEMMA Ends == /\ Producers \subseteq Threads /\ Consumers \subseteq Threads
              /\ \A t \in Threads : t \in Producers \/ t \in Consumers
              /\ \A c \in Consumers : c \notin Producers
              /\ NULL \notin Blocks
  BY QueueAssumption DEF Threads

\* A thread that is left alone keeps what it owns.
LEMMA OwnStays ==
  ASSUME NEW t \in Threads, pc'[t] = pc[t], reg'[t] = reg[t], hand'[t] = hand[t],
         pc[t] = "read" => Data'[reg[t] % QUEUE_SIZE] = Data[reg[t] % QUEUE_SIZE]
  PROVE  Own(t)' = Own(t)
  BY DEF Own, Taken

\* Testing for room keeps the ring in order.
LEMMA InsertTestOrderly ==
  ASSUME TypeOK, Orderly, ~overlapped', NEW p \in Producers, NEW b \in Blocks, InsertTest(p, b)
  PROVE  Orderly'
<1> USE DEF Orderly
<1>1. /\ pc[p] = "idle" /\ b \in free /\ free' = free \ {b}
      /\ UNCHANGED <<head, tail, Data>>
      /\ pc'[p] = "put" /\ reg'[p] = head /\ hand'[p] = b
      /\ \A t \in Threads \ {p} : pc'[t] = pc[t] /\ reg'[t] = reg[t] /\ hand'[t] = hand[t]
      /\ \A q \in Producers \ {p} : pc[q] = "idle"
  BY Ends DEF InsertTest, TypeOK, Contended, Hands
<1>2. Places' = Places /\ \A k \in Int : At(k)' = At(k)
  BY <1>1 DEF Places, Count, At
<1>3. /\ \A t \in Threads \ {p} : Own(t)' = Own(t)
      /\ Own(p)' = b
  BY <1>1, OwnStays DEF Own
<1>4. Alone'
  BY <1>1, Ends DEF Alone
<1>5. Registers'
  BY <1>1, Ends DEF Registers
<1>6. Hands'
  <2>1. \A c \in Consumers : Taken(c)' = Taken(c) /\ pc'[c] = pc[c] /\ hand'[c] = hand[c]
    BY <1>1, <1>3, Ends DEF Own
  <2>2. At(0)' = At(0)
    BY <1>2
  <2> QED
    BY <1>1, <2>1, <2>2, Ends DEF Hands
<1>7. Single'
  <2>1. \A t \in Threads : Own(t) # b
    BY <1>1, Ends DEF Single
  <2>2. \A k \in Places : At(k) # b /\ At(k)' = At(k)
    BY <1>1, <1>2, Window DEF Single, Places, Index
  <2> QED
    BY <1>1, <1>2, <1>3, <2>1, <2>2, Ends DEF Single
<1> QED
  BY <1>4, <1>5, <1>6, <1>7

\* The slot that is written is none of the window, and not the one a consumer
\* is about to read.
LEMMA PutApart ==
  ASSUME TypeOK, Orderly, NEW p \in Producers, pc[p] # "idle"
  PROVE  /\ Count < QUEUE_SIZE
         /\ \A k \in Places : (tail + k) % QUEUE_SIZE # head % QUEUE_SIZE
         /\ \A c \in Consumers : pc[c] = "read" => reg[c] % QUEUE_SIZE # head % QUEUE_SIZE
<1> USE DEF Orderly
<1>1. hand[p] \in Blocks /\ Own(p) = hand[p] /\ p \in Threads
  BY Ends DEF Hands, Single, Own
<1>2. \A k \in Places : At(k) # hand[p]
  BY <1>1 DEF Single
<1>3. Count < QUEUE_SIZE
  BY <1>1, <1>2, RoomForOne
<1>4. Count \in Nat /\ QUEUE_SIZE \in Nat /\ head % QUEUE_SIZE = (tail + Count) % QUEUE_SIZE
  BY Window, Sizes DEF Index
<1>5. ASSUME NEW k \in Places PROVE (tail + k) % QUEUE_SIZE # head % QUEUE_SIZE
  <2>1. k \in Int /\ k < Count /\ Count < k + QUEUE_SIZE /\ Count \in Int
    BY <1>3, <1>4 DEF Places
  <2> QED
    BY <1>4, <2>1, SlotsApart
<1>6. ASSUME NEW c \in Consumers, pc[c] = "read" PROVE reg[c] % QUEUE_SIZE # head % QUEUE_SIZE
  <2>1. c \in Threads /\ c \notin Producers /\ reg[c] \in Index /\ (reg[c] + 1) % INDEX_MOD = tail
    BY <1>6, Ends DEF TypeOK, Registers
  <2>2. reg[c] % QUEUE_SIZE = (tail + (-1)) % QUEUE_SIZE
    <3>1. -1 \in Int
      OBVIOUS
    <3>2. (((reg[c] + 1) % INDEX_MOD) + (-1)) % QUEUE_SIZE = ((reg[c] + 1) + (-1)) % QUEUE_SIZE
      BY <2>1, <3>1, NextIndex
    <3>3. (reg[c] + 1) + (-1) = reg[c]
      BY <2>1, Sizes
    <3> QED
      BY <2>1, <3>2, <3>3
  <2>3. Own(c) \in Blocks /\ Own(c) # hand[p] /\ \A k \in Places : At(k) # Own(c)
    BY <1>1, <1>6, <2>1, Ends DEF Single, Hands, Own
  <2>4. Count + 1 < QUEUE_SIZE
    BY <1>1, <1>2, <2>3, RoomForTwo
  <2>5. -1 \in Int /\ Count \in Int /\ -1 < Count /\ Count < (-1) + QUEUE_SIZE
    BY <1>4, <2>4
  <2>6. (tail + (-1)) % QUEUE_SIZE # (tail + Count) % QUEUE_SIZE
    BY <2>5, SlotsApart
  <2> QED
    BY <1>4, <2>2, <2>6
<1> QED
  BY <1>3, <1>5, <1>6

\* Writing the slot changes no place readers look at.
LEMMA InsertPutOrderly ==
  ASSUME TypeOK, Orderly, NEW p \in Producers, InsertPut(p)
  PROVE  /\ Orderly'
         /\ Count' = Count
         /\ \A k \in Places : At(k)' = At(k)
         /\ \A c \in Consumers : Taken(c)' = Taken(c)
<1> USE DEF Orderly
<1>1. Reload(p, head) = {head} /\ head % QUEUE_SIZE \in Slots
  BY Sizes DEF InsertPut, Registers, Reload, TypeOK
<1>2. /\ pc[p] = "put" /\ pc'[p] = "inc" /\ reg'[p] = head /\ UNCHANGED <<head, tail, hand, free>>
      /\ Data'[head % QUEUE_SIZE] = hand[p]
      /\ \A i \in Slots \ {head % QUEUE_SIZE} : Data'[i] = Data[i]
      /\ \A t \in Threads \ {p} : pc'[t] = pc[t] /\ reg'[t] = reg[t]
  BY <1>1, Ends DEF InsertPut, TypeOK
<1>3. Count' = Count /\ Places' = Places
  BY <1>2 DEF Count, Places
<1>4. \A k \in Places : At(k)' = At(k)
  <2> TAKE k \in Places
  <2>1. tail + k \in Int
    BY Sizes, Window DEF TypeOK, Places, Index
  <2>2. (tail + k) % QUEUE_SIZE \in Slots \ {head % QUEUE_SIZE}
    BY <1>2, <2>1, Sizes, PutApart
  <2> QED
    BY <1>2, <2>2 DEF At
<1>5. \A t \in Threads : Own(t)' = Own(t)
  <2>1. ASSUME NEW t \in Threads \ {p} PROVE Own(t)' = Own(t)
    <3>1. CASE t \in Consumers /\ pc[t] = "read"
      <4>1. reg[t] % QUEUE_SIZE \in Slots \ {head % QUEUE_SIZE}
        BY <1>2, <3>1, PutApart, Sizes DEF TypeOK
      <4> QED
        BY <1>2, <4>1, OwnStays
    <3>2. CASE t \in Producers
      BY <1>2, <3>2 DEF Own
    <3> QED
      BY <1>2, <3>1, <3>2, OwnStays, Ends
  <2>2. Own(p)' = Own(p)
    BY <1>2 DEF Own
  <2> QED
    BY <2>1, <2>2
<1>6. \A c \in Consumers : Taken(c)' = Taken(c) /\ pc'[c] = pc[c] /\ hand'[c] = hand[c] /\ reg'[c] = reg[c]
  BY <1>2, <1>5, Ends DEF Own
<1>7. Alone'
  BY <1>2, Ends DEF Alone
<1>8. Registers'
  BY <1>2, <1>6, Ends DEF Registers
<1>9. Hands'
  <2>1. ASSUME NEW q \in Producers
        PROVE  /\ pc'[q] \in {"idle", "put", "inc"}
               /\ hand'[q] = NULL <=> pc'[q] = "idle"
               /\ pc'[q] = "inc" => Data'[head' % QUEUE_SIZE] = hand'[q]
    <3>1. q # p => pc[q] = "idle"
      BY <1>2 DEF Alone
    <3> QED
      BY <1>2, <3>1, Ends DEF Hands
  <2>2. ASSUME NEW c \in Consumers, pc[c] = "store" PROVE At(0)' = At(0)
    <3>1. 0 \in Places
      BY <2>2, Window DEF Registers, Places, Index
    <3> QED
      BY <1>4, <3>1
  <2> QED
    BY <1>6, <2>1, <2>2 DEF Hands
<1>10. Single'
  BY <1>2, <1>3, <1>4, <1>5 DEF Single
<1> QED
  BY <1>3, <1>4, <1>6, <1>7, <1>8, <1>9, <1>10

\* Moving the head adds the written block at the end, and moves no other.
LEMMA InsertIncOrderly ==
  ASSUME TypeOK, TypeOK', Orderly, NEW p \in Producers, InsertInc(p)
  PROVE  /\ Orderly'
         /\ Count' = Count + 1
         /\ \A k \in Places : At(k)' = At(k)
         /\ \A n \in Nat : n = Count => At(n)' = hand[p]
         /\ hand[p] \in Blocks
         /\ \A c \in Consumers : Taken(c)' = Taken(c)
<1> USE DEF Orderly
<1>1. Reload(p, head) = {head} /\ head % QUEUE_SIZE \in Slots
  BY Sizes DEF InsertInc, Registers, Reload, TypeOK
<1>2. /\ pc[p] = "inc" /\ pc'[p] = "idle" /\ hand'[p] = NULL /\ head' = (head + 1) % INDEX_MOD
      /\ UNCHANGED <<tail, Data, reg, free>>
      /\ \A t \in Threads \ {p} : pc'[t] = pc[t] /\ hand'[t] = hand[t]
  BY <1>1, Ends DEF InsertInc, TypeOK
<1>3. Count' = Count + 1 /\ Count \in Nat
  BY <1>2, PutApart, HeadMoves, Window DEF Index
<1>n. PICK n \in Nat : n = Count
  BY <1>3
<1>4. Places' = Places \cup {n}
  BY <1>3, <1>n DEF Places
<1>5. \A k : At(k)' = Data[(tail + k) % QUEUE_SIZE] /\ At(k) = Data[(tail + k) % QUEUE_SIZE]
  BY <1>2 DEF At
<1>6. Data[(tail + Count) % QUEUE_SIZE] = hand[p] /\ hand[p] \in Blocks \ free /\ Own(p) = hand[p]
  BY <1>2, Window, Ends DEF Hands, Single, Own
<1>7. /\ \A t \in Threads \ {p} : Own(t)' = Own(t)
      /\ Own(p)' = NULL
  BY <1>2, OwnStays DEF Own
<1>8. \A c \in Consumers : Taken(c)' = Taken(c) /\ pc'[c] = pc[c] /\ hand'[c] = hand[c]
  BY <1>2, <1>7, Ends DEF Own
<1>9. \A q \in Producers \ {p} : pc[q] = "idle" /\ pc'[q] = "idle"
  BY <1>2, Ends DEF Alone
<1>10. Alone'
  BY <1>2, <1>8, <1>9 DEF Alone
<1>11. Registers'
  <2>1. head' # tail'
    <3>1. CASE head' = tail'
      <4>1. head' \in 0 .. INDEX_MOD - 1 /\ INDEX_MOD \in Nat \ {0}
        <5>1. head' \in 0 .. INDEX_MOD - 1
          BY DEF TypeOK, Index
        <5> QED
          BY <5>1, Sizes
      <4>2. head' - tail' = 0 /\ 0 \in 0 .. INDEX_MOD - 1
        <5>1. PICK h \in 0 .. INDEX_MOD - 1 : h = head' /\ h = tail'
          BY <3>1, <4>1
        <5>2. h - h = 0 /\ 0 \in 0 .. INDEX_MOD - 1
          BY <4>1
        <5> QED
          BY <5>1, <5>2
      <4>3. Count' = 0
        BY <4>1, <4>2, ModSmall DEF Count
      <4> QED
        BY <1>3, <4>3
    <3> QED
      BY <3>1
  <2> QED
    BY <1>2, <1>8, <1>9, <2>1 DEF Registers
<1>12. Hands'
  <2>1. At(0)' = At(0)
    BY <1>5
  <2> QED
    BY <1>2, <1>8, <1>9, <2>1, Ends DEF Hands
<1>13. Single'
  <2>1. \A k \in Places : At(k) # hand[p] /\ At(k) \in Blocks \ free
    BY <1>6, Ends DEF Single
  <2>2. \A t \in Threads \ {p} : Own(t) # hand[p]
    BY <1>6, Ends DEF Single
  <2>3. \A k \in Places : At(k)' = At(k)
    BY <1>5
  <2>4. At(n)' = hand[p]
    BY <1>2, <1>6, <1>n DEF At
  <2>5. \A k \in Places' : k = n \/ k \in Places
    BY <1>4
  <2> QED
    BY <1>2, <1>4, <1>6, <1>7, <2>1, <2>2, <2>3, <2>4, <2>5, Ends DEF Single
<1> QED
  BY <1>3, <1>5, <1>6, <1>8, <1>10, <1>11, <1>12, <1>13

\* Testing for a block keeps the ring in order.
LEMMA GetTestOrderly ==
  ASSUME TypeOK, Orderly, ~overlapped', NEW c \in Consumers, GetTest(c)
  PROVE  /\ Orderly'
         /\ \A d \in Consumers : Taken(d)' = Taken(d)
<1> USE DEF Orderly
<1>1. /\ pc[c] = "idle" /\ head # tail /\ pc'[c] = "take" /\ reg'[c] = tail
      /\ UNCHANGED <<head, tail, Data, hand, free>>
      /\ \A t \in Threads \ {c} : pc'[t] = pc[t] /\ reg'[t] = reg[t]
      /\ \A d \in Consumers \ {c} : pc[d] \in {"idle", "done"}
  BY Ends DEF GetTest, TypeOK, Contended
<1>2. Count' = Count /\ Places' = Places /\ \A k : At(k)' = At(k)
  BY <1>1 DEF Places, Count, At
<1>3. \A t \in Threads : Own(t)' = Own(t)
  <2>1. Own(c)' = Own(c)
    BY <1>1, Ends DEF Own, Taken
  <2> QED
    BY <1>1, <2>1, OwnStays
<1>4. \A d \in Consumers : Taken(d)' = Taken(d)
  BY <1>3, Ends DEF Own
<1>5. Alone'
  BY <1>1, Ends DEF Alone, Inside
<1>6. Registers'
  BY <1>1, Ends DEF Registers
<1>7. Hands'
  <2>1. At(0)' = At(0)
    BY <1>2
  <2> QED
    BY <1>1, <1>4, <2>1, Ends DEF Hands, Inside
<1>8. Single'
  BY <1>1, <1>2, <1>3 DEF Single
<1> QED
  BY <1>4, <1>5, <1>6, <1>7, <1>8

\* Reading the slot keeps the ring in order.
LEMMA GetReadOrderly ==
  ASSUME TypeOK, Orderly, NEW c \in Consumers, GetRead(c)
  PROVE  /\ Orderly'
         /\ \A d \in Consumers : Taken(d)' = Taken(d)
<1> USE DEF Orderly
<1>1. /\ pc[c] \in {"take", "read"} /\ reg' = reg /\ UNCHANGED <<head, tail, Data, free>>
      /\ hand'[c] = Data[reg[c] % QUEUE_SIZE]
      /\ pc'[c] = IF pc[c] = "take" THEN "store" ELSE "done"
      /\ \A t \in Threads \ {c} : pc'[t] = pc[t] /\ hand'[t] = hand[t]
  <2>1. (IF pc[c] = "take" THEN Reload(c, tail) ELSE {reg[c]}) = {reg[c]}
    BY DEF Registers, Reload
  <2>2. hand'[c] = Data[reg[c] % QUEUE_SIZE] /\ reg' = reg
    BY <2>1, Ends DEF GetRead, TypeOK
  <2> QED
    BY <2>2, Ends DEF GetRead, TypeOK
<1>2. Count' = Count /\ Places' = Places /\ \A k : At(k)' = At(k)
  BY <1>1 DEF Places, Count, At
<1>3. \A t \in Threads : Own(t)' = Own(t)
  <2>1. Own(c)' = Own(c)
    BY <1>1, Ends DEF Own, Taken
  <2> QED
    BY <1>1, <2>1, OwnStays
<1>4. \A d \in Consumers : Taken(d)' = Taken(d)
  BY <1>3, Ends DEF Own
<1>5. Alone'
  BY <1>1, Ends DEF Alone, Inside
<1>6. Registers'
  BY <1>1, Ends DEF Registers
<1>7. Hands'
  <2>1. At(0)' = At(0)
    BY <1>2
  <2>2. pc[c] = "take" => hand'[c] = At(0)
    <3>1. pc[c] = "take" => reg[c] = tail
      BY DEF Registers
    <3>2. tail + 0 = tail
      BY Sizes DEF TypeOK
    <3> QED
      BY <1>1, <3>1, <3>2 DEF At
  <2> QED
    BY <1>1, <1>4, <2>1, <2>2, Ends DEF Hands, Inside
<1>8. Single'
  BY <1>1, <1>2, <1>3 DEF Single
<1> QED
  BY <1>4, <1>5, <1>6, <1>7, <1>8

\* Moving the tail hands over the oldest block, and the others move up.
LEMMA GetStoreOrderly ==
  ASSUME TypeOK, TypeOK', Orderly, NEW c \in Consumers, GetStore(c)
  PROVE  /\ Orderly'
         /\ Count >= 1 /\ Count' = Count - 1
         /\ \A k \in Places' : At(k)' = At(k + 1)
         /\ Taken(c) = NULL /\ Taken(c)' = At(0)
         /\ \A d \in Consumers \ {c} : Taken(d)' = Taken(d)
<1> USE DEF Orderly
<1>1. /\ pc[c] \in {"take", "store"} /\ reg' = reg /\ reg[c] = tail /\ head # tail
      /\ tail' = (tail + 1) % INDEX_MOD /\ UNCHANGED <<head, Data, hand, free>>
      /\ pc'[c] = IF pc[c] = "take" THEN "read" ELSE "done"
      /\ \A t \in Threads \ {c} : pc'[t] = pc[t]
  <2>1. reg[c] = tail /\ head # tail
    BY DEF GetStore, Registers
  <2>2. (IF pc[c] = "take" THEN Reload(c, tail) ELSE {reg[c]}) = {tail}
    BY <2>1 DEF Reload
  <2>3. tail' = (tail + 1) % INDEX_MOD /\ reg' = reg
    BY <2>1, <2>2, Ends DEF GetStore, TypeOK
  <2> QED
    BY <2>1, <2>3, Ends DEF GetStore, TypeOK
<1>2. Count \in Nat /\ Count >= 1
  BY <1>1, Window DEF Index
<1>3. /\ Count' = Count - 1
      /\ \A k \in Int : (tail' + k) % QUEUE_SIZE = (tail + (k + 1)) % QUEUE_SIZE
  BY <1>1, <1>2, TailMoves
<1>4. /\ \A k \in Places' : k \in Int /\ k + 1 \in Places
      /\ 0 \in Places /\ \A k \in Places' : k + 1 # 0
  BY <1>2, <1>3 DEF Places
<1>5. \A k \in Places' : At(k)' = At(k + 1)
  BY <1>1, <1>3, <1>4 DEF At
<1>6. Taken(c) = NULL /\ Taken(c)' = At(0) /\ Own(c) = NULL /\ Own(c)' = At(0)
  <2>1. tail + 0 = tail
    BY Sizes DEF TypeOK
  <2>2. At(0) = Data[tail % QUEUE_SIZE]
    BY <2>1 DEF At
  <2>3. pc[c] = "store" => hand[c] = At(0)
    BY DEF Hands
  <2> QED
    BY <1>1, <2>2, <2>3, Ends DEF Taken, Own
<1>7. \A t \in Threads \ {c} : Own(t)' = Own(t)
  BY <1>1, OwnStays
<1>8. \A d \in Consumers \ {c} : Taken(d)' = Taken(d) /\ pc'[d] = pc[d] /\ pc[d] \notin Inside
  BY <1>1, <1>7, Ends DEF Own, Alone, Inside
<1>9. At(0) \in Blocks \ free
  BY <1>4 DEF Single
<1>10. Alone'
  BY <1>1, <1>8, Ends DEF Alone, Inside
<1>11. Registers'
  BY <1>1, <1>8, Ends DEF Registers, Inside
<1>12. Hands'
  BY <1>1, <1>6, <1>8, <1>9, Ends DEF Hands, Inside
<1>13. Single'
  <2>1. \A t \in Threads : Own(t) # At(0)
    BY <1>4 DEF Single
  <2>2. \A k \in Places' : At(k)' # At(0) /\ At(k)' \in Blocks \ free
    BY <1>4, <1>5 DEF Single
  <2>3. \A j, k \in Places' : At(j)' = At(k)' => j = k
    <3> SUFFICES ASSUME NEW j \in Places', NEW k \in Places', At(j)' = At(k)' PROVE j = k
      OBVIOUS
    <3>1. At(j + 1) = At(k + 1) /\ j + 1 \in Places /\ k + 1 \in Places
      BY <1>4, <1>5
    <3>2. j + 1 = k + 1
      BY <3>1 DEF Single
    <3> QED
      BY <1>4, <3>2
  <2>4. \A t \in Threads \ {c}, k \in Places' : Own(t)' # At(k)'
    BY <1>4, <1>5, <1>7 DEF Single
  <2>5. \A t \in Threads \ {c} : Own(t)' = Own(t) /\ Own(t)' # Own(c)'
    BY <1>6, <1>7, <2>1
  <2> QED
    BY <1>1, <1>6, <1>9, <2>2, <2>3, <2>4, <2>5 DEF Single
<1> QED
  BY <1>2, <1>3, <1>5, <1>6, <1>8, <1>10, <1>11, <1>12, <1>13

\* Freeing a block gives it back and leaves the ring alone.
LEMMA ReleaseOrderly ==
  ASSUME TypeOK, Orderly, NEW c \in Consumers, Release(c)
  PROVE  /\ Orderly'
         /\ Taken(c) # NULL /\ Taken(c)' = NULL
         /\ \A d \in Consumers \ {c} : Taken(d)' = Taken(d)
<1> USE DEF Orderly
<1>1. /\ pc[c] = "done" /\ pc'[c] = "idle" /\ hand'[c] = NULL
      /\ free' = free \cup ({hand[c]} \ {NULL})
      /\ UNCHANGED <<head, tail, Data, reg>>
      /\ \A t \in Threads \ {c} : pc'[t] = pc[t] /\ hand'[t] = hand[t]
  BY Ends DEF Release, TypeOK
<1>2. Count' = Count /\ Places' = Places /\ \A k : At(k)' = At(k)
  BY <1>1 DEF Places, Count, At
<1>3. Own(c) = hand[c] /\ Taken(c) = hand[c] /\ hand[c] # NULL /\ Own(c)' = NULL /\ Taken(c)' = NULL
  BY <1>1, Ends DEF Own, Taken, Hands
<1>4. \A t \in Threads \ {c} : Own(t)' = Own(t)
  BY <1>1, OwnStays
<1>5. \A d \in Consumers \ {c} : Taken(d)' = Taken(d)
  BY <1>4, Ends DEF Own
<1>6. Alone'
  BY <1>1, Ends DEF Alone, Inside
<1>7. Registers'
  BY <1>1, Ends DEF Registers
<1>8. Hands'
  <2>1. At(0)' = At(0)
    BY <1>2
  <2> QED
    BY <1>1, <1>5, <2>1, Ends DEF Hands, Inside
<1>9. Single'
  <2>1. \A k \in Places : At(k) # hand[c]
    BY <1>3, Ends DEF Single
  <2>2. \A t \in Threads \ {c} : Own(t) # hand[c]
    BY <1>3, Ends DEF Single
  <2> QED
    BY <1>1, <1>2, <1>3, <1>4, <2>1, <2>2, Ends DEF Single
<1> QED
  BY <1>3, <1>5, <1>6, <1>7, <1>8, <1>9

-----------------------------------------------------------------------------
(***************************************************************************)
(* The invariant, room and order.                                          *)
(***************************************************************************)
\* The ring starts orderly.
LEMMA InitOrderly == Init => IInv
<1> SUFFICES ASSUME Init PROVE IInv
  OBVIOUS
<1>1. TypeOK
  BY InitTypes
<1>2. Count = 0 /\ Places = {}
  <2>1. head - tail = 0 /\ 0 \in 0 .. INDEX_MOD - 1
    BY Sizes DEF Init
  <2>2. Count = 0
    BY <2>1, Sizes, ModSmall DEF Count
  <2> QED
    BY <2>2 DEF Places
<1>3. \A t \in Threads : pc[t] = "idle" /\ hand[t] = NULL /\ Own(t) = NULL
  BY DEF Init, Own, Taken
<1> QED
  BY <1>1, <1>2, <1>3, Ends DEF IInv, Orderly, Alone, Registers, Hands, Single, Inside

\* Overlapping calls are not forgotten.
LEMMA OverlapStays ==
  ASSUME [Next]_vars, TypeOK, ~overlapped'
  PROVE  ~overlapped
  BY DEF Next, InsertTest, InsertPut, InsertInc, GetTest, GetRead, GetStore, Release, vars, TypeOK

\* Every step keeps the invariant.
LEMMA NextOrderly ==
  ASSUME IInv, [Next]_vars
  PROVE  IInv'
<1>1. TypeOK /\ TypeOK'
  BY NextTypes DEF IInv
<1> SUFFICES ASSUME ~overlapped' PROVE Orderly'
  BY <1>1 DEF IInv
<1>2. Orderly
  BY <1>1, OverlapStays DEF IInv
<1>3. ASSUME UNCHANGED vars PROVE Orderly'
  BY <1>2, <1>3 DEF vars, Orderly, Alone, Registers, Hands, Single, Own, Taken, At, Places, Count
<1> QED
  BY <1>1, <1>2, <1>3, InsertTestOrderly, InsertPutOrderly, InsertIncOrderly, GetTestOrderly,
     GetReadOrderly, GetStoreOrderly, ReleaseOrderly DEF Next

\* The invariant holds in every reachable state.
LEMMA Invariance == Spec => []IInv
  BY InitOrderly, NextOrderly, PTL DEF Spec

\* Indices, slots and hands keep their types whatever calls overlap.
THEOREM TypeCorrect == Spec => []TypeOK
  BY InitTypes, NextTypes, PTL DEF Spec

\* queue_insert never refuses a caller that has a block, as long as no two
\* calls overlapped at one end: for a ring of any size and a pool of at most
\* as many blocks, also when Head has wrapped and Tail has not.
THEOREM RingHasRoom == Spec => []AlwaysRoom
<1>1. IInv => AlwaysRoom
  BY OrderlyRoom DEF IInv, AlwaysRoom
<1> QED
  BY <1>1, Invariance, PTL

-----------------------------------------------------------------------------
(***************************************************************************)
(* The ring implements BlockFifo.                                          *)
(***************************************************************************)
ContentsAre ==
  /\ Contents \in Seq(Blocks) /\ Len(Contents) = Count /\ Count \in Nat
  /\ \A k \in 1 .. Count : Contents[k] = At(k - 1) /\ k - 1 \in Places

\* The sequence the abstract queue holds has the ring's length and items.
LEMMA ContentsFacts == TypeOK /\ Orderly => ContentsAre
<1> SUFFICES ASSUME TypeOK, Orderly PROVE ContentsAre
  OBVIOUS
<1>1. Count \in Nat
  BY Window DEF Index
<1>2. \A k \in 1 .. Count : k - 1 \in Places
  BY <1>1 DEF Places
<1>3. \A k \in 1 .. Count : Contents[k] = At(k - 1)
  <2> TAKE k \in 1 .. Count
  <2>1. tail + k - 1 = tail + (k - 1)
    BY <1>1, Sizes DEF TypeOK
  <2> QED
    BY <2>1 DEF Contents, At
<1>4. \A k \in 1 .. Count : Contents[k] \in Blocks
  BY <1>2, <1>3 DEF Orderly, Single
<1>5. Contents \in [1 .. Count -> Blocks]
  BY <1>4 DEF Contents
<1> QED
  BY <1>1, <1>2, <1>3, <1>5 DEF ContentsAre

\* The same in the next state.
LEMMA ContentsNext == (TypeOK /\ Orderly)' => ContentsAre'
  BY ContentsFacts, PTL

\* An insertion appends its block with the store of Head.
LEMMA IncPuts ==
  ASSUME TypeOK, TypeOK', Orderly, NEW p \in Producers, InsertInc(p)
  PROVE  Fifo!Next
<1>1. /\ Orderly' /\ Count' = Count + 1
      /\ \A k \in Places : At(k)' = At(k)
      /\ \A n \in Nat : n = Count => At(n)' = hand[p]
      /\ hand[p] \in Blocks
      /\ \A c \in Consumers : Taken(c)' = Taken(c)
  BY InsertIncOrderly
<1>2. ContentsAre /\ ContentsAre'
  BY <1>1, ContentsFacts, ContentsNext
<1>3. Own(p) = hand[p] /\ hand[p] # NULL /\ p \in Threads
  BY <1>1, Ends DEF Own
<1>4. \A k \in DOMAIN Contents : Contents[k] # hand[p]
  BY <1>2, <1>3 DEF ContentsAre, Orderly, Single
<1>5. \A c \in Consumers : Taken(c) # hand[p]
  BY <1>3, Ends DEF Orderly, Single, Own
<1>6. Contents' = Append(Contents, hand[p])
  <2>1. /\ Append(Contents, hand[p]) \in Seq(Blocks) /\ Len(Append(Contents, hand[p])) = Count + 1
        /\ \A k \in 1 .. Count : Append(Contents, hand[p])[k] = Contents[k]
        /\ Append(Contents, hand[p])[Count + 1] = hand[p]
    BY <1>1, <1>2 DEF ContentsAre
  <2>2. ASSUME NEW k \in 1 .. Count + 1 PROVE Contents'[k] = Append(Contents, hand[p])[k]
    <3>1. Contents'[k] = At(k - 1)' /\ Count \in Nat
      BY <1>1, <1>2 DEF ContentsAre
    <3>2. CASE k = Count + 1
      <4>1. k - 1 \in Nat /\ k - 1 = Count
        BY <3>1, <3>2
      <4> QED
        BY <1>1, <2>1, <3>1, <3>2, <4>1
    <3>3. CASE k # Count + 1
      <4>1. k \in 1 .. Count
        BY <3>1, <3>3
      <4> QED
        BY <1>1, <1>2, <2>1, <3>1, <4>1 DEF ContentsAre
    <3> QED
      BY <3>2, <3>3
  <2>3. Contents' \in Seq(Blocks) /\ Len(Contents') = Count + 1
    BY <1>1, <1>2 DEF ContentsAre
  <2> QED
    BY <2>1, <2>2, <2>3, SeqEqual
<1>7. [c \in Consumers |-> Taken(c)]' = [c \in Consumers |-> Taken(c)]
  BY <1>1
<1> QED
  BY <1>1, <1>4, <1>5, <1>6, <1>7 DEF Fifo!Next, Fifo!Put

\* A removal takes the oldest block with the store of Tail.
LEMMA StoreTakes ==
  ASSUME TypeOK, TypeOK', Orderly, NEW c \in Consumers, GetStore(c)
  PROVE  Fifo!Next
<1>1. /\ Orderly' /\ Count >= 1 /\ Count' = Count - 1
      /\ \A k \in Places' : At(k)' = At(k + 1)
      /\ Taken(c) = NULL /\ Taken(c)' = At(0)
      /\ \A d \in Consumers \ {c} : Taken(d)' = Taken(d)
  BY GetStoreOrderly
<1>2. ContentsAre /\ ContentsAre'
  BY <1>1, ContentsFacts, ContentsNext
<1>3. Contents # <<>> /\ Head(Contents) = At(0) /\ 1 \in 1 .. Count
  BY <1>1, <1>2 DEF ContentsAre
<1>4. Contents' = Tail(Contents)
  <2>1. /\ Tail(Contents) \in Seq(Blocks) /\ Len(Tail(Contents)) = Count - 1
        /\ \A k \in 1 .. Count - 1 : Tail(Contents)[k] = Contents[k + 1]
    BY <1>2, <1>3 DEF ContentsAre
  <2>2. ASSUME NEW k \in 1 .. Count - 1 PROVE Contents'[k] = Tail(Contents)[k]
    <3>1. Contents'[k] = At(k - 1)' /\ k - 1 \in Places' /\ Count \in Nat
      BY <1>1, <1>2 DEF ContentsAre
    <3>2. (k - 1) + 1 = (k + 1) - 1 /\ k + 1 \in 1 .. Count
      BY <3>1
    <3>3. At(k - 1)' = At((k + 1) - 1)
      BY <1>1, <3>1, <3>2
    <3> QED
      BY <1>2, <2>1, <3>1, <3>2, <3>3 DEF ContentsAre
  <2>3. Contents' \in Seq(Blocks) /\ Len(Contents') = Count - 1
    BY <1>1, <1>2 DEF ContentsAre
  <2> QED
    BY <2>1, <2>2, <2>3, SeqEqual
<1>5. [d \in Consumers |-> Taken(d)]' = [[d \in Consumers |-> Taken(d)] EXCEPT ![c] = Head(Contents)]
  BY <1>1, <1>3
<1> QED
  BY <1>1, <1>3, <1>4, <1>5 DEF Fifo!Next, Fifo!Take

\* The caller of a removal gives its block up.
LEMMA ReleaseGivesUp ==
  ASSUME TypeOK, Orderly, NEW c \in Consumers, Release(c)
  PROVE  Fifo!Next
<1>1. /\ Taken(c) # NULL /\ Taken(c)' = NULL
      /\ \A d \in Consumers \ {c} : Taken(d)' = Taken(d)
  BY ReleaseOrderly
<1>2. Contents' = Contents
  BY DEF Release, Contents, Count
<1>3. \A d \in Consumers : Taken(d)' = IF d = c THEN NULL ELSE Taken(d)
  BY <1>1
<1>4. [d \in Consumers |-> Taken(d)]' = [[d \in Consumers |-> Taken(d)] EXCEPT ![c] = NULL]
  BY <1>3
<1> QED
  BY <1>1, <1>2, <1>4 DEF Fifo!Next, Fifo!GiveUp

\* The other steps change neither the queue nor what was taken.
LEMMA OthersStutter ==
  ASSUME TypeOK, TypeOK', Orderly, ~overlapped',
         \/ \E p \in Producers : (\E b \in Blocks : InsertTest(p, b)) \/ InsertPut(p)
         \/ \E c \in Consumers : GetTest(c) \/ GetRead(c)
         \/ UNCHANGED vars
  PROVE  UNCHANGED Fifo!vars
<1> SUFFICES Contents' = Contents /\ \A c \in Consumers : Taken(c)' = Taken(c)
  BY DEF Fifo!vars
<1>1. ASSUME NEW p \in Producers, NEW b \in Blocks, InsertTest(p, b)
      PROVE  Contents' = Contents /\ \A c \in Consumers : Taken(c)' = Taken(c)
  <2>1. \A c \in Consumers : pc'[c] = pc[c] /\ reg'[c] = reg[c] /\ hand'[c] = hand[c]
    BY <1>1, Ends DEF InsertTest, TypeOK
  <2> QED
    BY <1>1, <2>1 DEF InsertTest, Contents, Count, Taken
<1>2. ASSUME NEW p \in Producers, InsertPut(p)
      PROVE  Contents' = Contents /\ \A c \in Consumers : Taken(c)' = Taken(c)
  <2>1. /\ Orderly' /\ Count' = Count
        /\ \A k \in Places : At(k)' = At(k)
        /\ \A c \in Consumers : Taken(c)' = Taken(c)
    BY <1>2, InsertPutOrderly
  <2>2. ContentsAre /\ ContentsAre'
    BY <2>1, ContentsFacts, ContentsNext
  <2>3. \A k \in 1 .. Count : Contents'[k] = Contents[k]
    BY <2>1, <2>2 DEF ContentsAre
  <2> QED
    BY <2>1, <2>2, <2>3, SeqEqual DEF ContentsAre
<1>3. ASSUME NEW c \in Consumers, GetTest(c) \/ GetRead(c)
      PROVE  Contents' = Contents /\ \A d \in Consumers : Taken(d)' = Taken(d)
  <2>1. Contents' = Contents
    BY <1>3 DEF GetTest, GetRead, Contents, Count
  <2> QED
    BY <1>3, <2>1, GetTestOrderly, GetReadOrderly
<1>4. CASE UNCHANGED vars
  BY <1>4 DEF vars, Contents, Count, Taken
<1> QED
  BY <1>1, <1>2, <1>3, <1>4

\* As long as no two calls overlapped at one end, and whatever the build keeps
\* in registers, the ring is a first-in first-out queue: every block that was
\* put in comes out once, in order, to the consumer that took it.
THEOREM RingIsFifo == Spec => IsFifo
<1>1. Init => Fifo!Init
  <2> SUFFICES ASSUME Init PROVE Fifo!Init
    OBVIOUS
  <2>1. head - tail = 0 /\ 0 \in 0 .. INDEX_MOD - 1
    BY Sizes DEF Init
  <2>2. Count = 0
    BY <2>1, Sizes, ModSmall DEF Count
  <2>3. Contents = <<>>
    BY <2>2 DEF Contents
  <2>4. \A c \in Consumers : Taken(c) = NULL
    BY Ends DEF Init, Taken
  <2> QED
    BY <2>3, <2>4 DEF Fifo!Init
<1>2. IInv /\ [Next]_vars => [~overlapped' => Fifo!Next \/ UNCHANGED Fifo!vars]_vars
  <2> SUFFICES ASSUME IInv, [Next]_vars, ~overlapped'
               PROVE  Fifo!Next \/ UNCHANGED Fifo!vars
    OBVIOUS
  <2>1. TypeOK /\ TypeOK' /\ Orderly
    BY NextTypes, OverlapStays DEF IInv
  <2> QED
    BY <2>1, IncPuts, StoreTakes, ReleaseGivesUp, OthersStutter DEF Next
<1> QED
  BY <1>1, <1>2, Invariance, PTL DEF Spec, IsFifo

-----------------------------------------------------------------------------
(***************************************************************************)
(* The pool.                                                               *)
(***************************************************************************)
VARIABLES at, loop

Pool == INSTANCE MemBlock WITH pc <- at, i <- loop

\* The pool starts well typed.
LEMMA PoolTypeInit ==
  ASSUME Pool!PoolAssumption
  PROVE  Pool!Init => Pool!TypeOK
<1> USE DEF Pool!PoolAssumption, Pool!TypeOK, Pool!Blocks, Pool!Places, Pool!PoolBlocks, Pool!Keepers, PoolBlocks, Keepers
<1>1. Pool!Init => 0 \in 0 .. MEMBLOCK_NUMBER
  OBVIOUS
<1> QED
  BY <1>1, Zenon DEF Pool!Init

\* Every step keeps the types, and a loop index that passed the test inside MemBlock[].
LEMMA PoolTypeStep ==
  ASSUME Pool!PoolAssumption
  PROVE  Pool!TypeOK /\ [Pool!Next]_Pool!vars => Pool!TypeOK'
<1> USE DEF Pool!PoolAssumption, Pool!TypeOK, Pool!Blocks, Pool!Places, Pool!PoolBlocks, Pool!Keepers, PoolBlocks, Keepers
<1> SUFFICES ASSUME Pool!TypeOK, [Pool!Next]_Pool!vars PROVE Pool!TypeOK'
  OBVIOUS
<1>1. ASSUME NEW t \in Tasks, Pool!GetCall(t) PROVE Pool!TypeOK'
  BY <1>1 DEF Pool!GetCall
<1>2. ASSUME NEW t \in Tasks, Pool!GetTest(t) PROVE Pool!TypeOK'
  <2>1. CASE loop[t] = MEMBLOCK_NUMBER /\ at' = [at EXCEPT ![t] = "idle"] /\ loop' = loop
    BY <1>2, <2>1 DEF Pool!GetTest
  <2>2. CASE loop[t] \in Pool!Blocks /\ at' = [at EXCEPT ![t] = "mark"] /\ loop' = loop
    BY <1>2, <2>2 DEF Pool!GetTest
  <2>3. CASE loop[t] \in Pool!Blocks /\ loop' = [loop EXCEPT ![t] = @ + 1] /\ at' = at
    <3>1. loop' \in [Tasks -> 0 .. MEMBLOCK_NUMBER]
      BY <2>3
    <3>2. at[t] = "test"
      BY <1>2 DEF Pool!GetTest
    <3> QED
      BY <1>2, <2>3, <3>1, <3>2 DEF Pool!GetTest
  <2> QED
    BY <1>2, <2>1, <2>2, <2>3 DEF Pool!GetTest
<1>3. ASSUME NEW t \in Tasks, Pool!GetMark(t) PROVE Pool!TypeOK'
  <2>1. raced' \in BOOLEAN
    BY <1>3, Zenon DEF Pool!GetMark
  <2> QED
    BY <1>3, <2>1 DEF Pool!GetMark
<1>4. ASSUME NEW t \in Tasks, Pool!FreeCall(t) PROVE Pool!TypeOK'
  BY <1>4 DEF Pool!FreeCall
<1>5. ASSUME NEW t \in Tasks, Pool!FreeTest(t) PROVE Pool!TypeOK'
  BY <1>5 DEF Pool!FreeTest
<1>6. ASSUME NEW t \in Tasks, Pool!FreeClear(t) PROVE Pool!TypeOK'
  BY <1>6 DEF Pool!FreeClear
<1>7. ASSUME NEW c \in Cells, Pool!IsrGet(c) PROVE Pool!TypeOK'
  <2>1. raced' \in BOOLEAN
    BY <1>7, Zenon DEF Pool!IsrGet
  <2> QED
    BY <1>7, <2>1 DEF Pool!IsrGet
<1>8. ASSUME NEW c \in Cells, Pool!IsrFree(c) PROVE Pool!TypeOK'
  BY <1>8 DEF Pool!IsrFree
<1>9. ASSUME NEW p \in Pool!Places, NEW q \in Pool!Places, Pool!HandOver(p, q) PROVE Pool!TypeOK'
  BY <1>9 DEF Pool!HandOver, Pool!Idle
<1>10. CASE UNCHANGED Pool!vars
  BY <1>10 DEF Pool!vars
<1> QED
  BY <1>1, <1>2, <1>3, <1>4, <1>5, <1>6, <1>7, <1>8, <1>9, <1>10 DEF Pool!Next

\* The pool keeps its types: in particular a task that is about to mark has
\* an index inside MemBlock[], and one that frees has a block in hand.
THEOREM PoolTypeCorrect ==
  ASSUME Pool!PoolAssumption
  PROVE  Pool!Spec => []Pool!TypeOK
<1>1. Pool!Init => Pool!TypeOK
  BY PoolTypeInit
<1>2. Pool!TypeOK /\ [Pool!Next]_Pool!vars => Pool!TypeOK'
  BY PoolTypeStep
<1> QED
  BY <1>1, <1>2, PTL DEF Pool!Spec

-----------------------------------------------------------------------------
\* No interleaving of MB_Get and MB_Free loses a block, raced or not.
THEOREM NothingLeaks ==
  ASSUME Pool!PoolAssumption
  PROVE  Pool!Spec => []NoLeak
<1> USE DEF Pool!PoolAssumption, Pool!Blocks, Pool!Places, Pool!PoolBlocks, Pool!Keepers, PoolBlocks, Keepers, NoLeak
<1>1. Pool!Init => NoLeak
  BY DEF Pool!Init
<1>2. Pool!TypeOK /\ NoLeak /\ [Pool!Next]_Pool!vars => NoLeak'
  <2> SUFFICES ASSUME Pool!TypeOK, NoLeak, [Pool!Next]_Pool!vars, NEW b \in Pool!Blocks,
                      State'[b] = "mbBusy"
               PROVE  \E p \in Pool!Places : holds'[p] = b
    OBVIOUS
  <2> USE DEF Pool!TypeOK
  <2>1. ASSUME NEW t \in Tasks, Pool!GetMark(t) PROVE \E p \in Pool!Places : holds'[p] = b
    <3>1. CASE b = loop[t]
      BY <2>1, <3>1 DEF Pool!GetMark
    <3>2. CASE b # loop[t]
      <4>1. State[b] = "mbBusy"
        BY <2>1, <3>2 DEF Pool!GetMark
      <4>2. PICK p \in Pool!Places : holds[p] = b
        BY <4>1
      <4>3. p # t
        BY <2>1, <4>2 DEF Pool!GetMark
      <4> QED
        BY <2>1, <4>2, <4>3 DEF Pool!GetMark
    <3> QED
      BY <3>1, <3>2
  <2>2. ASSUME NEW t \in Tasks, Pool!FreeTest(t) PROVE \E p \in Pool!Places : holds'[p] = b
    BY <2>2 DEF Pool!FreeTest
  <2>3. ASSUME NEW t \in Tasks, Pool!FreeClear(t) PROVE \E p \in Pool!Places : holds'[p] = b
    BY <2>3 DEF Pool!FreeClear
  <2>4. ASSUME NEW c \in Cells, Pool!IsrGet(c) PROVE \E p \in Pool!Places : holds'[p] = b
    BY <2>4 DEF Pool!IsrGet
  <2>5. ASSUME NEW c \in Cells, Pool!IsrFree(c) PROVE \E p \in Pool!Places : holds'[p] = b
    BY <2>5 DEF Pool!IsrFree
  <2>6. ASSUME NEW p \in Pool!Places, NEW q \in Pool!Places, Pool!HandOver(p, q)
        PROVE  \E r \in Pool!Places : holds'[r] = b
    BY <2>6 DEF Pool!HandOver
  <2>7. CASE UNCHANGED <<State, holds>>
    BY <2>7
  <2> QED
    BY <2>1, <2>2, <2>3, <2>4, <2>5, <2>6, <2>7
    DEF Pool!Next, Pool!vars, Pool!GetCall, Pool!GetTest, Pool!FreeCall
<1>3. Pool!Spec => []Pool!TypeOK
  BY PoolTypeCorrect
<1> QED
  BY <1>1, <1>2, <1>3, PTL DEF Pool!Spec

-----------------------------------------------------------------------------
\* Until a caller is overtaken, a block that passed MB_Get's test is still
\* free when it is marked.
StillFree == ~raced => \A t \in Tasks : at[t] = "mark" => State[loop[t]] = "mbFree"

\* Ownership is exclusive because what is held is busy, what is about to be
\* marked is free, and only a marked block is handed out: none of the three
\* is inductive without the others.
OwnershipInv == Pool!TypeOK /\ SingleOwner /\ HeldIsBusy /\ StillFree

\* The three together are preserved by every step.
LEMMA OwnershipStep ==
  ASSUME Pool!PoolAssumption
  PROVE  OwnershipInv /\ [Pool!Next]_Pool!vars => OwnershipInv'
<1> SUFFICES ASSUME OwnershipInv, [Pool!Next]_Pool!vars
             PROVE  OwnershipInv'
  OBVIOUS
<1>0. Pool!TypeOK'
  BY PoolTypeStep DEF OwnershipInv
<1> SUFFICES ASSUME ~raced'
             PROVE  (SingleOwner /\ HeldIsBusy /\ StillFree)'
  BY <1>0 DEF OwnershipInv, SingleOwner, HeldIsBusy, StillFree
<1>a. Pool!TypeOK
  BY DEF OwnershipInv
<1> USE <1>a, <1>0
        DEF Pool!PoolAssumption, Pool!TypeOK, Pool!Blocks, Pool!Places, Pool!PoolBlocks, Pool!Keepers,
            PoolBlocks, Keepers, OwnershipInv, SingleOwner, HeldIsBusy, StillFree
<1>1. ASSUME NEW t \in Tasks, Pool!GetCall(t)
      PROVE  (SingleOwner /\ HeldIsBusy /\ StillFree)'
  BY <1>1 DEF Pool!GetCall
<1>2. ASSUME NEW t \in Tasks, Pool!GetTest(t)
      PROVE  (SingleOwner /\ HeldIsBusy /\ StillFree)'
  BY <1>2 DEF Pool!GetTest
<1>3. ASSUME NEW t \in Tasks, Pool!GetMark(t)
      PROVE  (SingleOwner /\ HeldIsBusy /\ StillFree)'
  <2>1. ~raced /\ ~Pool!InWindow(loop[t], t)
    BY <1>3, Zenon DEF Pool!GetMark
  <2>2. State[loop[t]] = "mbFree" /\ loop[t] \in Pool!Blocks
    BY <1>3, <2>1 DEF Pool!GetMark
  <2>3. \A p \in Pool!Places : holds[p] # loop[t]
    BY <2>1, <2>2
  <2>4. SingleOwner'
    BY <1>3, <2>1, <2>2, <2>3 DEF Pool!GetMark
  <2>5. HeldIsBusy'
    BY <1>3, <2>1, <2>2 DEF Pool!GetMark
  <2>6. StillFree'
    <3> SUFFICES ASSUME NEW u \in Tasks, at'[u] = "mark"
                 PROVE  State'[loop'[u]] = "mbFree"
      OBVIOUS
    <3>1. u # t /\ at[u] = "mark" /\ loop'[u] = loop[u]
      BY <1>3 DEF Pool!GetMark
    <3>2. loop[u] # loop[t]
      BY <2>1, <3>1 DEF Pool!InWindow
    <3> QED
      BY <1>3, <2>1, <3>1, <3>2 DEF Pool!GetMark
  <2> QED
    BY <2>4, <2>5, <2>6
<1>4. ASSUME NEW t \in Tasks, Pool!FreeCall(t)
      PROVE  (SingleOwner /\ HeldIsBusy /\ StillFree)'
  BY <1>4 DEF Pool!FreeCall
<1>5. ASSUME NEW t \in Tasks, Pool!FreeTest(t)
      PROVE  (SingleOwner /\ HeldIsBusy /\ StillFree)'
  BY <1>5 DEF Pool!FreeTest
<1>6. ASSUME NEW t \in Tasks, Pool!FreeClear(t)
      PROVE  (SingleOwner /\ HeldIsBusy /\ StillFree)'
  BY <1>6 DEF Pool!FreeClear
<1>7. ASSUME NEW c \in Cells, Pool!IsrGet(c)
      PROVE  (SingleOwner /\ HeldIsBusy /\ StillFree)'
  <2>1. PICK b \in Pool!Blocks :
          /\ State[b] = "mbFree"
          /\ State' = [State EXCEPT ![b] = "mbBusy"]
          /\ holds' = [holds EXCEPT ![c] = b]
          /\ ~raced /\ ~ \E u \in Tasks : at[u] = "mark" /\ loop[u] = b
    BY <1>7, Zenon DEF Pool!IsrGet, Pool!FirstFree
  <2>2. at' = at /\ loop' = loop
    BY <1>7 DEF Pool!IsrGet
  <2>3. \A p \in Pool!Places : holds[p] # b
    BY <2>1
  <2>4. SingleOwner'
    BY <2>1, <2>3
  <2>5. HeldIsBusy'
    BY <2>1
  <2>6. StillFree'
    BY <2>1, <2>2
  <2> QED
    BY <2>4, <2>5, <2>6
<1>8. ASSUME NEW c \in Cells, Pool!IsrFree(c)
      PROVE  (SingleOwner /\ HeldIsBusy /\ StillFree)'
  BY <1>8 DEF Pool!IsrFree
<1>9. ASSUME NEW p \in Pool!Places, NEW q \in Pool!Places, Pool!HandOver(p, q)
      PROVE  (SingleOwner /\ HeldIsBusy /\ StillFree)'
  BY <1>9, SMTT(30) DEF Pool!HandOver, Pool!Idle
<1>10. CASE UNCHANGED Pool!vars
  BY <1>10 DEF Pool!vars
<1> QED
  BY <1>1, <1>2, <1>3, <1>4, <1>5, <1>6, <1>7, <1>8, <1>9, <1>10 DEF Pool!Next

\* Two places share a block only after a caller was overtaken between
\* MB_Get's test (memblock.c, line 35) and its mark (line 37).
THEOREM ExclusiveOwnership ==
  ASSUME Pool!PoolAssumption
  PROVE  Pool!Spec => []SingleOwner
<1>1. Pool!Init => OwnershipInv
  <2>1. Pool!Init => Pool!TypeOK
    BY PoolTypeInit
  <2> QED
    BY <2>1
    DEF Pool!PoolAssumption, Pool!Init, OwnershipInv, SingleOwner, HeldIsBusy, StillFree,
        Pool!Places, Pool!Keepers, Keepers, PoolBlocks
<1>2. OwnershipInv => SingleOwner
  BY DEF OwnershipInv
<1>3. OwnershipInv /\ [Pool!Next]_Pool!vars => OwnershipInv'
  BY OwnershipStep
<1> QED
  BY <1>1, <1>2, <1>3, PTL DEF Pool!Spec

\* Under the same proviso MB_Free accepts whatever is handed to it.
THEOREM FreeAccepts ==
  ASSUME Pool!PoolAssumption
  PROVE  Pool!Spec => []HeldIsBusy
<1>1. Pool!Init => OwnershipInv
  <2>1. Pool!Init => Pool!TypeOK
    BY PoolTypeInit
  <2> QED
    BY <2>1
    DEF Pool!PoolAssumption, Pool!Init, OwnershipInv, SingleOwner, HeldIsBusy, StillFree,
        Pool!Places, Pool!Keepers, Keepers, PoolBlocks
<1>2. OwnershipInv => HeldIsBusy
  BY DEF OwnershipInv
<1>3. OwnershipInv /\ [Pool!Next]_Pool!vars => OwnershipInv'
  BY OwnershipStep
<1> QED
  BY <1>1, <1>2, <1>3, PTL DEF Pool!Spec

=============================================================================
