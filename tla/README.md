# A verification project for cyclone_demo

`cyclone_demo` is a set of demonstration programs for CycloneSSL and CycloneCrypto. Its own logic is
the *TLS server over a serial line* (`src/st/stm32f407/tls_server_demo-uart-freertos/src`): a byte-stuffed
framing on a UART, a pool of memory blocks, queues of blocks between an interrupt handler and tasks, a small
socket layer that multiplexes connections over the line, and the tasks that serve them. Paths below are
relative to that directory unless they start with `src/`.

## Inventory

| part | state | operations | used by |
|---|---|---|---|
| memory pool, `memblock.c` | `State` of each of 5 blocks (`MEMBLOCK_NUMBER`) | `MB_Init`, `MB_Get`, `MB_Free` | every task and the interrupt handler, without a lock |
| queue, `queue.c` | 8 slots, `Head`, `Tail` (bytes) | `queue_init`, `queue_insert`, `queue_get` (`queue_delete`, `queue_peek`, `queue_size` have no caller) | `SlipRxQueue` (handler to receive task), `SlipTxQueue` (tasks to transmit task), one per socket (receive task to client task) |
| transmitter, `slip_uart.c` | `SlipTxPSW`, `SlipTxTSB`, `SlipTxBlock`, `SlipTxPos`, `SlipTxLength`, `slipTxEvent`, DR, TXEIE | `SU_Send`, `SU_TransmitTask`, TXE part of the handler | client tasks, server task, receive task (refusals) |
| receiver, `slip_uart.c` | `SlipRxPSW`, `SlipRxEnable`, `SlipRxBlock`, `SlipRxPos`, `SlipRxCount`, `slipRxEvent` | RXNE part of the handler, queue loop of `SU_ReceiveTask` | the line |
| sockets, `slip_uart_sock.c` | table of 2 sockets (`used`, `id`, `block`, `pos`, `queue`, `event`), accept queue | `slip_sock_connect/alloc/new/get/free`, `push_recv_data_in_queue`, `wait_connect`, `recv`, `send`, `close`, `set_timeout` | receive task on one side, server and client tasks on the other |
| server and client tasks, `main.c` | `connectionSemaphore` (4 permits), the tasks | accept loop; TLS handshake, HTTP request and response, close | |
| CRC, `slip_uart.c` | none | `calcCrc` | both directions |
| Ethernet variants, `src/st/stm32f407/tls_server_demo-{freertos,rtx}/src/main.c` | the same semaphore and tasks | the same over CycloneTCP sockets | |
| resource compiler, `src/utils/ResourceCompiler/main.c` | a growing image of a directory tree | `addFile`, `addDirectory`, `dumpDirectory` | host tool |
| start-up, `main()` of `main.c`, `SU_Init`, `SU_HwInit` | what has been created, switched on and masked so far | one call after the other; receive and tick interrupts meanwhile | everything |
| interrupt vectors, `stm32f4xx_it.c` | none | `SysTick_Handler`, `HardFault_Handler` | |
| cipher, hash and signature demos; debug console; LED | | straight-line programs | |

How the parts interact. The handler unstuffs bytes into a block and queues it; the receive task checks the CRC
and dispatches the frame: *Connect* opens a socket and offers its handle on the accept queue, *Data* moves the
block to the socket's queue, *Disconnect* frees the socket, anything for an unknown id is sent back as a
*Disconnect*. The server task takes a permit, accepts a handle and starts a client task, which reads and writes
through TLS and closes the socket. Everything that is sent goes through `SlipTxQueue` to the transmit task and
from there to the handler, which frees the block.

What makes it hard: nothing is locked. Blocks travel by pointer from one owner to the next, the pool and the
queues are shared by preemptible tasks and an interrupt handler, the task and the handler share the
transmitter's variables, events are binary and merge wake-ups, a socket is freed by two different tasks, and the
pool and the tables are small enough to run empty. `PROJECT.json` lists each hazard at its line.

What each part must guarantee: a block has one user and is never lost (pool, transmitter, receiver, sockets); a
queue is first-in first-out and never refuses; the line carries exactly the encoding of what was sent, and a
task gets exactly what the line said; no damaged frame is dispatched, and a reader gets the bytes of its connection
in order; nobody sleeps for ever while there is work for him; a connection has one task, a task keeps its connection,
permits balance, and both ends agree on which connections exist; nothing is used before it was created.

## Modules

| module | models | state and actions |
|---|---|---|
| `Ownership` | what the pool promises its callers | `State`, and `holds`: which place has the pointer to which block; the properties `NoLeak`, `SingleOwner` and `HeldIsBusy` |
| `MemBlock` | `memblock.c` | the steps on the state of `Ownership`. A task's `MB_Get` is `GetCall`, `GetTest` (loop and test), `GetMark`; its `MB_Free` is `FreeCall`, `FreeTest`, `FreeClear`. The handler's calls are one step (`IsrGet`, `IsrFree`): it runs to its end before a task resumes. `HandOver` is a caller passing the pointer on. |
| `Queue` | `queue.c` | `head`, `tail`, `Data`. An insertion is test, store of the slot, store of the index; a removal is test, read of the slot and store of the index in either order. The fields are not volatile, so every further use of an index may load it again or keep a register. |
| `PoolAndQueueProofs` | | theorems about `MemBlock` and `Queue` |
| `BlockFifo` | what a queue promises | `Put`, `Take`, `GiveUp`; `Queue` implements it |
| `SlipCode` | the byte stuffing as the comments of `slip_uart.c` define it | reference functions `Encode` and `Meaning`, computed differently from both ends |
| `SlipTx` | `SU_Send`, `SU_TransmitTask`, TXE part of the handler, USART | one action per access of the task to what the handler shares; one action per branch of the handler |
| `SlipTxProofs` | | theorems about `SlipTx` |
| `SlipRx` | RXNE part of the handler, queue loop of the receive task | `IsrEnd` and `IsrByte` are the handler's two branches; other users of the pool take and free blocks at any time |
| `SlipRxProofs` | | theorems about `SlipRx` |
| `SlipSock` | `slip_uart_sock.c`, the dispatch of `SU_ReceiveTask`, the block of the receive interrupt, the tasks of `main.c` | one action per access another task could notice; `at[t]` is the handle task t works on; `slip_sock_free` runs in the receive, server and client tasks. A frame of the peer (`PeerSends`) is heard, damaged, or dropped because the interrupt has no block (`rxblk`); `want[t]` is what the read of client t still lacks, and `RecvNull` goes round the loop of `slip_sock_recv` while it is not 0 |
| `SlipSockProofs` | | theorems about `SlipSock` |
| `Crc16` | `calcCrc` | a word is the set of its one bits, so the shift and the exclusive or are set operations; two bytes and the polynomial as in the code |
| `SlipData` | the bytes of frames: `slip_sock_send`, `slip_sock_close`, `SU_Disconnect`, the check and dispatch of `SU_ReceiveTask`, `slip_sock_recv` | real headers, payloads and checksums; a line that damages two neighbouring bytes or loses a delimiter; reads and writes of several sizes. Who runs when is left to `SlipSock` |
| `SlipDataProofs` | | theorems about `Crc16` and `SlipData` |
| `ByteStream` | what a socket promises its reader | `Send`, `Receive`, `Reopen`; `SlipData` implements it |
| `Startup` | `main()`, `SU_Init`, `SU_HwInit`, `slip_sock_init`, `SysTick_Handler`, `HardFault_Handler` | one action per call of `main()`; every creation may fail; kernel calls before the scheduler runs mask the interrupts; the tasks then run on what was or was not made, each call of theirs one step |
| `StartupProofs` | | theorems about `Startup` |
| `TlsServer` | `tlsServerTask`, `tlsClientTask` of the Ethernet demos | one action per library call that changes what the tasks share (permits, sockets, contexts, hit counter); the other calls of the exception block are `Proceed`, and every one of them may `Fail` |
| `TlsServerProofs` | | theorems about `TlsServer` |
| `ResourceCompiler` | `addDirectory`, `addFile`, `dumpDirectory`, `main` of the resource compiler | the C stack is `frames`; one action per entry written and per entry parsed; offsets, lengths and limits are the program's own |
| `ResourceCompilerProofs` | | theorems about `ResourceCompiler` |

`SlipTx`, `SlipRx` and `SlipSock` take pool and queues as `MemBlock` and `Queue` show them to be while no two
calls overlap in their windows: `MB_Get` returns a free block and marks it, a queue is a FIFO that refuses
nothing. What happens inside those windows is the subject of `MemBlock` and `Queue` themselves (`raced`,
`overlapped`); the scheduler of the program can put two calls there, see the hazards.

The modules beginning with `MC` only give TLC its constants. `SlipTx` and `SlipRx` state their properties of the line
against `SlipCode`.

## Runs

| run | instance | shows |
|---|---|---|
| `pool` | 3 blocks, 3 tasks, 2 other places | `NoLeak` in every interleaving; `SingleOwner` as long as no `MB_Get` was overtaken between its test and its mark (`raced`) |
| `ring` | 2 producers, 2 consumers, 2 slots, indices mod 4, 2 blocks | while no two calls overlap at one end (`overlapped`) the ring implements `BlockFifo` (`IsFifo`) and never refuses a block (`AlwaysRoom`) |
| `transmit` | 2 senders, 2 blocks, 3 frames with every kind of byte, 4 sends | task and handler take turns (`OneOwner`, `NoByteReplaced`), a block in flight has one owner (`OneOwnerPerBlock`), the line carries exactly the encoding of the frames (`LineIsEncoding`), every block queued is sent and freed (`EverySentBlockIsFreed`) |
| `receive` | 2 blocks of 2 bytes, minimum 2, escape bytes, up to 4 bytes between delimiters | one owner per block, the count is the position, no queued frame is forgotten when wake-ups merge (`FrameIsAnnounced`), what is queued is the meaning of what was heard, a frame that fits is queued if a block was free (`FittingFrameIsQueued`) |
| `frames` | 4 frames, 1 socket, blocks of 12 bytes, one damage of two neighbouring bytes or lost delimiters, reads of 1 and 3 bytes, 2 frames sent | what passes the check was sent as it came (`AcceptedWereSent`), what is sent is what TLS wrote (`SentIsWhatWasWritten`), and `slip_sock_recv` implements `ByteStream` |
| `sock_peers` | 2 blocks, 1 socket, 2 peers that send data, unknown commands and *Disconnect* at any time, 2 client tasks that give up at any time, 2 permits | types and permits; one task per socket, a task keeps its connection, one user per block, no lost wake-up, both ends agree on which connections exist (`PeerKnows`), and the blocks the pool loses are exactly those pushed behind a close (`OnlyLatePushesLeak`); as far as `NoStaleHandle` lets it search |
| `sock_answered` | 2 blocks, 1 socket, 2 peers whose data gets through again and again, reads of 1 or 2 bytes, 1 client task, 1 permit | `slip_sock_recv` returns although a read may need several blocks, and an offered connection is accepted, unless the whole pool is lost (`late = Blocks`) |
| `sock_silent`, `sock_own` | 1 peer that falls silent; 2 peers that hang up | the two findings below that a run shows violated |
| `startup` | 2 blocks, 1 socket, 2 permits, every creation may fail, interrupts at any moment | a crash means that something `main()` tried to make is missing (`CrashNeedsFailure`); no block, socket or permit is misplaced by the order of the start; frames are taken if the receive task can run (`FramesAreTaken`) |
| `tls_server` | 3 connections, 2 permits, every call may fail | permits, sockets and contexts balance on every error exit, hits are lost but never made up; who connects is accepted unless failing accepts used up the permits |
| `resources` | 7 trees, every limit from 14 to 140 bytes, every order of `readdir` | the image is the tree, nothing overlaps or leaves the buffer, only what is too large is refused |

Why these bounds are enough. The pool, the queues and the tables matter when they are empty, full or wrapped:
two or three elements reach all three (the real 5 blocks, 8 slots and 2 sockets only add length; the ring keeps
its size a divisor of the index modulus, as 8 is of 256). Two tasks at one end are the fewest that overlap; three
tasks let a third take what the first two fight for. In `receive` frames are short, but hold every kind of byte in
every position relative to an escape; lengths are below, at and above the block size. In `frames` the fields of the
header are one byte each (three instead of seven bytes, so the least frame has 5 bytes and not 9), and a block of 12
leaves room for 7 bytes of payload: a write of 1 byte fits in one block, a write of 9 needs two. Payloads have 0 to 2 bytes
and reads take 1 or 3, so that a read ends inside, at the end of and behind a block; two connections compete for one
socket. `MaxFrames` (4) allows a connection that opens, carries two messages and closes; `MaxDamaged` (1) and `MaxOut` (2)
bound what is damaged and sent. `sock_peers` has two permits, two tasks and one socket: one task may still be closing when
the next connection gets the slot, a stale handle fills the accept queue so that the next offer is refused, and two ids
compete for the slot. Its `CONSTRAINT` `NoStaleHandle` stops the search where a task works with the handle of a socket that the
receive task has freed, is freeing or is giving away: there `ClientKeepsItsSocket` is about to fail (`sock_own` goes on and finds
it), and what the code does from then on is a consequence. Two sockets would multiply the states beyond what a run can
search; the theorems about `SlipSock` are for a table of any size. `sock_answered` keeps as many permits as sockets, as the
code does (4 and 2): with more sockets than permits it fails, because the data of a connection that waits to be accepted
can fill the pool while the one that is served waits for a block, and neither gets on. The limits of `resources` step through every byte, so each check is met at its
boundary and at every residue of the alignment. `CHECK_DEADLOCK FALSE` is given where the system may stop: a peer
that sends no more, a bound on sends, a start that crashed, a tool that has ended. What the proofs below establish does
not depend on any bound.

### Fairness

The scheduler runs every ready task (all have the same priority and FreeRTOS shares time among them), a pending
interrupt is served, the USART shifts. Nothing obliges anyone to call `SU_Send`, to connect, or the line to
speak. `AnsweredSpec` adds strong fairness of four things the code cannot promise. A receiver without a block hears
delimiters (it asks for a block at each); data of an open connection gets through again and again (`GetsThrough`): a
frame may be damaged or find no block now and then, but not always; payloads are finite and not all empty (`Takes`); and an
exchange ends (`ClientClose`: TLS and HTTP do not read and write for ever). Without the data `slip_sock_recv` has no
reason to return (`sock_silent`).
In `startup`, `main()` goes on and the receive task is scheduled once the kernel runs; nothing is assumed of
interrupts. In `tls_server` a client's calls come back because `socketSetTimeout` limits them, and a request is
assumed to end: the loop that reads it has no limit of its own.

### Findings

* `sock_silent`: the client task sets a timeout, `slip_sock_recv` has an `ERROR_TIMEOUT` path, and waits with
  `INFINITE_DELAY` (`slip_uart_sock.c:128`). A silent peer keeps a task, a socket and a permit for ever.
* `sock_own`: a *Disconnect* frees the slot under the client task, the next *Connect* reuses it, and the first task
  reads, answers and closes the new connection.
* The leak that `OnlyLatePushesLeak` states: `SU_ReceiveTask` looks a socket up (`slip_uart.c:308`) and pushes the block
  later (`slip_uart_sock.c:154`), without looking at `used` again. When the client task's `slip_sock_free` has emptied the queue
  in between (`slip_uart_sock.c:62`), nobody frees the block: the next `slip_sock_new` forgets it with `queue_init`
  (`slip_uart_sock.c:47`), and the pool of 5 is one block smaller for ever. `late` is the set of these blocks. The property is
  exact: no other busy block is forgotten, and no block of `late` is ever free again.

### What the conditions of the properties stand for

`raced`, `overlapped`, `untold`, `late` and the choice of peers are limits of what the code guarantees, found by
running without them:

* Two overlapping `MB_Get` calls of preemptible tasks, or a task's and the handler's, may return one block to both.
* Two overlapping `queue_insert` calls may lose a block or a slot: `SlipTxQueue` has several producers.
* When peers may hang up (`"Disconnect" \in Sends`), a stale handle can stay in the accept queue, one connection gets two
  tasks, and `slip_sock_free` runs under the task that holds the socket: `ClientKeepsItsSocket` fails (`sock_own`), and in
  consequence `OneTaskPerSocket`, `BlocksHaveOneUser`, `NoLostWakeup` and `OnlyLatePushesLeak`. `sock_peers` therefore shows
  these until somebody works with a stale handle, and the theorems state them for peers that do not hang up. Types and
  permits are proved without a condition.
* `late` records the blocks that are pushed in a queue behind the loop that empties it, the leak above. With all blocks lost
  nothing is received and nothing accepted, so `RecvReturns` and `OfferedIsAccepted` promise nothing then; as long as one is
  left they hold.
* A *Connect* that is damaged, or arrives while the interrupt has no block, is dropped without an answer, and a connection
  closed while the pool is empty gets no *Disconnect* (`slip_uart_sock.c:206`): `untold` records the id. It leaves `untold`
  with the first frame that gets through, since that frame is then served or refused.
* With the accept queue or the semaphore missing (`startup`) the permits do not balance and the tasks crash at their
  first use: `PermitsAreKept` says what holds when both were made.
* A frame without its last bytes passes the check if the CRC of what is left happens to be zero, once in 65536; such
  frames are not sent in `frames`.
* A tree that exactly fits `maxSize` is refused if the last thing written is a table, not if it is a file.

## Proofs

TLAPS checks every theorem for all values of the constants under the named assumptions `PoolAssumption`,
`QueueAssumption`, `TxAssumption`, `RxAssumption`, `SockAssumption`, `DataAssumption`, `SizeAssumption` (one of `SlipData`, one of
`ResourceCompiler`), `StartupAssumption` and `ServerAssumption`: sizes are naturals, the null values are not members, the pool
and the table of sockets are finite, the names of tasks differ, a block has room for header, checksum and a byte, a damaged byte
differs from what was sent, the ring's size divides the range of its index, as 8 divides 256, and is at least the number of
blocks, a directory tree is finite and ends at its root, and its buffer has room for the header. Nothing is assumed of the
runs. (The pool has no module of its own for its theorems: `PoolAndQueueProofs` extends the ring and takes the pool's steps by
`INSTANCE`, so `PoolAssumption` stands in those theorems as a hypothesis; `pool` evaluates it.)

* `PoolAndQueueProofs`, of the pool (`MemBlock`): `PoolTypeCorrect`, `NothingLeaks`, `ExclusiveOwnership`, `FreeAccepts`. First the typing; then that a
  busy block is always in somebody's hands, unconditionally. `SingleOwner` is not inductive: a block handed out
  could already be held if it were not busy, and could be held soon if another task had passed the test. With
  `HeldIsBusy` and `StillFree` (until a caller is overtaken, a block that passed the test is still free when it is
  marked) it is; `raced` is set by exactly the step that breaks `StillFree`.
* `PoolAndQueueProofs`, of the ring (`Queue`): `TypeCorrect`, `RingHasRoom`, `RingIsFifo`. The invariant speaks of the ring while no two calls have overlapped
  at one end. `Orderly` says that the slots from tail to head hold different blocks, that no block is both in the ring and in
  a hand, and that a caller's registers still agree with the index its end owns. Room then needs counting: the slots in use
  and the block in the caller's hand are different blocks, and there are as many slots as blocks. That a slot is reached from
  one index only needs remainders: the provers have no division of their own, so the few facts about `%` are
  lemmas from the definition. With `Orderly` each step of the ring is a `Put`, `Take`, `GiveUp` or stutter of `BlockFifo`:
  an insertion takes effect when its index is stored, not when the slot is.
* `SlipTxProofs`: `ExclusiveTransmitter`, `NoByteLost`, `BlocksHaveOneOwner`, `TypeCorrect`, `LineCarriesTheFrames`. Four layers,
  each inductive relative to the ones before. `Ctl` says what each value of `SlipTxPSW` means for the other side: READY means
  the handler has disabled itself and DR has drained, and from `Load` to `Enable` the interrupt is off and the state
  NOT_READY. `Own` says that every block is in exactly one of five places (pool, sender, queue, task, handler) and
  that each step moves at most one block to the next; counting the owners then gives 1. `Data` adds that position
  and remaining length make up the block, which holds because nobody refills a block that is being sent. With these
  `LineIsEncoding` is inductive (`Busy` adds that an escape pair has its second byte): the line, DR and what is left are one
  sequence, and a step moves the border between two of them; only `Get` makes it longer, by the encoding of one frame.
* `SlipRxProofs`: `TypeCorrect`, `PositionIsCounted`, `BlocksHaveOneOwner`, `FramesAreWhole`, `FramesAreAnnounced`, `TaskGetsWhatWasHeard`,
  `FittingFramesAreQueued`. `Ctl` says that `SlipRxEnable` tells whether the handler has a block and that the task has one
  exactly while it handles it. `Stored` says that the pointer runs along with the count and is rewound with it, so testing the
  count bounds the writes, and that a waiting frame has an admissible length and as many stored bytes. It needs `OneOwner`: a
  block that waits is not written to because the block the handler holds is another one. `Understood` says what the bytes
  mean: inside a packet the escape flag, the count and the block are those of the meaning of what was heard since the
  delimiter; outside one, after the first delimiter, what was heard is already too long whatever follows (`GivenUp`), so giving up loses no
  frame that fits. That a queued frame has a task that will look is inductive on its own: the handler
  inserts and sets the event in one step.
* `SlipSockProofs`: `TypeCorrect` and `NoPermitLost` whatever peers and TLS do; `OneTask`, `NoSocketRecycled`, `NoWakeupLost`,
  `PeerIsTold`, `BlockHasOneUser` and `OnlyLateBlocksLeak` for peers that do not hang up (`"Disconnect" \notin Sends`; with
  those that do they are false, see above), whatever is damaged or dropped.
  `Types` adds to the typing that a task at work has a handle and that the handle's socket has an id, without which a
  sent frame would have none. The permits are counted over `Running`, a set of clients that stays finite although
  `Clients` need not be. `Owned` is the heart of the rest: from `slip_sock_new` to `used = FALSE` a slot is held by one
  task or offered once, and a held or offered slot is in use. Every step is one of six moves (`Keeps`, `Opens`, `Offers`,
  `Accepts`, `Spawns`, `GivesUp`) and each is shown to keep `Owned`; a slot in use is never given away, so no client is
  robbed, and only the holder clears its event, so no wake-up is lost. `PeerKnows` is not inductive because the
  frame the receive task has in hand counts as news even after it has been served; `News` counts it only until then, and
  `Closes` says that the slot a task frees is that of the id it is going to report.
  For the blocks, `In(b, k, s)` names the place k (the interrupt's block, a frame in one of the two queues, the frame in
  hand, the block or the queue of socket s) a block is in. `BlocksHaveOneUser` says that a block is in one place at most, and
  that one in a place is busy; every step empties places, or fills one with a block that has just left another or the pool.
  That the block a socket holds is live needs `Owned` again. `OnlyLatePushesLeak` is the reverse: a busy block is in a place,
  or late. A block that leaves a place gets to the next or is freed, and nothing is written over a place that is not free;
  the one exception is a queue behind its loop, and all that such a queue holds is late. `Stray` adds that a late block stays
  there: a task frees and reads only what a socket holds that it owns, and an owned socket is not a forgotten one.
* `SlipDataProofs`: `ResidueIsZero`, `DifferentStaysDifferent`, `SealedPasses`, `DamagedFails`, `MergedFails` about the CRC, and
  `OnlyWholeFramesPass`, `WritesAreSent`, `ReaderGetsTheStream` about frames. A step of the register is
  linear and loses nothing (the bit that falls out comes back as bit 0), so two states stay different whatever bytes
  follow, and a register's own two bytes bring it to zero; by induction over the frame, what the sender
  seals passes. A change of two neighbouring bytes leaves two different states (what the first byte changes in the upper
  half has come down into the lower half after eight steps, and the second byte cannot undo it), which stay different to the
  end. Of two whole frames without a delimiter between them the second starts from zero and not from 0xFFFF, and so
  differs at its end. With this the line of `SlipData` cannot make a frame that passes and was not sent, and the
  refinement of `ByteStream` follows step by step: the frames sent for an id hold its bytes in order, and a
  reader's offset in its block says how many of them it has had.
* `StartupProofs`: `TypeCorrect`, `NothingUsedTooEarly`, `NoBlockMisplaced`, `NoSocketMisplaced`, `NoPermitLost`. Four layers: `Boot`
  (what `main()` has reached decides what is masked, switched on and made or failed), `Placed` (each busy block is the
  receiver's, in a queue or being sent), `Served` (a used socket is offered or has a client), `Counted` (permits, clients
  and the server's hand add up).
* `TlsServerProofs`: `TypeCorrect`, `PermitsAreKept`, `NoSocketLeaks`, `NoContextLeaks`, `HitsNeverInvented`. The properties are
  inductive together with `InHand`: a connection in the backlog or in the server's hand has no task, so starting
  one adds exactly one holder for the permit taken before. The type of `permits` (never above the initial count) is a
  consequence of the balance, not a part of the induction.

* `ResourceCompilerProofs`: `TypeCorrect`, `WritesStayApart`, `RefusedTreesAreTooLarge`, `ImageIsRight`, from `LayoutHolds`, `AccountsHold`
  and `FaithfulHolds`. The invariant has three layers. `Layout` is about bytes: while a call lists its directory the buffer ends with that call's table
  and `totalSize` is where it starts; afterwards it ends at `totalSize` (`Ended`). That alone is not inductive, because the second
  loop walks the table and fills entries in: `Tiled` says that a table is entries without gaps and `Standing` that every call
  stands at one, or at its table's end; `Blank`, that what lies ahead of a call has no data yet, so a new table is never one a
  waiting call has set; `Nested` and `Apart`, that a waiting call stands just behind the entry of the call it made, and its table ends
  before that one starts. `Accounts` is about nodes: an entry's name is in no other entry (`Unique`), it is in the table of its
  directory (`Homed`), a listing call has written what it has seen (`Seen`), and `totalSize`, padded, is at most what
  the header, the root's table and the nodes that have their data take (`Budget`). A check that fails then has a node that does not have its data
  yet, so the whole tree is at least as large. `Faithful` is about what the image says: a table no call is listing and no call
  has still to come to is complete (`Full`), an entry that is passed leads to its table, its bytes, its own directory or the one above (`Pointing`,
  for which `Passed` ties each call's copy of its caller's table to the image, and `Recorded` each seen name to an entry), and entries do not overlap while
  tables lie behind the entries they belong to (`Shape`). `Step` restates each action once, so that all three layers follow the same cases.
  What `dumpDirectory` prints has a value because the walk along a table consumes it and tables lie behind their entries: `WalkIs`
  and `DumpValue` look at the least, or the last, place where the loop or the recursion would go wrong. The lines are then the
  entries of the tables that can be reached (`BelowIs`), and when the stack is empty nothing is ahead of any call, so `Full` and `Pointing` say that they are the tree (`ImageIs`). A sum over
  a set of nodes is the number of pairs of a node and one of its units (`Total`), so that growing a set and comparing two
  sets are facts about cardinalities; `SumIsTotal` ties the library's recursive sum to it.

What folds and recursive functions compute (`calcCrc`, `Encode`, `Meaning`) is proved by induction, although the library's
induction theorems, which have an operator as a parameter, cannot be used: a set of numbers that is not empty has a least
member (`Least`, from the theorem that `<` is well founded), so a set with 0 in it and the successors of its numbers has
them all (`Induction`), and the proofs give the set; `SubsetInduction` does the same for the subsets of a finite set. `Meaning` is written as a recursion over the positions and not with
`SelectSeq`, which the provers cannot expand.

Only model-checked: liveness (`EverySentBlockIsFreed`, `RecvReturns`, `OfferedIsAccepted`, `FramesAreTaken`, `ConnectionsAreAccepted`, of
the `Fair` specifications), because the prover has no rules for fairness and `ENABLED`.

## Not modelled

* The contents of TLS and HTTP messages: the library is not in the repository. TLS decides when recv, send and close
  are called and may fail.
* Damage that turns a byte into a delimiter or an escape (it changes the framing, which `receive` covers for every line),
  or that truncates a frame to a prefix whose CRC is zero by chance.
* `slip_sock_set_timeout` stores a field nothing reads (see the findings); `queue_delete`, `queue_peek` and `queue_size` have no
  caller; the time a full accept queue blocks the receive task.
* Pins, clocks, baud rates and other register values of `SU_HwInit`; the initialisation in `main()` of the Ethernet
  variants, which consists of calls of vendored drivers (a server socket that could not be set up shows as accepts that
  fail; the semaphore is taken as created); the LED; logging, and with it the read of `block->Len` in the log line behind the
  enabling of the TXE interrupt (`slip_uart.c:351`).
* In `SlipSock`, how much of a payload is left: a copy uses its block up, or leaves some of it, either way. `SlipData` has the
  bytes.
* The cipher, hash and signature demos are straight-line programs that print what a library outside the repository
  computes: they have no state of their own. (In `src/st/stm32f407/cipher_demo/src/main.c` the returns after a failed
  self-test are commented out, so it prints its success line all the same; a property of it would restate that line.)
* Vendored and generated files (`RTE_Device.h`, `system_stm32f4xx.c`, HAL configuration, `res.c`). They make up most of the
  lines of the repository: the map covers what is the program's own.
* In `ResourceCompiler`: path strings and the splitting of paths, the text of the output, sizes beyond 32 bits, and a `maxSize`
  below the header's size, for which the program has no defined behaviour.

## Plan

The order was pool, ring, transmitter, receiver, sockets; then the two independent programs; then checksum and bytes,
start-up, and the proofs. What is left:

1. Pool windows in the socket layer: `MemBlock`'s split `MB_Get` composed with `SlipSock`, to say which callers can
   really meet in a window.
2. The socket layer with peers that hang up: a proof that its properties hold until a stale handle is used (`sock_peers` shows it), and which a
   repaired `slip_sock_free` (one that leaves the slot to its task) would have without a condition.
