------------------------------ MODULE SlipData ------------------------------
(***************************************************************************)
(* The bytes of the frames: how slip_sock_send, slip_sock_close and        *)
(* SU_Disconnect build them, how SU_ReceiveTask checks and dispatches      *)
(* them, and how slip_sock_recv cuts the payloads out of the blocks.       *)
(*                                                                         *)
(* A frame is the header (cmd, id, len), the payload and the CRC; each     *)
(* field of the header is one byte here.  The line may change two bytes    *)
(* that follow each other, or lose the delimiter between two frames, which *)
(* then arrive as one.                                                     *)
(*                                                                         *)
(* Who runs when is module SlipSock's subject: here a frame is received,   *)
(* checked and dispatched in one step, the pool always has a block, a peer *)
(* does not hang up while a block is being read, and a client closes its   *)
(* socket only while it is its own.                                        *)
(***************************************************************************)
EXTENDS Crc16, FiniteSets

CONSTANTS
  Ids,            \* connection ids
  SLIP_SOCK_MAX,
  MEMBLOCK_SIZE,
  Payloads,       \* what the peer sends in one frame
  Writes,         \* what TLS hands to slip_sock_send
  Sizes,          \* how many bytes TLS asks slip_sock_recv for
  Errors,         \* pairs of bytes: the bits that are changed in two neighbours
  MaxFrames,      \* bound: frames the peer sends
  MaxDamaged,     \* bound: only so many of the first frames are damaged
  MaxOut          \* bound: frames handed to SU_Send

ASSUME DataAssumption ==
  /\ Ids \subseteq Byte /\ SLIP_SOCK_MAX \in Nat
  /\ Payloads \subseteq Seq(Byte) /\ Writes \subseteq Seq(Byte) \ {<<>>}
  /\ Sizes \subseteq Nat \ {0} /\ Errors \subseteq (Byte \X Byte) \ {<<{}, {}>>}

VARIABLES
  open,            \* the ids that have a socket
  queue,           \* the blocks queued in each
  block, pos,      \* socket->block, as a sequence of blocks: empty for NULL
  left,            \* size - *received of the call of slip_sock_recv under way
  rest,            \* what TLS has yet to hand to slip_sock_send
  out,             \* the frames handed to SU_Send
  whole,           \* history: the frames that came as they were sent
  accepted,        \* history: the frames that passed the check
  sent, got,       \* history: payload that came on each connection, and what was read
  given            \* history: what TLS wrote, per connection id

sockVars == <<open, queue, block, pos, left>>
vars == <<sockVars, rest, out, whole, accepted, sent, got, given>>

-----------------------------------------------------------------------------
(***************************************************************************)
(* Frames                                                                  *)
(***************************************************************************)
Connect == {}      \* escConnect
Data == {0}        \* escData
Disconnect == {1}  \* escDisconnect

HeaderSize == 3    \* sizeof(TSockHeader)

\* A block has room for more than the header and the CRC.
ASSUME SizeAssumption == MEMBLOCK_SIZE \in Nat /\ MEMBLOCK_SIZE > HeaderSize + 2

Bits(n) == {k \in 0 .. 7 : (n \div 2 ^ k) % 2 = 1}

\* Header, payload and CRC.
Frame(cmd, id, payload) == Sealed(<<cmd, id, Bits(Len(payload))>> \o payload)

\* What block->Len, block->Offset and the CRC leave of a block.
PayloadSize(b) == Len(b) - HeaderSize - 2
Payload(b) == SubSeq(b, HeaderSize + 1, Len(b) - 2)

\* SU_Disconnect: the frame is made a Disconnect in its own block.
Refusal(b) == Frame(Disconnect, b[2], <<>>)

-----------------------------------------------------------------------------
Init ==
  /\ open = {} /\ out = <<>> /\ whole = <<>> /\ accepted = <<>>
  /\ queue = [i \in Ids |-> <<>>] /\ block = [i \in Ids |-> <<>>]
  /\ pos = [i \in Ids |-> 0] /\ left = [i \in Ids |-> 0]
  /\ rest = [i \in Ids |-> <<>>] /\ given = [i \in Ids |-> <<>>]
  /\ sent = [i \in Ids |-> <<>>] /\ got = [i \in Ids |-> <<>>]

\* slip_sock_connect: a socket, if there is none for the id and one is free.
CanOpen(i) == i \notin open /\ Cardinality(open) < SLIP_SOCK_MAX

\* slip_sock_free: whoever waits in slip_sock_recv gets an error.
Freed(i) ==
  /\ open' = open \ {i}
  /\ queue' = [queue EXCEPT ![i] = <<>>]
  /\ left' = [left EXCEPT ![i] = 0]

\* SU_ReceiveTask has the frame b: what it does with it.
Dispatch(b) ==
  LET i == b[2]
  IN  \/ /\ b[1] = Connect /\ CanOpen(i)
         /\ open' = open \cup {i}
         /\ queue' = [queue EXCEPT ![i] = <<>>]
         /\ block' = [block EXCEPT ![i] = <<>>] /\ pos' = [pos EXCEPT ![i] = 0]
         /\ UNCHANGED <<left, out>>
      \/ /\ b[1] = Data /\ i \in open
         /\ queue' = [queue EXCEPT ![i] = Append(@, b)]
         /\ UNCHANGED <<open, block, pos, left, out>>
      \/ /\ b[1] = Disconnect /\ i \in open
         /\ Freed(i)
         /\ UNCHANGED <<block, pos, out>>
      \/ /\ IF b[1] = Connect THEN ~CanOpen(i) ELSE i \notin open
         /\ out' = Append(out, Refusal(b))
         /\ UNCHANGED sockVars

\* A block of the line: it is dropped if the CRC is wrong.
Received(b) ==
  /\ IF Passes(b) THEN accepted' = Append(accepted, b) /\ Dispatch(b)
                  ELSE UNCHANGED <<accepted, sockVars, out>>
  /\ UNCHANGED <<rest, given>>

-----------------------------------------------------------------------------
(***************************************************************************)
(* The peer and the line.                                                  *)
(***************************************************************************)
Messages ==
  {[cmd |-> c, id |-> i, payload |-> <<>>] : c \in {Connect, Disconnect}, i \in Ids}
    \cup {[cmd |-> Data, id |-> i, payload |-> p] : i \in Ids, p \in Payloads}

FrameOf(m) == Frame(m.cmd, m.id, m.payload)

\* Frames are received at all: as many as the bound allows, and a connection
\* is not hung up while its client has a block.
MayCome(m) ==
  /\ Len(whole) < MaxFrames /\ Len(out) < MaxOut
  /\ m.cmd = Disconnect => block[m.id] = <<>>

\* The frame comes as it was sent.
Whole(m) ==
  /\ MayCome(m)
  /\ whole' = Append(whole, FrameOf(m))
  /\ Received(FrameOf(m))
  /\ \/ /\ m.cmd = Connect /\ CanOpen(m.id)
        /\ sent' = [sent EXCEPT ![m.id] = <<>>] /\ got' = [got EXCEPT ![m.id] = <<>>]
     \/ /\ m.cmd = Data /\ m.id \in open
        /\ sent' = [sent EXCEPT ![m.id] = @ \o m.payload] /\ UNCHANGED got
     \/ /\ m.cmd = Connect => ~CanOpen(m.id)
        /\ m.cmd = Data => m.id \notin open
        /\ UNCHANGED <<sent, got>>

\* Two neighbouring bytes are changed.
Changed(b, k, e) ==
  [n \in DOMAIN b |-> IF n = k THEN Xor(b[n], e[1])
                      ELSE IF n = k + 1 THEN Xor(b[n], e[2]) ELSE b[n]]

Damaged(m) ==
  /\ MayCome(m) /\ Len(whole) < MaxDamaged
  /\ \E e \in Errors, k \in 1 .. Len(FrameOf(m)) - 1 : Received(Changed(FrameOf(m), k, e))
  /\ UNCHANGED <<whole, sent, got>>

\* The delimiter between two frames is lost; what fits a block is checked.
Merged(m, n) ==
  /\ MayCome(m) /\ Len(whole) < MaxDamaged
  /\ Len(FrameOf(m) \o FrameOf(n)) <= MEMBLOCK_SIZE
  /\ Received(FrameOf(m) \o FrameOf(n))
  /\ UNCHANGED <<whole, sent, got>>

-----------------------------------------------------------------------------
(***************************************************************************)
(* slip_sock_recv                                                          *)
(***************************************************************************)

\* The call, for so many bytes; it returns when it has them.
RecvCall(i) ==
  /\ i \in open /\ left[i] = 0
  /\ \E size \in Sizes : left' = [left EXCEPT ![i] = size]
  /\ UNCHANGED <<open, queue, block, pos, rest, out, whole, accepted, sent, got, given>>

\* socket->block = queue_get(&socket->queue), socket->pos = 0
RecvGet(i) ==
  /\ left[i] > 0 /\ block[i] = <<>> /\ queue[i] # <<>>
  /\ block' = [block EXCEPT ![i] = Head(queue[i])]
  /\ queue' = [queue EXCEPT ![i] = Tail(@)]
  /\ pos' = [pos EXCEPT ![i] = 0]
  /\ UNCHANGED <<open, left, rest, out, whole, accepted, sent, got, given>>

\* Mutant: the CRC is read with the payload.
RecvCopyWithCrc(i) ==
  /\ left[i] > 0 /\ block[i] # <<>>
  /\ LET b == block[i]
         size == Len(b) - HeaderSize
         n == IF left[i] < size - pos[i] THEN left[i] ELSE size - pos[i]
     IN  /\ got' = [got EXCEPT ![i] = @ \o SubSeq(b, HeaderSize + pos[i] + 1, HeaderSize + pos[i] + n)]
         /\ pos' = [pos EXCEPT ![i] = @ + n]
         /\ left' = [left EXCEPT ![i] = @ - n]
         /\ block' = IF pos[i] + n = size THEN [block EXCEPT ![i] = <<>>] ELSE block
  /\ UNCHANGED <<open, queue, rest, out, whole, accepted, sent, given>>

\* The copy of what is left of the block or of the call, and MB_Free of a
\* block that is used up.
RecvCopy(i) ==
  /\ left[i] > 0 /\ block[i] # <<>>
  /\ LET b == block[i]
         size == PayloadSize(b)
         n == IF left[i] < size - pos[i] THEN left[i] ELSE size - pos[i]
     IN  /\ got' = [got EXCEPT ![i] = @ \o SubSeq(Payload(b), pos[i] + 1, pos[i] + n)]
         /\ pos' = [pos EXCEPT ![i] = @ + n]
         /\ left' = [left EXCEPT ![i] = @ - n]
         /\ block' = IF pos[i] + n = size THEN [block EXCEPT ![i] = <<>>] ELSE block
  /\ UNCHANGED <<open, queue, rest, out, whole, accepted, sent, given>>

-----------------------------------------------------------------------------
(***************************************************************************)
(* slip_sock_send and slip_sock_close                                      *)
(***************************************************************************)

\* TLS has a record to send, and hands over what is left of it until all of
\* it is written.
Write(i) ==
  /\ i \in open /\ rest[i] = <<>> /\ left[i] = 0 /\ Len(out) < MaxOut
  /\ \E w \in Writes :
       rest' = [rest EXCEPT ![i] = w] /\ given' = [given EXCEPT ![i] = @ \o w]
  /\ UNCHANGED <<sockVars, out, whole, accepted, sent, got>>

\* Mutant: the CRC is forgotten in the size of a frame.
LongestForgetsCrc == MEMBLOCK_SIZE - HeaderSize
Longest == MEMBLOCK_SIZE - HeaderSize - 2

\* slip_sock_send: as much as fits a block.
SlipSockSend(i) ==
  /\ rest[i] # <<>>
  /\ LET n == IF Len(rest[i]) < Longest THEN Len(rest[i]) ELSE Longest
     IN  /\ out' = Append(out, Frame(Data, i, SubSeq(rest[i], 1, n)))
         /\ rest' = [rest EXCEPT ![i] = SubSeq(@, n + 1, Len(@))]
  /\ UNCHANGED <<sockVars, whole, accepted, sent, got, given>>

\* slip_sock_close, by a client that is not inside a call.
SlipSockClose(i) ==
  /\ i \in open /\ left[i] = 0 /\ rest[i] = <<>> /\ Len(out) < MaxOut
  /\ Freed(i)
  /\ out' = Append(out, Frame(Disconnect, i, <<>>))
  /\ UNCHANGED <<block, pos, rest, whole, accepted, sent, got, given>>

-----------------------------------------------------------------------------
Peer == \E m \in Messages : Whole(m) \/ Damaged(m) \/ \E n \in Messages : Merged(m, n)

Client(i) ==
  RecvCall(i) \/ RecvGet(i) \/ RecvCopy(i) \/ Write(i) \/ SlipSockSend(i) \/ SlipSockClose(i)

Next == Peer \/ \E i \in Ids : Client(i)

Spec == Init /\ [][Next]_vars

-----------------------------------------------------------------------------
(***************************************************************************)
(* Properties                                                              *)
(***************************************************************************)

\* The check of SU_ReceiveTask accepts exactly the frames that came as they
\* were sent: neither two changed neighbours nor two frames run together
\* pass for a frame.
AcceptedWereSent == accepted = whole

\* Every frame that is sent would pass the same check, fits a block and
\* states its length, and what the frames of a connection carry is what TLS
\* wrote, whatever it took to cut it into blocks.
Carried(i) ==
  FlattenSeq([k \in DOMAIN out |->
                IF out[k][1] = Data /\ out[k][2] = i THEN Payload(out[k]) ELSE <<>>])

SentIsWhatWasWritten ==
  /\ \A k \in DOMAIN out :
       /\ Passes(out[k]) /\ Len(out[k]) <= MEMBLOCK_SIZE
       /\ out[k][3] = Bits(PayloadSize(out[k]))
  /\ \A i \in Ids : Carried(i) \o rest[i] = given[i]

\* Whatever sizes a reader asks for and however its peer cut the data into
\* frames, what it reads are the bytes of the connection, once and in order,
\* without headers and checksums.
Stream == INSTANCE ByteStream

IsByteStream == Stream!Spec

=============================================================================
