------------------------------- MODULE Crc16 --------------------------------
(***************************************************************************)
(* calcCrc of slip_uart.c.  A word or a byte is the set of its one bits,   *)
(* so exclusive or is the symmetric difference and a shift to the left     *)
(* adds one to each bit and drops what leaves the word.                    *)
(***************************************************************************)
EXTENDS Integers, Sequences, SequencesExt

Byte == SUBSET (0 .. 7)
Word == SUBSET (0 .. 15)

Xor(a, b) == (a \ b) \cup (b \ a)

Polynomial == {0, 5, 12}    \* 0x1021
Ones == 0 .. 15             \* 0xFFFF

\* (uint16_t)(crc << 1)
Shl(crc) == {k + 1 : k \in crc \ {15}}

\* crc & 0x8000 ? (crc << 1) ^ 0x1021 : crc << 1
Step(crc) == IF 15 \in crc THEN Xor(Shl(crc), Polynomial) ELSE Shl(crc)

\* The loop over the bits of a byte.
Twice(crc) == Step(Step(crc))
EightSteps(crc) == Twice(Twice(Twice(Twice(crc))))

\* crc ^= *buffer++ << 8, and the loop.
CrcByte(crc, byte) == EightSteps(Xor(crc, {k + 8 : k \in byte}))

\* Mutant: the register starts from zero.
CrcFromZero(buffer) == FoldLeft(CrcByte, {}, buffer)

calcCrc(buffer) == FoldLeft(CrcByte, Ones, buffer)

\* crc >> 8 and (uint8_t)crc
High(crc) == {k - 8 : k \in crc \cap (8 .. 15)}
Low(crc) == crc \cap (0 .. 7)

\* The two bytes that are put behind the data.
Sealed(data) == data \o <<High(calcCrc(data)), Low(calcCrc(data))>>

\* The receive task's test.
Passes(buffer) == calcCrc(buffer) = {}
=============================================================================
