--------------------------- MODULE SlipDataProofs ---------------------------
(***************************************************************************)
(* Theorems about the bytes of the frames: that the check of a received    *)
(* frame lets through what was sent and neither damaged nor merged frames, *)
(* that what is sent is what TLS wrote, and that slip_sock_recv hands the  *)
(* bytes of the connection to its reader.                                  *)
(***************************************************************************)
EXTENDS SlipData, SequenceTheorems, WellFoundedInduction, TLAPS

-----------------------------------------------------------------------------
(***************************************************************************)
(* Induction                                                               *)
(***************************************************************************)

\* Every set of numbers has a least one.
LEMMA Least ==
  ASSUME NEW T \in SUBSET Nat, T # {}
  PROVE  \E n \in T : \A m \in T : n <= m
<1> DEFINE R == OpToRel(<, Nat)
<1>1. IsWellFoundedOn(R, Nat)
  BY NatLessThanWellFounded
<1>2. \A n, m \in Nat : m < n => <<m, n>> \in R
  BY DEF OpToRel
<1> HIDE DEF R
<1>3. PICK n \in T : \A m \in T : <<m, n>> \notin R
  BY <1>1, WFMin
<1>4. ASSUME NEW m \in T PROVE n <= m
  <2>1. m \in Nat /\ n \in Nat /\ <<m, n>> \notin R
    BY <1>3
  <2>2. ~(m < n)
    BY <1>2, <2>1
  <2> QED
    BY <2>1, <2>2
<1> QED
  BY <1>4

\* A set with 0 in it and the successors of its numbers has them all.
LEMMA Induction ==
  ASSUME NEW S, 0 \in S, \A n \in Nat : n \in S => n + 1 \in S
  PROVE  Nat \subseteq S
<1> SUFFICES ASSUME Nat \ S # {} PROVE FALSE
  OBVIOUS
<1>1. PICK n \in Nat \ S : \A m \in Nat \ S : n <= m
  BY Least
<1>2. n # 0 /\ n - 1 \in Nat
  BY <1>1
<1>3. n - 1 \in S
  BY <1>1, <1>2
<1>4. (n - 1) + 1 = n
  OBVIOUS
<1> QED
  BY <1>1, <1>2, <1>3, <1>4

\* Up to a bound.
LEMMA InductionUpTo ==
  ASSUME NEW m \in Nat, NEW S, 0 \in S, \A n \in 0 .. m - 1 : n \in S => n + 1 \in S
  PROVE  0 .. m \subseteq S
<1> DEFINE T == {n \in Nat : n <= m => n \in S}
<1>1. 0 \in T
  OBVIOUS
<1>2. ASSUME NEW n \in Nat, n \in T PROVE n + 1 \in T
  <2>1. CASE n + 1 <= m
    <3>1. n \in 0 .. m - 1 /\ n \in S
      BY <1>2, <2>1
    <3> QED
      BY <3>1
  <2> QED
    BY <2>1
<1> HIDE DEF T
<1>3. Nat \subseteq T
  BY <1>1, <1>2, Induction
<1> QED
  BY <1>3 DEF T

-----------------------------------------------------------------------------
(***************************************************************************)
(* Bytes                                                                   *)
(***************************************************************************)

\* The fields of a frame are bytes.
LEMMA FieldsAreBytes ==
  ASSUME NEW crc, NEW n
  PROVE  /\ High(crc) \in Byte /\ Low(crc) \in Byte /\ Bits(n) \in Byte
         /\ Connect \in Byte /\ Data \in Byte /\ Disconnect \in Byte
<1>1. Low(crc) \in Byte /\ Bits(n) \in Byte
  BY DEF Low, Bits, Byte
<1>2. High(crc) \in Byte
  <2>1. \A k \in crc \cap (8 .. 15) : k - 8 \in 0 .. 7
    OBVIOUS
  <2> QED
    BY <2>1 DEF High, Byte
<1>3. {} \in Byte /\ {0} \in Byte /\ {1} \in Byte
  BY DEF Byte
<1> QED
  BY <1>1, <1>2, <1>3 DEF Connect, Data, Disconnect

\* The three commands are different bytes.
LEMMA CommandsDiffer == Connect # Data /\ Data # Disconnect /\ Connect # Disconnect
<1>1. 0 \in Data /\ 0 \notin Connect /\ 0 \notin Disconnect
  BY DEF Connect, Data, Disconnect
<1>2. 1 \in Disconnect /\ 1 \notin Connect
  BY DEF Connect, Disconnect
<1> QED
  BY <1>1, <1>2

\* Two sequences of bytes behind each other.
LEMMA Joined ==
  ASSUME NEW a \in Seq(Byte), NEW b \in Seq(Byte)
  PROVE  /\ a \o b \in Seq(Byte) /\ Len(a \o b) = Len(a) + Len(b)
         /\ Len(a) \in Nat /\ Len(b) \in Nat
         /\ \A k \in 1 .. Len(a) : (a \o b)[k] = a[k]
         /\ \A k \in 1 .. Len(b) : (a \o b)[Len(a) + k] = b[k]
<1>1. /\ a \o b \in Seq(Byte) /\ Len(a \o b) = Len(a) + Len(b)
      /\ \A k \in 1 .. Len(a) + Len(b) : (a \o b)[k] = IF k <= Len(a) THEN a[k] ELSE b[k - Len(a)]
  BY ConcatProperties
<1>2. Len(a) \in Nat /\ Len(b) \in Nat
  OBVIOUS
<1>3. ASSUME NEW k \in 1 .. Len(a) PROVE (a \o b)[k] = a[k]
  BY <1>1, <1>2
<1>4. ASSUME NEW k \in 1 .. Len(b) PROVE (a \o b)[Len(a) + k] = b[k]
  <2>1. Len(a) + k \in 1 .. Len(a) + Len(b) /\ ~(Len(a) + k <= Len(a)) /\ (Len(a) + k) - Len(a) = k
    BY <1>2
  <2> QED
    BY <1>1, <2>1
<1> QED
  BY <1>1, <1>2, <1>3, <1>4

-----------------------------------------------------------------------------
(***************************************************************************)
(* The checksum                                                            *)
(***************************************************************************)

\* A step keeps a word a word, and two different words different: the bit
\* that falls out of the register comes back as bit 0.
LEMMA StepType == ASSUME NEW a \in Word PROVE Step(a) \in Word
  BY DEF Step, Shl, Xor, Polynomial, Word

\* The bits of a word after one shift.
LEMMA ShlOf ==
  ASSUME NEW a \in Word
  PROVE  /\ 0 \notin Shl(a)
         /\ \A k \in 0 .. 14 : k \in a <=> k + 1 \in Shl(a)
  BY DEF Shl, Word

\* The bits of a word after one step of the division.
LEMMA StepOf ==
  ASSUME NEW a \in Word
  PROVE  /\ 0 \in Step(a) <=> 15 \in a
         /\ \A k \in 0 .. 14 :
              k + 1 \in Step(a) <=> (IF 15 \in a /\ k + 1 \in Polynomial THEN k \notin a ELSE k \in a)
  BY ShlOf DEF Step, Xor, Polynomial

\* A step of the division loses nothing.
LEMMA StepInjective ==
  ASSUME NEW a \in Word, NEW b \in Word, Step(a) = Step(b)
  PROVE  a = b
<1>1. 15 \in a <=> 15 \in b
  BY StepOf
<1>2. \A k \in 0 .. 14 : k \in a <=> k \in b
  <2> TAKE k \in 0 .. 14
  <2>1. /\ k + 1 \in Step(a) <=> (IF 15 \in a /\ k + 1 \in Polynomial THEN k \notin a ELSE k \in a)
        /\ k + 1 \in Step(b) <=> (IF 15 \in b /\ k + 1 \in Polynomial THEN k \notin b ELSE k \in b)
    BY StepOf
  <2> QED
    BY <1>1, <2>1
<1>3. \A k \in 0 .. 15 : k \in a <=> k \in b
  BY <1>1, <1>2
<1> QED
  BY <1>3 DEF Word

\* Nor do two.
LEMMA TwiceInjective ==
  ASSUME NEW a \in Word, NEW b \in Word
  PROVE  /\ Twice(a) \in Word
         /\ Twice(a) = Twice(b) => a = b
  BY StepType, StepInjective DEF Twice

\* Nor does an addition of bits.
LEMMA XorInjective ==
  ASSUME NEW a, NEW b, NEW x, Xor(a, x) = Xor(b, x)
  PROVE  a = b
  BY DEF Xor

\* Two registers that differ still differ after the same byte.  So the second
\* of two frames run together, which starts from the zero that the first one
\* left instead of from 0xFFFF, cannot end in zero as it does alone; and
\* whatever differs in the register at the end of a damage stays there.
THEOREM DifferentStaysDifferent ==
  ASSUME NEW a \in Word, NEW b \in Word, NEW x \in Byte, a # b
  PROVE  CrcByte(a, x) # CrcByte(b, x)
<1> DEFINE w == {k + 8 : k \in x}
<1>1. w \subseteq 0 .. 15
  <2>1. \A k \in x : k + 8 \in 0 .. 15
    <3>1. \A k \in x : k \in 0 .. 7
      BY DEF Byte
    <3> QED
      BY <3>1
  <2> QED
    BY <2>1
<1>2. Xor(a, w) \in Word /\ Xor(b, w) \in Word
  BY <1>1 DEF Xor, Word
<1>3. Xor(a, w) # Xor(b, w)
  BY XorInjective
<1> HIDE DEF w
<1>4. EightSteps(Xor(a, w)) # EightSteps(Xor(b, w))
  BY <1>2, <1>3, TwiceInjective DEF EightSteps
<1> QED
  BY <1>4 DEF CrcByte, w

\* A register that has nothing in its upper half is only shifted.
LEMMA StepShifts ==
  ASSUME NEW a \in Word, 15 \notin a
  PROVE  Step(a) = {k + 1 : k \in a}
  BY DEF Step, Shl

\* Eight steps move the low byte into the high one.
LEMMA EightShifts ==
  ASSUME NEW a, a \subseteq 0 .. 7
  PROVE  EightSteps(a) = {k + 8 : k \in a}
<1> DEFINE s(n) == {k + n : k \in a}
<1>0. \A k \in a : k \in Int /\ k + 0 = k
  OBVIOUS
<1>1. a = s(0)
  BY <1>0
<1>2. \A n \in 0 .. 7 : Step(s(n)) = s(n + 1)
  <2> TAKE n \in 0 .. 7
  <2>0. \A k \in a : k + n \in 0 .. 14 /\ (k + n) + 1 = k + (n + 1)
    OBVIOUS
  <2>1. s(n) \in Word /\ 15 \notin s(n)
    BY <2>0 DEF Word
  <2>2. s(n + 1) = {k + 1 : k \in s(n)}
    <3>1. ASSUME NEW j \in s(n + 1) PROVE \E m \in s(n) : j = m + 1
      <4>1. PICK k \in a : j = k + (n + 1)
        BY <3>1
      <4>2. k + n \in s(n) /\ j = (k + n) + 1
        BY <4>1, <2>0
      <4> QED
        BY <4>2
    <3>2. ASSUME NEW m \in s(n) PROVE m + 1 \in s(n + 1)
      <4>1. PICK k \in a : m = k + n
        BY <3>2
      <4> QED
        BY <4>1, <2>0
    <3> HIDE DEF s
    <3> QED
      BY <3>1, <3>2
  <2> QED
    BY <2>1, <2>2, StepShifts
<1> HIDE DEF s
<1>3. /\ Step(s(0)) = s(1) /\ Step(s(1)) = s(2) /\ Step(s(2)) = s(3) /\ Step(s(3)) = s(4)
      /\ Step(s(4)) = s(5) /\ Step(s(5)) = s(6) /\ Step(s(6)) = s(7) /\ Step(s(7)) = s(8)
  BY <1>2
<1>4. EightSteps(s(0)) = s(8)
  BY <1>3 DEF EightSteps, Twice
<1> QED
  BY <1>1, <1>4 DEF s

\* The checksum of data with its checksum behind it, upper byte first, is
\* zero: what Sealed builds passes the receive task's test.
THEOREM ResidueIsZero ==
  ASSUME NEW crc \in Word
  PROVE  CrcByte(CrcByte(crc, High(crc)), Low(crc)) = {}
<1>1. {k + 8 : k \in High(crc)} = crc \cap (8 .. 15)
  <2>1. \A k \in crc \cap (8 .. 15) : k - 8 \in High(crc) /\ (k - 8) + 8 = k
    BY DEF High
  <2>2. ASSUME NEW k \in High(crc) PROVE k + 8 \in crc \cap (8 .. 15)
    <3>1. PICK j \in crc \cap (8 .. 15) : k = j - 8
      BY DEF High
    <3>2. k + 8 = j
      BY <3>1
    <3> QED
      BY <3>2
  <2> QED
    BY <2>1, <2>2
<1>2. Xor(crc, {k + 8 : k \in High(crc)}) = Low(crc)
  <2>0. \A k \in crc : k \in 0 .. 15 /\ (k \in 8 .. 15 <=> k \notin 0 .. 7)
    BY DEF Word
  <2>1. crc \ (crc \cap (8 .. 15)) = crc \cap (0 .. 7)
    BY <2>0
  <2>2. (crc \cap (8 .. 15)) \ crc = {}
    OBVIOUS
  <2> QED
    BY <1>1, <2>1, <2>2 DEF Xor, Low
<1>3. Low(crc) \subseteq 0 .. 7
  BY DEF Low
<1>4. CrcByte(crc, High(crc)) = {k + 8 : k \in Low(crc)}
  BY <1>2, <1>3, EightShifts DEF CrcByte
<1>5. Xor({k + 8 : k \in Low(crc)}, {k + 8 : k \in Low(crc)}) = {}
  BY DEF Xor
<1>6. EightSteps({}) = {}
  BY EightShifts
<1> QED
  BY <1>4, <1>5, <1>6 DEF CrcByte

\* Exclusive or, bit by bit.
LEMMA XorIs ==
  ASSUME NEW a, NEW b
  PROVE  /\ \A k : k \in Xor(a, b) <=> ~(k \in a <=> k \in b)
         /\ a \in Word /\ b \in Word => Xor(a, b) \in Word
         /\ a \in Byte /\ b \in Byte => Xor(a, b) \in Byte
         /\ Xor(a, b) = {} => a = b
  BY DEF Xor, Word, Byte

\* The polynomial division is linear.
LEMMA StepLinear ==
  ASSUME NEW a \in Word, NEW b \in Word
  PROVE  Step(Xor(a, b)) = Xor(Step(a), Step(b))
<1> DEFINE x == Xor(a, b)
           l == Step(x)
           r == Xor(Step(a), Step(b))
<1>1. x \in Word /\ l \in Word /\ r \in Word
  BY XorIs, StepType
<1>2. \A k : k \in x <=> ~(k \in a <=> k \in b)
  BY XorIs
<1>3. \A k : k \in r <=> ~(k \in Step(a) <=> k \in Step(b))
  BY XorIs
<1> HIDE DEF x
<1>4. 0 \in l <=> 0 \in r
  <2>1. (0 \in l <=> 15 \in x) /\ (0 \in Step(a) <=> 15 \in a) /\ (0 \in Step(b) <=> 15 \in b)
    BY <1>1, StepOf
  <2> QED
    BY <1>2, <1>3, <2>1
<1>5. ASSUME NEW k \in 0 .. 14 PROVE k + 1 \in l <=> k + 1 \in r
  <2>1. /\ k + 1 \in l <=> (IF 15 \in x /\ k + 1 \in Polynomial THEN k \notin x ELSE k \in x)
        /\ k + 1 \in Step(a) <=> (IF 15 \in a /\ k + 1 \in Polynomial THEN k \notin a ELSE k \in a)
        /\ k + 1 \in Step(b) <=> (IF 15 \in b /\ k + 1 \in Polynomial THEN k \notin b ELSE k \in b)
    BY <1>1, StepOf
  <2>2. (15 \in x <=> ~(15 \in a <=> 15 \in b)) /\ (k \in x <=> ~(k \in a <=> k \in b))
    BY <1>2
  <2>3. k + 1 \in r <=> ~(k + 1 \in Step(a) <=> k + 1 \in Step(b))
    BY <1>3
  <2> HIDE DEF l, r
  <2> QED
    BY <2>1, <2>2, <2>3
<1> HIDE DEF l, r
<1>6. \A k \in 0 .. 15 : k \in l <=> k \in r
  <2> TAKE k \in 0 .. 15
  <2>1. CASE k = 0
    BY <2>1, <1>4
  <2>2. CASE k # 0
    <3>1. k - 1 \in 0 .. 14 /\ (k - 1) + 1 = k
      BY <2>2
    <3> QED
      BY <1>5, <3>1
  <2> QED
    BY <2>1, <2>2
<1>7. l = r
  BY <1>1, <1>6 DEF Word
<1> QED
  BY <1>7 DEF l, r, x

\* So are the eight steps of a byte, which lose nothing either.
LEMMA EightLinear ==
  ASSUME NEW a \in Word, NEW b \in Word
  PROVE  /\ EightSteps(a) \in Word
         /\ EightSteps(Xor(a, b)) = Xor(EightSteps(a), EightSteps(b))
         /\ EightSteps(a) = EightSteps(b) => a = b
<1>1. \A x, y \in Word : /\ Twice(x) \in Word
                         /\ Twice(Xor(x, y)) = Xor(Twice(x), Twice(y))
                         /\ Twice(x) = Twice(y) => x = y
  BY StepLinear, StepType, TwiceInjective DEF Twice
<1> DEFINE a1 == Twice(a)
           a2 == Twice(a1)
           a3 == Twice(a2)
           b1 == Twice(b)
           b2 == Twice(b1)
           b3 == Twice(b2)
<1>2. /\ a1 \in Word /\ a2 \in Word /\ a3 \in Word /\ Twice(a3) \in Word
      /\ b1 \in Word /\ b2 \in Word /\ b3 \in Word
  BY <1>1
<1>3. EightSteps(a) = Twice(a3) /\ EightSteps(b) = Twice(b3)
  BY DEF EightSteps
<1>4. /\ Twice(Xor(a, b)) = Xor(a1, b1) /\ Twice(Xor(a1, b1)) = Xor(a2, b2)
      /\ Twice(Xor(a2, b2)) = Xor(a3, b3) /\ Twice(Xor(a3, b3)) = Xor(Twice(a3), Twice(b3))
  BY <1>1, <1>2
<1>5. /\ Twice(a3) = Twice(b3) => a3 = b3
      /\ a3 = b3 => a2 = b2
      /\ a2 = b2 => a1 = b1
      /\ a1 = b1 => a = b
  BY <1>1, <1>2
<1> HIDE DEF a1, a2, a3, b1, b2, b3
<1> QED
  BY <1>2, <1>3, <1>4, <1>5 DEF EightSteps

\* A byte in the upper half of a word.
Up(x) == {k + 8 : k \in x}

\* The bits of a byte moved into the high byte.
LEMMA UpIs ==
  ASSUME NEW x \in Byte
  PROVE  /\ Up(x) \in Word /\ Low(Up(x)) = {}
         /\ \A k : k \in Up(x) <=> (k \in 8 .. 15 /\ k - 8 \in x)
<1>1. \A k \in x : k \in 0 .. 7
  BY DEF Byte
<1>2. ASSUME NEW k PROVE k \in Up(x) <=> (k \in 8 .. 15 /\ k - 8 \in x)
  <2>1. ASSUME k \in Up(x) PROVE k \in 8 .. 15 /\ k - 8 \in x
    <3>1. PICK j \in x : k = j + 8
      BY <2>1 DEF Up
    <3>2. j \in 0 .. 7 /\ k - 8 = j
      BY <1>1, <3>1
    <3> QED
      BY <3>1, <3>2
  <2>2. ASSUME k \in 8 .. 15, k - 8 \in x PROVE k \in Up(x)
    <3>1. (k - 8) + 8 = k
      BY <2>2
    <3> QED
      BY <2>2, <3>1 DEF Up
  <2> QED
    BY <2>1, <2>2
<1>3. Up(x) \in Word
  BY <1>2 DEF Word
<1>4. Low(Up(x)) = {}
  BY <1>2 DEF Low
<1> QED
  BY <1>2, <1>3, <1>4

\* A change of the upper half shows in the lower half eight steps later.
LEMMA ChangeComesDown ==
  ASSUME NEW x \in Byte, x # {}
  PROVE  Low(EightSteps(Up(x))) # {}
<1> SUFFICES ASSUME Low(EightSteps(Up(x))) = {} PROVE FALSE
  OBVIOUS
<1> DEFINE w == EightSteps(Up(x))
           h == High(w)
<1>1. w \in Word
  BY UpIs, EightLinear
<1>2. h \in Byte
  BY FieldsAreBytes
<1>3. Up(h) = w
  <2>1. \A k \in w : k \in 8 .. 15
    <3>1. \A k \in 0 .. 15 : k \in 0 .. 7 \/ k \in 8 .. 15
      OBVIOUS
    <3> QED
      BY <1>1, <3>1 DEF Low, Word
  <2>2. \A k \in 8 .. 15 : k \in w <=> k - 8 \in h
    <3> HIDE DEF w
    <3> TAKE k \in 8 .. 15
    <3>1. k \in w => k - 8 \in h
      BY DEF High
    <3>2. ASSUME k - 8 \in h PROVE k \in w
      <4>1. PICK j \in w \cap (8 .. 15) : k - 8 = j - 8
        BY <3>2 DEF High
      <4>2. k = j
        BY <4>1
      <4> QED
        BY <4>1, <4>2
    <3> QED
      BY <3>1, <3>2
  <2>3. \A k : k \in Up(h) <=> (k \in 8 .. 15 /\ k - 8 \in h)
    BY <1>2, UpIs
  <2> HIDE DEF w, h
  <2> QED
    BY <2>1, <2>2, <2>3
<1>4. EightSteps(h) = w
  <2>1. h \subseteq 0 .. 7
    BY <1>2 DEF Byte
  <2> HIDE DEF w, h
  <2> QED
    BY <1>3, <2>1, EightShifts DEF Up
<1>5. h \in Word
  <2>1. \A k \in 0 .. 7 : k \in 0 .. 15
    OBVIOUS
  <2> QED
    BY <1>2, <2>1 DEF Byte, Word
<1>6. h = Up(x)
  BY <1>4, <1>5, UpIs, EightLinear
<1>7. PICK j \in x : TRUE
  OBVIOUS
<1>8. j \in 0 .. 7 /\ j + 8 \in Up(x)
  BY DEF Byte, Up
<1>9. j + 8 \in 0 .. 7
  BY <1>2, <1>6, <1>8 DEF Byte
<1> QED
  BY <1>8, <1>9

\* Two bytes of which one or both are changed leave a different register: the
\* change of the first comes down to the half of the word that the second,
\* which goes into the upper half, does not reach.
THEOREM TwoBytesDiffer ==
  ASSUME NEW a \in Word, NEW x \in Byte, NEW y \in Byte, NEW u \in Byte, NEW v \in Byte,
         CrcByte(CrcByte(a, x), y) = CrcByte(CrcByte(a, u), v)
  PROVE  x = u /\ y = v
<1> DEFINE p == EightSteps(Xor(a, Up(x)))
           q == EightSteps(Xor(a, Up(u)))
<1>1. Xor(a, Up(x)) \in Word /\ Xor(a, Up(u)) \in Word
  BY UpIs, XorIs
<1>2. p \in Word /\ q \in Word
  BY <1>1, EightLinear
<1>3. CrcByte(a, x) = p /\ CrcByte(a, u) = q
  BY DEF CrcByte, Up
<1> HIDE DEF p, q
<1>4. Xor(p, Up(y)) = Xor(q, Up(v))
  <2>1. Xor(p, Up(y)) \in Word /\ Xor(q, Up(v)) \in Word
    BY <1>2, UpIs, XorIs
  <2>2. EightSteps(Xor(p, Up(y))) = EightSteps(Xor(q, Up(v)))
    BY <1>3 DEF CrcByte, Up
  <2> QED
    BY <2>1, <2>2, EightLinear
<1>5. \A k : ~(k \in p <=> k \in Up(y)) <=> ~(k \in q <=> k \in Up(v))
  BY <1>4, XorIs
<1>6. Low(Xor(p, q)) = {}
  <2>1. \A k \in 0 .. 7 : k \notin Up(y) /\ k \notin Up(v)
    BY UpIs
  <2>2. \A k \in 0 .. 7 : k \in p <=> k \in q
    BY <1>5, <2>1
  <2>3. \A k \in 0 .. 7 : k \notin Xor(p, q)
    BY <2>2, XorIs
  <2> QED
    BY <2>3 DEF Low
<1>7. Xor(p, q) = EightSteps(Up(Xor(x, u)))
  <2>1. Xor(p, q) = EightSteps(Xor(Xor(a, Up(x)), Xor(a, Up(u))))
    BY <1>1, EightLinear DEF p, q
  <2>2. Xor(Xor(a, Up(x)), Xor(a, Up(u))) = Up(Xor(x, u))
    <3> DEFINE l == Xor(Xor(a, Up(x)), Xor(a, Up(u)))
               r == Up(Xor(x, u))
    <3>1. \A k : k \in l <=> ~(k \in Up(x) <=> k \in Up(u))
      <4>1. \A k : k \in l <=> ~(k \in Xor(a, Up(x)) <=> k \in Xor(a, Up(u)))
        BY XorIs
      <4>2. \A k : k \in Xor(a, Up(x)) <=> ~(k \in a <=> k \in Up(x))
        BY XorIs
      <4>3. \A k : k \in Xor(a, Up(u)) <=> ~(k \in a <=> k \in Up(u))
        BY XorIs
      <4> HIDE DEF l
      <4> QED
        BY <4>1, <4>2, <4>3
    <3>2. \A k : k \in r <=> (k \in 8 .. 15 /\ ~(k - 8 \in x <=> k - 8 \in u))
      <4>1. Xor(x, u) \in Byte /\ \A k : k \in Xor(x, u) <=> ~(k \in x <=> k \in u)
        BY XorIs
      <4>2. \A k : k \in r <=> (k \in 8 .. 15 /\ k - 8 \in Xor(x, u))
        BY <4>1, UpIs
      <4> QED
        BY <4>1, <4>2
    <3>3. \A k : k \in Up(x) <=> (k \in 8 .. 15 /\ k - 8 \in x)
      BY UpIs
    <3>4. \A k : k \in Up(u) <=> (k \in 8 .. 15 /\ k - 8 \in u)
      BY UpIs
    <3> HIDE DEF l, r
    <3>5. \A k : k \in l <=> k \in r
      BY <3>1, <3>2, <3>3, <3>4
    <3>6. l = r
      BY <3>5
    <3> QED
      BY <3>6 DEF l, r
  <2> QED
    BY <2>1, <2>2
<1>8. Xor(x, u) \in Byte
  BY XorIs
<1>9. Xor(x, u) = {}
  BY <1>6, <1>7, <1>8, ChangeComesDown
<1>10. x = u
  BY <1>9, XorIs
<1>11. p = q
  BY <1>10 DEF p, q
<1>12. \A k : k \in Up(y) <=> k \in Up(v)
  BY <1>5, <1>11
<1>13. Up(y) = Up(v)
  <2> DEFINE l == Up(y)
             r == Up(v)
  <2>1. \A k : k \in l <=> k \in r
    BY <1>12
  <2> HIDE DEF l, r
  <2>2. l = r
    BY <2>1
  <2> QED
    BY <2>2 DEF l, r
<1>14. \A k \in 0 .. 7 : k \in y <=> k \in v
  <2> TAKE k \in 0 .. 7
  <2>1. k + 8 \in 8 .. 15 /\ (k + 8) - 8 = k
    OBVIOUS
  <2>2. (k + 8 \in Up(y) <=> k \in y) /\ (k + 8 \in Up(v) <=> k \in v)
    BY <2>1, UpIs
  <2> QED
    BY <1>13, <2>2
<1> QED
  BY <1>10, <1>14 DEF Byte

-----------------------------------------------------------------------------
(***************************************************************************)
(* The checksum of a whole frame                                           *)
(***************************************************************************)

\* The last place of a buffer.
LEMMA MaxIs ==
  ASSUME NEW n \in Nat, NEW s \in SUBSET (1 .. n + 1), n + 1 \in s
  PROVE  Max(s) = n + 1
<1>1. \A y \in s : y \in Int /\ y <= n + 1
  OBVIOUS
<1>2. \E x \in s : \A y \in s : x >= y
  BY <1>1
<1>3. Max(s) \in s /\ \A y \in s : Max(s) >= y
  BY <1>2 DEF Max
<1> DEFINE m == Max(s)
<1>4. m \in Int /\ m <= n + 1 /\ m >= n + 1
  BY <1>1, <1>3
<1> HIDE DEF m
<1>5. m = n + 1
  BY <1>4
<1> QED
  BY <1>5 DEF m

\* The fold of calcCrc is a function on the subsets of the buffer's domain.
FoldOf(b, n, f) ==
  f = [s \in SUBSET (1 .. n) |-> IF s = {} THEN Ones
                                 ELSE LET x == Max(s) IN CrcByte(f[s \ {x}], b[x])]

\* There is such a function, one byte more at a time.
LEMMA FoldGrows ==
  ASSUME NEW b, NEW n \in Nat, NEW g, FoldOf(b, n, g)
  PROVE  \E f : FoldOf(b, n + 1, f)
<1> DEFINE f == [s \in SUBSET (1 .. n + 1) |-> IF n + 1 \in s THEN CrcByte(g[s \ {n + 1}], b[n + 1]) ELSE g[s]]
           h == [s \in SUBSET (1 .. n + 1) |-> IF s = {} THEN Ones
                                 ELSE LET x == Max(s) IN CrcByte(f[s \ {x}], b[x])]
<1>0. \A s \in SUBSET (1 .. n + 1) : n + 1 \notin s => s \in SUBSET (1 .. n)
  OBVIOUS
<1>1. ASSUME NEW s \in SUBSET (1 .. n + 1) PROVE f[s] = h[s]
  <2>1. CASE n + 1 \in s
    <3>1. Max(s) = n + 1
      BY <2>1, MaxIs
    <3>2. s \ {n + 1} \in SUBSET (1 .. n + 1) /\ n + 1 \notin s \ {n + 1}
      OBVIOUS
    <3>3. f[s \ {n + 1}] = g[s \ {n + 1}]
      BY <3>2
    <3>4. f[s] = CrcByte(g[s \ {n + 1}], b[n + 1])
      BY <2>1
    <3> HIDE DEF f
    <3> QED
      BY <2>1, <3>1, <3>3, <3>4
  <2>2. CASE n + 1 \notin s
    <3>1. s \in SUBSET (1 .. n)
      BY <2>2, <1>0
    <3>2. g[s] = IF s = {} THEN Ones ELSE CrcByte(g[s \ {Max(s)}], b[Max(s)])
      BY <1>1, <3>1 DEF FoldOf
    <3>3. s \ {Max(s)} \in SUBSET (1 .. n + 1) /\ n + 1 \notin s \ {Max(s)}
      BY <2>2
    <3>4. f[s \ {Max(s)}] = g[s \ {Max(s)}]
      BY <3>3
    <3>5. f[s] = g[s]
      BY <2>2
    <3> HIDE DEF f
    <3> QED
      BY <3>2, <3>4, <3>5
  <2> QED
    BY <2>1, <2>2
<1>2. f = h
  BY <1>1
<1> QED
  BY <1>2 DEF FoldOf

\* The CRC register of every prefix of a block exists.
LEMMA FoldExists ==
  ASSUME NEW b, NEW n \in Nat
  PROVE  \E f : FoldOf(b, n, f)
<1> DEFINE S == {k \in Nat : \E f : FoldOf(b, k, f)}
<1>1. 0 \in S
  <2> DEFINE f == [s \in SUBSET (1 .. 0) |-> Ones]
             h == [s \in SUBSET (1 .. 0) |-> IF s = {} THEN Ones
                                 ELSE LET x == Max(s) IN CrcByte(f[s \ {x}], b[x])]
  <2>1. \A s \in SUBSET (1 .. 0) : s = {}
    OBVIOUS
  <2>2. f = h
    BY <2>1
  <2>3. FoldOf(b, 0, f)
    BY <2>2 DEF FoldOf
  <2> QED
    BY <2>3
<1>2. ASSUME NEW k \in Nat, k \in S PROVE k + 1 \in S
  BY <1>2, FoldGrows
<1> HIDE DEF S
<1>3. Nat \subseteq S
  BY <1>1, <1>2, Induction
<1> QED
  BY <1>3 DEF S

\* The register goes through r from start with the bytes of b.
IsRun(r, start, b) ==
  /\ r \in [0 .. Len(b) -> Word]
  /\ r[0] = start
  /\ \A n \in 1 .. Len(b) : r[n] = CrcByte(r[n - 1], b[n])

\* A byte keeps a word a word.
LEMMA CrcByteType == ASSUME NEW a \in Word, NEW x \in Byte PROVE CrcByte(a, x) \in Word
<1> DEFINE w == {k + 8 : k \in x}
<1>1. w \subseteq 0 .. 15
  <2>1. \A k \in x : k + 8 \in 0 .. 15
    <3>1. \A k \in x : k \in 0 .. 7
      BY DEF Byte
    <3> QED
      BY <3>1
  <2> QED
    BY <2>1
<1>2. Xor(a, w) \in Word
  BY <1>1 DEF Xor, Word
<1> HIDE DEF w
<1>3. EightSteps(Xor(a, w)) \in Word
  BY <1>2, TwiceInjective DEF EightSteps
<1> QED
  BY <1>3 DEF CrcByte, w

\* calcCrc is where the register is behind the last byte.
LEMMA CrcIsRun ==
  ASSUME NEW b \in Seq(Byte)
  PROVE  \E r : IsRun(r, Ones, b) /\ calcCrc(b) = r[Len(b)]
<1> DEFINE N == Len(b)
<1>1. N \in Nat /\ DOMAIN b = 1 .. N /\ \A k \in 1 .. N : b[k] \in Byte
  OBVIOUS
<1> HIDE DEF N
<1>2. \E f : FoldOf(b, N, f)
  BY <1>1, FoldExists
<1> DEFINE g == CHOOSE f : FoldOf(b, N, f)
<1>3. FoldOf(b, N, g)
  BY <1>2
<1>4. calcCrc(b) = g[1 .. N]
  <2>1. calcCrc(b) = LET iter[s \in SUBSET (DOMAIN b)] ==
                           IF s = {} THEN Ones ELSE LET x == Max(s) IN CrcByte(iter[s \ {x}], b[x])
                     IN  iter[DOMAIN b]
    BY DEF calcCrc, FoldLeft, MapThenFoldSet
  <2> QED
    BY <1>1, <2>1 DEF FoldOf
<1> HIDE DEF g
<1>5. g[{}] = Ones
  BY <1>3 DEF FoldOf
<1>6. ASSUME NEW n \in 1 .. N PROVE g[1 .. n] = CrcByte(g[1 .. (n - 1)], b[n])
  <2>1. 1 .. n \in SUBSET (1 .. N) /\ 1 .. n # {} /\ n \in 1 .. n
    BY <1>1
  <2>2. Max(1 .. n) = n
    <3>1. n - 1 \in Nat /\ (n - 1) + 1 = n
      BY <1>1
    <3> QED
      BY <3>1, <2>1, MaxIs
  <2>3. (1 .. n) \ {n} = 1 .. (n - 1)
    BY <1>1
  <2>4. g[1 .. n] = CrcByte(g[(1 .. n) \ {Max(1 .. n)}], b[Max(1 .. n)])
    BY <1>3, <2>1 DEF FoldOf
  <2> QED
    BY <2>2, <2>3, <2>4
<1> DEFINE S == {n \in 0 .. N : g[1 .. n] \in Word}
<1>7. 0 \in S
  <2>1. 1 .. 0 = {}
    OBVIOUS
  <2> QED
    BY <1>1, <1>5, <2>1 DEF Ones, Word
<1>8. ASSUME NEW n \in 0 .. N - 1, n \in S PROVE n + 1 \in S
  <2>1. n + 1 \in 1 .. N /\ n + 1 \in 0 .. N /\ (n + 1) - 1 = n
    BY <1>1
  <2>2. g[1 .. n + 1] = CrcByte(g[1 .. n], b[n + 1])
    BY <1>6, <2>1
  <2> QED
    BY <1>1, <1>8, <2>1, <2>2, CrcByteType
<1> HIDE DEF S
<1>9. 0 .. N \subseteq S
  BY <1>1, <1>7, <1>8, InductionUpTo
<1> DEFINE r == [n \in 0 .. N |-> g[1 .. n]]
<1>10. \A n \in 0 .. N : r[n] = g[1 .. n] /\ g[1 .. n] \in Word
  BY <1>9 DEF S
<1>11. r \in [0 .. N -> Word] /\ r[0] = Ones /\ r[N] = g[1 .. N]
  <2>1. 1 .. 0 = {} /\ 0 \in 0 .. N /\ N \in 0 .. N
    BY <1>1
  <2> QED
    BY <1>5, <1>10, <2>1
<1>12. ASSUME NEW n \in 1 .. N PROVE r[n] = CrcByte(r[n - 1], b[n])
  <2>1. n \in 0 .. N /\ n - 1 \in 0 .. N
    BY <1>1
  <2>2. r[n] = g[1 .. n] /\ r[n - 1] = g[1 .. (n - 1)]
    BY <1>10, <2>1
  <2> HIDE DEF r
  <2> QED
    BY <1>6, <2>2
<1> HIDE DEF r
<1> QED
  BY <1>4, <1>11, <1>12 DEF IsRun, N

\* Equal bytes keep equal registers equal and different ones different.
LEMMA RunsAgree ==
  ASSUME NEW m \in Nat, NEW p \in [0 .. m -> Word], NEW q \in [0 .. m -> Word],
         NEW x \in [1 .. m -> Byte], NEW y \in [1 .. m -> Byte],
         \A n \in 1 .. m : p[n] = CrcByte(p[n - 1], x[n]),
         \A n \in 1 .. m : q[n] = CrcByte(q[n - 1], y[n]),
         NEW k \in 0 .. m
  PROVE  /\ p[0] = q[0] /\ (\A n \in 1 .. k : x[n] = y[n]) => p[k] = q[k]
         /\ p[k] # q[k] /\ (\A n \in k + 1 .. m : x[n] = y[n]) => p[m] # q[m]
<1>1. ASSUME p[0] = q[0], \A n \in 1 .. k : x[n] = y[n] PROVE p[k] = q[k]
  <2> DEFINE S == {n \in 0 .. k : p[n] = q[n]}
  <2>1. 0 \in S
    BY <1>1
  <2>2. ASSUME NEW n \in 0 .. k - 1, n \in S PROVE n + 1 \in S
    <3>1. n + 1 \in 1 .. m /\ n + 1 \in 1 .. k /\ n + 1 \in 0 .. k /\ (n + 1) - 1 = n
      OBVIOUS
    <3>2. p[n + 1] = CrcByte(p[n], x[n + 1]) /\ q[n + 1] = CrcByte(q[n], y[n + 1])
      BY <3>1
    <3> QED
      BY <1>1, <2>2, <3>1, <3>2
  <2> HIDE DEF S
  <2>0. k \in Nat
    OBVIOUS
  <2>3. 0 .. k \subseteq S
    BY <2>0, <2>1, <2>2, InductionUpTo
  <2> QED
    BY <2>3 DEF S
<1>2. ASSUME p[k] # q[k], \A n \in k + 1 .. m : x[n] = y[n] PROVE p[m] # q[m]
  <2> DEFINE S == {n \in 0 .. m - k : p[k + n] # q[k + n]}
  <2>1. 0 \in S
    BY <1>2
  <2>2. ASSUME NEW n \in 0 .. (m - k) - 1, n \in S PROVE n + 1 \in S
    <3>1. k + (n + 1) \in 1 .. m /\ k + (n + 1) \in k + 1 .. m /\ n + 1 \in 0 .. m - k
          /\ (k + (n + 1)) - 1 = k + n /\ k + n \in 0 .. m
      OBVIOUS
    <3>2. p[k + (n + 1)] = CrcByte(p[k + n], x[k + (n + 1)]) /\ q[k + (n + 1)] = CrcByte(q[k + n], y[k + (n + 1)])
      BY <3>1
    <3>3. x[k + (n + 1)] = y[k + (n + 1)] /\ x[k + (n + 1)] \in Byte
      BY <1>2, <3>1
    <3>4. p[k + n] # q[k + n] /\ p[k + n] \in Word /\ q[k + n] \in Word
      BY <2>2, <3>1
    <3> QED
      BY <3>1, <3>2, <3>3, <3>4, DifferentStaysDifferent
  <2> HIDE DEF S
  <2>3. m - k \in Nat
    OBVIOUS
  <2>4. 0 .. m - k \subseteq S
    BY <2>1, <2>2, <2>3, InductionUpTo
  <2>5. m - k \in S /\ k + (m - k) = m
    BY <2>3, <2>4
  <2> QED
    BY <2>5 DEF S
<1> QED
  BY <1>1, <1>2

\* Buffers that begin alike leave the register alike.
LEMMA RunsOfPrefix ==
  ASSUME NEW a \in Seq(Byte), NEW r, NEW b \in Seq(Byte), NEW s,
         IsRun(r, Ones, a), IsRun(s, Ones, b), Len(a) <= Len(b),
         \A k \in 1 .. Len(a) : b[k] = a[k]
  PROVE  s[Len(a)] = r[Len(a)]
<1> DEFINE m == Len(a)
           q == [n \in 0 .. m |-> s[n]]
           y == [n \in 1 .. m |-> b[n]]
<1>0. m \in Nat /\ Len(b) \in Nat /\ a \in [1 .. m -> Byte] /\ b \in [1 .. Len(b) -> Byte] /\ m <= Len(b)
  OBVIOUS
<1>1. r \in [0 .. m -> Word] /\ r[0] = Ones /\ \A n \in 1 .. m : r[n] = CrcByte(r[n - 1], a[n])
  BY DEF IsRun
<1>2. s \in [0 .. Len(b) -> Word] /\ s[0] = Ones /\ \A n \in 1 .. Len(b) : s[n] = CrcByte(s[n - 1], b[n])
  BY DEF IsRun
<1> HIDE DEF m
<1>3. q \in [0 .. m -> Word] /\ y \in [1 .. m -> Byte]
  <2>1. \A n \in 0 .. m : s[n] \in Word
    BY <1>0, <1>2
  <2>2. \A n \in 1 .. m : b[n] \in Byte
    BY <1>0
  <2> QED
    BY <2>1, <2>2
<1>4. \A n \in 0 .. m : q[n] = s[n]
  OBVIOUS
<1>5. \A n \in 1 .. m : y[n] = b[n]
  OBVIOUS
<1> HIDE DEF q, y
<1>6. ASSUME NEW n \in 1 .. m PROVE q[n] = CrcByte(q[n - 1], y[n])
  <2>1. n \in 1 .. Len(b) /\ n \in 0 .. m /\ n - 1 \in 0 .. m
    BY <1>0
  <2> QED
    BY <1>2, <1>4, <1>5, <2>1
<1>7. r[0] = q[0]
  BY <1>0, <1>1, <1>2, <1>4
<1>8. \A n \in 1 .. m : a[n] = y[n]
  BY <1>5 DEF m
<1>9. m \in 0 .. m
  BY <1>0
<1>10. r[m] = q[m]
  BY <1>0, <1>1, <1>3, <1>6, <1>7, <1>8, <1>9, RunsAgree
<1> QED
  BY <1>4, <1>9, <1>10 DEF m

\* The checksum that is put behind the data makes every frame pass the receive
\* task's test, however long it is.
THEOREM SealedPasses ==
  ASSUME NEW d \in Seq(Byte)
  PROVE  Passes(Sealed(d))
<1> DEFINE c == calcCrc(d)
           t == <<High(c), Low(c)>>
           b == d \o t
<1>1. t \in Seq(Byte) /\ Len(t) = 2 /\ t[1] = High(c) /\ t[2] = Low(c)
  BY FieldsAreBytes
<1> HIDE DEF t
<1>2. /\ b \in Seq(Byte) /\ Len(b) = Len(d) + 2 /\ Len(d) \in Nat
      /\ \A k \in 1 .. Len(d) : b[k] = d[k]
      /\ b[Len(d) + 1] = t[1] /\ b[Len(d) + 2] = t[2]
  <2>1. /\ b \in Seq(Byte) /\ Len(b) = Len(d) + Len(t) /\ Len(d) \in Nat
        /\ \A k \in 1 .. Len(d) : b[k] = d[k]
        /\ \A k \in 1 .. Len(t) : b[Len(d) + k] = t[k]
    <3>1. t \in Seq(Byte)
      BY <1>1
    <3> QED
      BY <3>1, Joined
  <2>2. 1 \in 1 .. Len(t) /\ 2 \in 1 .. Len(t)
    BY <1>1
  <2> HIDE DEF b
  <2> QED
    BY <1>1, <2>1, <2>2
<1> HIDE DEF b
<1>3. PICK r : IsRun(r, Ones, d) /\ c = r[Len(d)]
  BY CrcIsRun
<1>4. PICK s : IsRun(s, Ones, b) /\ calcCrc(b) = s[Len(b)]
  BY <1>2, CrcIsRun
<1> HIDE DEF c
<1>5. s[Len(d)] = c
  BY <1>2, <1>3, <1>4, RunsOfPrefix
<1>6. c \in Word
  BY <1>2, <1>3 DEF IsRun
<1>7. s[Len(d) + 1] = CrcByte(s[Len(d)], b[Len(d) + 1])
  <2>1. Len(d) + 1 \in 1 .. Len(b) /\ (Len(d) + 1) - 1 = Len(d)
    BY <1>2
  <2> QED
    BY <1>4, <2>1 DEF IsRun
<1>8. s[Len(d) + 2] = CrcByte(s[Len(d) + 1], b[Len(d) + 2])
  <2>1. Len(d) + 2 \in 1 .. Len(b) /\ (Len(d) + 2) - 1 = Len(d) + 1
    BY <1>2
  <2> QED
    BY <1>4, <2>1 DEF IsRun
<1>9. calcCrc(b) = {}
  BY <1>1, <1>2, <1>4, <1>5, <1>6, <1>7, <1>8, ResidueIsZero
<1> QED
  BY <1>9 DEF Passes, Sealed, b, t, c

\* Two frames that run together, because the delimiter between them is lost,
\* do not pass as one: the register has its zero, and not 0xFFFF, where the
\* second begins.
THEOREM MergedFails ==
  ASSUME NEW a \in Seq(Byte), NEW b \in Seq(Byte), Passes(a), Passes(b)
  PROVE  ~Passes(a \o b)
<1> DEFINE ab == a \o b
<1>1. /\ ab \in Seq(Byte) /\ Len(ab) = Len(a) + Len(b)
      /\ Len(a) \in Nat /\ Len(b) \in Nat
      /\ \A k \in 1 .. Len(a) : ab[k] = a[k]
      /\ \A k \in 1 .. Len(b) : ab[Len(a) + k] = b[k]
  BY Joined
<1> HIDE DEF ab
<1>2. PICK r : IsRun(r, Ones, a) /\ calcCrc(a) = r[Len(a)]
  BY CrcIsRun
<1>3. PICK q : IsRun(q, Ones, b) /\ calcCrc(b) = q[Len(b)]
  BY CrcIsRun
<1>4. PICK s : IsRun(s, Ones, ab) /\ calcCrc(ab) = s[Len(ab)]
  BY <1>1, CrcIsRun
<1>5. s[Len(a)] = {}
  <2>1. s[Len(a)] = r[Len(a)]
    BY <1>1, <1>2, <1>4, RunsOfPrefix
  <2> QED
    BY <1>2, <2>1 DEF Passes
<1> DEFINE m == Len(b)
           p == [n \in 0 .. m |-> s[Len(a) + n]]
<1>6. m \in Nat /\ b \in [1 .. m -> Byte]
  OBVIOUS
<1>7. q \in [0 .. m -> Word] /\ q[0] = Ones /\ \A n \in 1 .. m : q[n] = CrcByte(q[n - 1], b[n])
  BY <1>3 DEF IsRun
<1>8. s \in [0 .. Len(a) + m -> Word] /\ \A n \in 1 .. Len(a) + m : s[n] = CrcByte(s[n - 1], ab[n])
  BY <1>1, <1>4 DEF IsRun
<1>9. p \in [0 .. m -> Word]
  <2>1. \A n \in 0 .. m : Len(a) + n \in 0 .. Len(a) + m
    BY <1>1
  <2> QED
    BY <1>8, <2>1
<1>10. \A n \in 0 .. m : p[n] = s[Len(a) + n]
  OBVIOUS
<1>11. \A k \in 1 .. m : ab[Len(a) + k] = b[k]
  BY <1>1
<1> HIDE DEF p, m
<1>12. ASSUME NEW n \in 1 .. m PROVE p[n] = CrcByte(p[n - 1], b[n])
  <2>1. /\ n \in 0 .. m /\ n - 1 \in 0 .. m /\ Len(a) + n \in 1 .. Len(a) + m
        /\ (Len(a) + n) - 1 = Len(a) + (n - 1)
    BY <1>1, <1>6
  <2> QED
    BY <1>8, <1>10, <1>11, <2>1
<1>13. p[0] # q[0]
  <2>1. p[0] = {}
    BY <1>1, <1>5, <1>6, <1>10
  <2>2. 0 \in Ones
    BY DEF Ones
  <2> QED
    BY <1>7, <2>1, <2>2
<1>14. p[m] # q[m]
  <2>1. 0 \in 0 .. m
    BY <1>6
  <2> QED
    BY <1>6, <1>7, <1>9, <1>12, <1>13, <2>1, RunsAgree
<1>15. s[Len(a) + m] # {}
  <2>1. q[m] = {}
    BY <1>3 DEF Passes, m
  <2>2. m \in 0 .. m
    BY <1>6
  <2> QED
    BY <1>10, <1>14, <2>1, <2>2
<1>16. ~Passes(ab)
  BY <1>1, <1>4, <1>15 DEF Passes, m
<1> QED
  BY <1>16 DEF ab

\* No change of two neighbouring bytes, wherever in the frame, checksum
\* included, goes unnoticed by the test.
THEOREM DamagedFails ==
  ASSUME NEW b \in Seq(Byte), Passes(b), NEW k \in 1 .. Len(b) - 1,
         NEW e \in Byte \X Byte, e # <<{}, {}>>
  PROVE  Changed(b, k, e) \in Seq(Byte) /\ ~Passes(Changed(b, k, e))
<1> DEFINE m == Len(b)
           c == Changed(b, k, e)
<1>1. m \in Nat /\ b \in [1 .. m -> Byte] /\ DOMAIN b = 1 .. m
  OBVIOUS
<1>2. e[1] \in Byte /\ e[2] \in Byte /\ (e[1] # {} \/ e[2] # {})
  OBVIOUS
<1>3. /\ c \in [1 .. m -> Byte]
      /\ c[k] = Xor(b[k], e[1]) /\ c[k + 1] = Xor(b[k + 1], e[2])
      /\ \A n \in 1 .. k - 1 : c[n] = b[n]
      /\ \A n \in k + 2 .. m : c[n] = b[n]
  <2>1. \A n \in 1 .. m : b[n] \in Byte /\ Xor(b[n], e[1]) \in Byte /\ Xor(b[n], e[2]) \in Byte
    BY <1>1, <1>2, XorIs
  <2>2. c = [n \in 1 .. m |-> IF n = k THEN Xor(b[n], e[1])
                              ELSE IF n = k + 1 THEN Xor(b[n], e[2]) ELSE b[n]]
    BY <1>1 DEF Changed
  <2>3. k \in 1 .. m /\ k + 1 \in 1 .. m /\ k + 1 # k
    BY <1>1
  <2> HIDE DEF c
  <2>4. \A n \in 1 .. m : c[n] = IF n = k THEN Xor(b[n], e[1])
                                 ELSE IF n = k + 1 THEN Xor(b[n], e[2]) ELSE b[n]
    BY <2>2
  <2>5. c \in [1 .. m -> Byte]
    BY <2>1, <2>2
  <2>6. \A n \in 1 .. k - 1 : n \in 1 .. m /\ n # k /\ n # k + 1
    BY <1>1
  <2>7. \A n \in k + 2 .. m : n \in 1 .. m /\ n # k /\ n # k + 1
    BY <1>1
  <2> QED
    BY <2>3, <2>4, <2>5, <2>6, <2>7
<1> HIDE DEF c
<1>4. c \in Seq(Byte) /\ Len(c) = m
  BY <1>1, <1>3
<1>5. PICK r : IsRun(r, Ones, b) /\ calcCrc(b) = r[m]
  BY CrcIsRun
<1>6. PICK s : IsRun(s, Ones, c) /\ calcCrc(c) = s[m]
  BY <1>4, CrcIsRun
<1>7. /\ r \in [0 .. m -> Word] /\ s \in [0 .. m -> Word] /\ r[0] = s[0]
      /\ \A n \in 1 .. m : r[n] = CrcByte(r[n - 1], b[n])
      /\ \A n \in 1 .. m : s[n] = CrcByte(s[n - 1], c[n])
  BY <1>4, <1>5, <1>6 DEF IsRun
<1> HIDE DEF m
<1>8. k - 1 \in 0 .. m /\ k + 1 \in 0 .. m /\ k \in 1 .. m /\ k + 1 \in 1 .. m /\ (k + 1) - 1 = k
  <2>1. k \in 1 .. m - 1
    BY DEF m
  <2> QED
    BY <1>1, <2>1
<1>9. r[k - 1] = s[k - 1]
  <2>1. \A n \in 1 .. k - 1 : b[n] = c[n]
    BY <1>3
  <2> QED
    BY <1>1, <1>3, <1>7, <1>8, <2>1, RunsAgree
<1>10. r[k + 1] # s[k + 1]
  <2> DEFINE a == r[k - 1]
  <2>1. /\ r[k + 1] = CrcByte(CrcByte(a, b[k]), b[k + 1])
        /\ s[k + 1] = CrcByte(CrcByte(a, c[k]), c[k + 1])
    BY <1>7, <1>8, <1>9
  <2>2. /\ a \in Word /\ b[k] \in Byte /\ b[k + 1] \in Byte /\ c[k] \in Byte /\ c[k + 1] \in Byte
    BY <1>1, <1>3, <1>7, <1>8
  <2>3. b[k] # c[k] \/ b[k + 1] # c[k + 1]
    <3>1. \A x, y : Xor(x, y) = x => y = {}
      BY DEF Xor
    <3> QED
      BY <1>2, <1>3, <3>1
  <2> HIDE DEF a
  <2> QED
    BY <2>1, <2>2, <2>3, TwoBytesDiffer
<1>11. r[m] # s[m]
  <2>1. \A n \in (k + 1) + 1 .. m : b[n] = c[n]
    <3>1. (k + 1) + 1 = k + 2
      OBVIOUS
    <3> QED
      BY <1>3, <3>1
  <2> QED
    BY <1>1, <1>3, <1>7, <1>8, <1>10, <2>1, RunsAgree
<1> QED
  BY <1>4, <1>5, <1>6, <1>11 DEF Passes, c

-----------------------------------------------------------------------------
(***************************************************************************)
(* Frames                                                                  *)
(***************************************************************************)

\* A block with a frame in it.
Blocks == {b \in Seq(Byte) : Len(b) >= HeaderSize + 2}

\* The bytes of a frame.
LEMMA FrameIs ==
  ASSUME NEW cmd \in Byte, NEW i \in Byte, NEW p \in Seq(Byte)
  PROVE  /\ Frame(cmd, i, p) \in Blocks
         /\ Frame(cmd, i, p)[1] = cmd /\ Frame(cmd, i, p)[2] = i
         /\ PayloadSize(Frame(cmd, i, p)) = Len(p)
         /\ \A k \in 1 .. Len(p) : Frame(cmd, i, p)[HeaderSize + k] = p[k]
<1> DEFINE h == <<cmd, i, Bits(Len(p))>>
           crc == calcCrc(h \o p)
           t == <<High(crc), Low(crc)>>
<1>1. h \in Seq(Byte) /\ Len(h) = 3 /\ h[1] = cmd /\ h[2] = i
  BY FieldsAreBytes
<1>2. t \in Seq(Byte) /\ Len(t) = 2
  BY FieldsAreBytes
<1>3. Frame(cmd, i, p) = (h \o p) \o t
  BY DEF Frame, Sealed
<1> HIDE DEF h, t
<1> DEFINE hp == h \o p
<1>0. /\ hp \in Seq(Byte) /\ Len(hp) = Len(h) + Len(p)
      /\ Len(p) \in Nat
      /\ \A k \in 1 .. Len(h) : hp[k] = h[k]
      /\ \A k \in 1 .. Len(p) : hp[Len(h) + k] = p[k]
  <2>1. h \in Seq(Byte)
    BY <1>1
  <2> QED
    BY <2>1, Joined
<1> HIDE DEF hp
<1>4. /\ hp \in Seq(Byte) /\ Len(hp) = 3 + Len(p) /\ Len(p) \in Nat
      /\ hp[1] = cmd /\ hp[2] = i
      /\ \A k \in 1 .. Len(p) : hp[3 + k] = p[k]
  BY <1>0, <1>1
<1>5. /\ hp \o t \in Seq(Byte) /\ Len(hp \o t) = 5 + Len(p)
      /\ \A k \in 1 .. 3 + Len(p) : (hp \o t)[k] = hp[k]
  <2>1. /\ hp \o t \in Seq(Byte) /\ Len(hp \o t) = Len(hp) + Len(t)
        /\ \A k \in 1 .. Len(hp) : (hp \o t)[k] = hp[k]
    <3>1. hp \in Seq(Byte) /\ t \in Seq(Byte)
      BY <1>2, <1>4
    <3> QED
      BY <3>1, Joined
  <2>2. (3 + Len(p)) + 2 = 5 + Len(p)
    BY <1>4
  <2> QED
    BY <1>2, <1>4, <2>1, <2>2
<1>6. Frame(cmd, i, p) = hp \o t
  BY <1>3 DEF hp
<1>7. \A k \in 1 .. Len(p) : 3 + k \in 1 .. 3 + Len(p)
  BY <1>4
<1> QED
  BY <1>4, <1>5, <1>6, <1>7 DEF Blocks, HeaderSize, PayloadSize

\* The bytes of a block's payload.
LEMMA PayloadIs ==
  ASSUME NEW b \in Blocks
  PROVE  /\ PayloadSize(b) \in Nat
         /\ Payload(b) \in Seq(Byte) /\ Len(Payload(b)) = PayloadSize(b)
         /\ \A k \in 1 .. PayloadSize(b) : Payload(b)[k] = b[HeaderSize + k]
<1>1. b \in Seq(Byte) /\ Len(b) \in Nat /\ Len(b) >= 5 /\ PayloadSize(b) = Len(b) - 5
  BY DEF Blocks, PayloadSize, HeaderSize
<1>2. \A k \in 4 .. Len(b) - 2 : b[k] \in Byte
  BY <1>1
<1>3. /\ SubSeq(b, 4, Len(b) - 2) \in Seq(Byte)
      /\ Len(SubSeq(b, 4, Len(b) - 2)) = IF 4 <= Len(b) - 2 THEN ((Len(b) - 2) - 4) + 1 ELSE 0
      /\ \A k \in 1 .. ((Len(b) - 2) - 4) + 1 : SubSeq(b, 4, Len(b) - 2)[k] = b[(4 + k) - 1]
  BY <1>1, <1>2, SubSeqProperties
<1>4. ((Len(b) - 2) - 4) + 1 = PayloadSize(b) /\ \A k \in Nat : (4 + k) - 1 = 3 + k
  BY <1>1
<1> QED
  BY <1>1, <1>3, <1>4 DEF Payload, HeaderSize

\* The payload of a frame is what was put into it.
LEMMA FrameCarries ==
  ASSUME NEW cmd \in Byte, NEW i \in Byte, NEW p \in Seq(Byte)
  PROVE  Payload(Frame(cmd, i, p)) = p
<1>1. /\ Payload(Frame(cmd, i, p)) \in Seq(Byte) /\ Len(Payload(Frame(cmd, i, p))) = Len(p)
      /\ \A k \in 1 .. Len(p) : Payload(Frame(cmd, i, p))[k] = p[k]
  BY FrameIs, PayloadIs, SMTT(30)
<1> QED
  BY <1>1, SeqEqual

\* The frame of a message carries its command, connection and payload.
LEMMA MessagesAre ==
  ASSUME NEW m \in Messages
  PROVE  /\ m.cmd \in {Connect, Data, Disconnect} /\ m.id \in Ids /\ m.payload \in Seq(Byte)
         /\ FrameOf(m) \in Blocks /\ FrameOf(m)[1] = m.cmd /\ FrameOf(m)[2] = m.id
         /\ Payload(FrameOf(m)) = m.payload
<1>1. m.cmd \in {Connect, Data, Disconnect} /\ m.id \in Ids /\ m.payload \in Seq(Byte)
  <2>1. \A p \in Payloads : p \in Seq(Byte)
    BY DataAssumption
  <2>2. <<>> \in Seq(Byte)
    OBVIOUS
  <2>3. CASE \E c \in {Connect, Disconnect}, i \in Ids : m = [cmd |-> c, id |-> i, payload |-> <<>>]
    BY <2>2, <2>3
  <2>4. CASE \E i \in Ids, p \in Payloads : m = [cmd |-> Data, id |-> i, payload |-> p]
    BY <2>1, <2>4
  <2> QED
    BY <2>3, <2>4 DEF Messages
<1>2. m.cmd \in Byte /\ m.id \in Byte
  BY <1>1, FieldsAreBytes, DataAssumption
<1> QED
  BY <1>1, <1>2, FrameIs, FrameCarries DEF FrameOf

\* It states the length of its payload and passes the check.
LEMMA FrameIsGood ==
  ASSUME NEW cmd \in Byte, NEW i \in Byte, NEW p \in Seq(Byte)
  PROVE  /\ Frame(cmd, i, p)[3] = Bits(Len(p))
         /\ Passes(Frame(cmd, i, p))
<1> DEFINE h == <<cmd, i, Bits(Len(p))>>
           d == h \o p
           t == <<High(calcCrc(d)), Low(calcCrc(d))>>
<1>1. h \in Seq(Byte) /\ Len(h) = 3 /\ h[3] = Bits(Len(p))
  BY FieldsAreBytes
<1>2. t \in Seq(Byte)
  BY FieldsAreBytes
<1>3. Frame(cmd, i, p) = Sealed(d) /\ Sealed(d) = d \o t
  BY DEF Frame, Sealed
<1> HIDE DEF h, t
<1>4. d \in Seq(Byte) /\ Len(d) = Len(h) + Len(p) /\ Len(p) \in Nat /\ \A k \in 1 .. Len(h) : d[k] = h[k]
  <2>1. h \in Seq(Byte)
    BY <1>1
  <2> QED
    BY <2>1, Joined
<1> HIDE DEF d
<1>5. \A k \in 1 .. Len(d) : (d \o t)[k] = d[k]
  BY <1>2, <1>4, Joined
<1>6. 3 \in 1 .. Len(h) /\ 3 \in 1 .. Len(d)
  BY <1>1, <1>4
<1> QED
  BY <1>1, <1>3, <1>4, <1>5, <1>6, SealedPasses

\* The frame of a message passes the receiver's test.
LEMMA FramePasses ==
  ASSUME NEW m \in Messages
  PROVE  FrameOf(m) \in Seq(Byte) /\ Passes(FrameOf(m))
<1>1. m.id \in Byte /\ m.cmd \in Byte /\ m.payload \in Seq(Byte) /\ FrameOf(m) \in Seq(Byte)
  <2>1. m.id \in Ids /\ m.cmd \in {Connect, Data, Disconnect} /\ m.payload \in Seq(Byte) /\ FrameOf(m) \in Blocks
    BY MessagesAre
  <2> QED
    BY <2>1, FieldsAreBytes, DataAssumption DEF Blocks
<1> QED
  BY <1>1, FrameIsGood DEF FrameOf

\* The check of SU_ReceiveTask accepts exactly the frames that came as they
\* were sent, for every payload and every damage of two neighbouring bytes:
\* calcCrc leaves zero for what slip_sock.c sealed, and for nothing the line
\* made of it.
THEOREM OnlyWholeFramesPass == Spec => []AcceptedWereSent
<1>1. Init => AcceptedWereSent
  BY DEF Init, AcceptedWereSent
<1>2. ASSUME AcceptedWereSent, [Next]_vars
      PROVE  AcceptedWereSent'
  <2>1. CASE UNCHANGED vars
    BY <1>2, <2>1 DEF AcceptedWereSent, vars
  <2>2. ASSUME NEW m \in Messages, Whole(m)
        PROVE  AcceptedWereSent'
    <3>1. Passes(FrameOf(m))
      BY FramePasses
    <3> QED
      BY <1>2, <2>2, <3>1 DEF Whole, Received, AcceptedWereSent
  <2>3. ASSUME NEW m \in Messages, Damaged(m)
        PROVE  AcceptedWereSent'
    <3>1. PICK e \in Errors, k \in 1 .. Len(FrameOf(m)) - 1 : Received(Changed(FrameOf(m), k, e))
      BY <2>3 DEF Damaged
    <3>2. e \in Byte \X Byte /\ e # <<{}, {}>>
      BY DataAssumption
    <3>3. ~Passes(Changed(FrameOf(m), k, e))
      BY <3>2, FramePasses, DamagedFails
    <3>4. accepted' = accepted /\ whole' = whole
      BY <2>3, <3>1, <3>3 DEF Received, Damaged
    <3> QED
      BY <1>2, <3>4 DEF AcceptedWereSent
  <2>4. ASSUME NEW m \in Messages, NEW n \in Messages, Merged(m, n)
        PROVE  AcceptedWereSent'
    <3>1. ~Passes(FrameOf(m) \o FrameOf(n))
      BY FramePasses, MergedFails
    <3>2. accepted' = accepted /\ whole' = whole
      BY <2>4, <3>1 DEF Received, Merged
    <3> QED
      BY <1>2, <3>2 DEF AcceptedWereSent
  <2>5. ASSUME NEW i \in Ids, Client(i)
        PROVE  AcceptedWereSent'
    <3>1. accepted' = accepted /\ whole' = whole
      BY <2>5 DEF Client, RecvCall, RecvGet, RecvCopy, Write, SlipSockSend, SlipSockClose
    <3> QED
      BY <1>2, <3>1 DEF AcceptedWereSent
  <2> QED
    BY <1>2, <2>1, <2>2, <2>3, <2>4, <2>5 DEF Next, Peer
<1> QED
  BY <1>1, <1>2, PTL DEF Spec

-----------------------------------------------------------------------------
(***************************************************************************)
(* What is sent                                                            *)
(***************************************************************************)

\* The flattening of the first n sequences of s is a function of n.
FlatOf(s, n, f) ==
  f = [k \in 1 .. n |-> IF k = 1 THEN s[k] ELSE f[k - 1] \o s[k]]

\* There is such a function, one end more at a time.
LEMMA FlatExists ==
  ASSUME NEW s, NEW n \in Nat
  PROVE  \E f : FlatOf(s, n, f)
<1> DEFINE S == {k \in Nat : \E f : FlatOf(s, k, f)}
<1>1. 0 \in S
  <2> DEFINE f == [k \in 1 .. 0 |-> <<>>]
             h == [k \in 1 .. 0 |-> IF k = 1 THEN s[k] ELSE f[k - 1] \o s[k]]
  <2>1. f = h
    OBVIOUS
  <2> QED
    BY <2>1 DEF FlatOf
<1>2. ASSUME NEW k \in Nat, k \in S PROVE k + 1 \in S
  <2>1. PICK g : FlatOf(s, k, g)
    BY <1>2
  <2> DEFINE f == [j \in 1 .. k + 1 |-> IF j = k + 1 THEN IF j = 1 THEN s[j] ELSE g[k] \o s[j] ELSE g[j]]
             h == [j \in 1 .. k + 1 |-> IF j = 1 THEN s[j] ELSE f[j - 1] \o s[j]]
  <2>2. ASSUME NEW j \in 1 .. k + 1 PROVE f[j] = h[j]
    <3>0. h[j] = IF j = 1 THEN s[j] ELSE f[j - 1] \o s[j]
      OBVIOUS
    <3>1. CASE j = k + 1
      <4>1. f[j] = IF j = 1 THEN s[j] ELSE g[k] \o s[j]
        BY <3>1
      <4>2. j # 1 => f[j - 1] = g[k]
        <5>1. j # 1 => j - 1 \in 1 .. k + 1 /\ j - 1 # k + 1 /\ j - 1 = k
          BY <3>1
        <5> QED
          BY <5>1
      <4> HIDE DEF f, h
      <4> QED
        BY <3>0, <4>1, <4>2
    <3>2. CASE j # k + 1
      <4>1. f[j] = g[j] /\ j \in 1 .. k
        BY <3>2
      <4>2. g[j] = IF j = 1 THEN s[j] ELSE g[j - 1] \o s[j]
        BY <2>1, <4>1 DEF FlatOf
      <4>3. j # 1 => f[j - 1] = g[j - 1]
        <5>1. j # 1 => j - 1 \in 1 .. k + 1 /\ j - 1 # k + 1
          BY <4>1
        <5> QED
          BY <5>1
      <4> HIDE DEF f, h
      <4> QED
        BY <3>0, <4>1, <4>2, <4>3
    <3> QED
      BY <3>1, <3>2
  <2>3. f = h
    BY <2>2
  <2>4. FlatOf(s, k + 1, f)
    BY <2>3 DEF FlatOf
  <2> HIDE DEF f, h
  <2> QED
    BY <2>4
<1> HIDE DEF S
<1>3. Nat \subseteq S
  BY <1>1, <1>2, Induction
<1> QED
  BY <1>3 DEF S

\* FlattenSeq is its last value.
LEMMA FlattenIs ==
  ASSUME NEW s \in Seq(Seq(Byte))
  PROVE  /\ Len(s) \in Nat
         /\ Len(s) = 0 => FlattenSeq(s) = <<>>
         /\ Len(s) # 0 => \E f : FlatOf(s, Len(s), f) /\ FlattenSeq(s) = f[Len(s)]
<1> DEFINE n == Len(s)
<1>1. n \in Nat /\ (n = 0 => s = <<>>)
  OBVIOUS
<1>2. FlattenSeq(s) = IF n = 0 THEN s ELSE (CHOOSE f : FlatOf(s, n, f))[n]
  BY DEF FlattenSeq, FlatOf
<1> HIDE DEF n
<1>3. \E f : FlatOf(s, n, f)
  BY <1>1, FlatExists
<1> DEFINE g == CHOOSE f : FlatOf(s, n, f)
<1>4. FlatOf(s, n, g)
  BY <1>3
<1>5. FlattenSeq(s) = IF n = 0 THEN s ELSE g[n]
  BY <1>2
<1> HIDE DEF g
<1> QED
  BY <1>1, <1>4, <1>5 DEF n

\* What is behind the first n does not matter to it.
LEMMA FlatGrows ==
  ASSUME NEW s \in Seq(Seq(Byte)), NEW t \in Seq(Seq(Byte)), NEW n \in Nat, NEW f, NEW g,
         n <= Len(s), Len(s) <= Len(t), \A k \in 1 .. Len(s) : s[k] = t[k],
         FlatOf(s, Len(s), f), FlatOf(t, Len(t), g), n # 0
  PROVE  f[n] = g[n] /\ f[n] \in Seq(Byte)
<1> DEFINE N == Len(s)
           M == Len(t)
           S == {k \in 0 .. n : k = 0 \/ (f[k] = g[k] /\ f[k] \in Seq(Byte))}
<1>1. N \in Nat /\ M \in Nat /\ \A k \in 1 .. N : s[k] \in Seq(Byte)
  OBVIOUS
<1> HIDE DEF N, M
<1>2. 0 \in S
  OBVIOUS
<1>3. ASSUME NEW k \in 0 .. n - 1, k \in S PROVE k + 1 \in S
  <2>1. k + 1 \in 1 .. N /\ k + 1 \in 1 .. M /\ (k + 1) - 1 = k /\ k + 1 \in 0 .. n
    BY <1>1 DEF N, M
  <2>2. /\ f[k + 1] = IF k + 1 = 1 THEN s[k + 1] ELSE f[k] \o s[k + 1]
        /\ g[k + 1] = IF k + 1 = 1 THEN t[k + 1] ELSE g[k] \o t[k + 1]
    BY <2>1 DEF FlatOf, N, M
  <2>3. s[k + 1] = t[k + 1] /\ s[k + 1] \in Seq(Byte)
    BY <1>1, <2>1 DEF N
  <2>4. CASE k = 0
    BY <2>1, <2>2, <2>3, <2>4
  <2>5. CASE k # 0
    <3>1. f[k] = g[k] /\ f[k] \in Seq(Byte)
      BY <1>3, <2>5
    <3>2. f[k] \o s[k + 1] \in Seq(Byte)
      BY <2>3, <3>1, Joined
    <3>3. k + 1 # 1
      BY <2>5
    <3> QED
      BY <2>1, <2>2, <2>3, <3>1, <3>2, <3>3
  <2> QED
    BY <2>4, <2>5
<1> HIDE DEF S
<1>4. 0 .. n \subseteq S
  BY <1>2, <1>3, InductionUpTo
<1>5. n \in S
  BY <1>4
<1> QED
  BY <1>5 DEF S

\* One sequence more at the end.
LEMMA FlattenAppend ==
  ASSUME NEW s \in Seq(Seq(Byte)), NEW x \in Seq(Byte)
  PROVE  /\ FlattenSeq(s) \in Seq(Byte)
         /\ FlattenSeq(Append(s, x)) = FlattenSeq(s) \o x
<1> DEFINE t == Append(s, x)
           n == Len(s)
<1>1. /\ t \in Seq(Seq(Byte)) /\ Len(t) = n + 1 /\ n \in Nat
      /\ \A k \in 1 .. n : s[k] = t[k]
      /\ t[n + 1] = x
  BY AppendProperties
<1> HIDE DEF t, n
<1>2. PICK g : FlatOf(t, n + 1, g) /\ FlattenSeq(t) = g[n + 1]
  <2>1. Len(t) # 0
    BY <1>1
  <2>2. \E g : FlatOf(t, Len(t), g) /\ FlattenSeq(t) = g[Len(t)]
    BY <1>1, <2>1, FlattenIs
  <2> QED
    BY <1>1, <2>2
<1>3. g[n + 1] = IF n + 1 = 1 THEN x ELSE g[n] \o x
  <2>1. n + 1 \in 1 .. n + 1 /\ (n + 1) - 1 = n
    BY <1>1
  <2> QED
    BY <1>1, <1>2, <2>1 DEF FlatOf
<1>4. CASE n = 0
  <2>1. FlattenSeq(s) = <<>>
    BY <1>4, FlattenIs DEF n
  <2>2. <<>> \o x = x /\ <<>> \in Seq(Byte)
    OBVIOUS
  <2>3. n + 1 = 1
    BY <1>4
  <2> QED
    BY <1>2, <1>3, <2>1, <2>2, <2>3 DEF t
<1>5. CASE n # 0
  <2>1. PICK f : FlatOf(s, n, f) /\ FlattenSeq(s) = f[n]
    BY <1>5, FlattenIs DEF n
  <2>2. n <= n /\ n <= n + 1
    BY <1>1
  <2>3. f[n] = g[n] /\ f[n] \in Seq(Byte)
    BY <1>1, <1>2, <1>5, <2>1, <2>2, FlatGrows DEF n
  <2>4. n + 1 # 1
    BY <1>1, <1>5
  <2> QED
    BY <1>2, <1>3, <2>1, <2>3, <2>4 DEF t
<1> QED
  BY <1>4, <1>5

\* What the frames of a connection carry is a sequence of bytes.
LEMMA CarriedType ==
  ASSUME out \in Seq(Blocks), NEW i
  PROVE  Carried(i) \in Seq(Byte)
<1> DEFINE s == [k \in DOMAIN out |-> IF out[k][1] = Data /\ out[k][2] = i THEN Payload(out[k]) ELSE <<>>]
<1>1. Len(out) \in Nat /\ DOMAIN out = 1 .. Len(out) /\ \A k \in 1 .. Len(out) : out[k] \in Blocks
  OBVIOUS
<1>2. \A k \in 1 .. Len(out) : s[k] \in Seq(Byte)
  <2>1. <<>> \in Seq(Byte)
    OBVIOUS
  <2> QED
    BY <1>1, <2>1, PayloadIs
<1>3. s \in Seq(Seq(Byte))
  BY <1>1, <1>2
<1>4. Carried(i) = FlattenSeq(s)
  BY DEF Carried
<1> HIDE DEF s
<1>5. <<>> \in Seq(Byte)
  OBVIOUS
<1> QED
  BY <1>3, <1>4, <1>5, FlattenAppend

\* What the frames of a connection carry with one frame more.
LEMMA CarriedGrows ==
  ASSUME out \in Seq(Blocks), NEW b \in Blocks, out' = Append(out, b), NEW i
  PROVE  /\ Carried(i) \in Seq(Byte)
         /\ Carried(i)' = Carried(i) \o (IF b[1] = Data /\ b[2] = i THEN Payload(b) ELSE <<>>)
<1> DEFINE P(c) == IF c[1] = Data /\ c[2] = i THEN Payload(c) ELSE <<>>
           s == [k \in DOMAIN out |-> P(out[k])]
           t == [k \in DOMAIN out' |-> P(out'[k])]
           n == Len(out)
           x == P(b)
<1>1. n \in Nat /\ DOMAIN out = 1 .. n /\ \A k \in 1 .. n : out[k] \in Blocks
  OBVIOUS
<1>2. out' \in Seq(Blocks) /\ DOMAIN out' = 1 .. n + 1 /\ (\A k \in 1 .. n : out'[k] = out[k]) /\ out'[n + 1] = b
  BY AppendProperties
<1>3. \A c \in Blocks : P(c) \in Seq(Byte)
  <2>1. <<>> \in Seq(Byte)
    OBVIOUS
  <2> QED
    BY <2>1, PayloadIs
<1> HIDE DEF n, P
<1>4. s \in [1 .. n -> Seq(Byte)] /\ \A k \in 1 .. n : s[k] = P(out[k])
  BY <1>1, <1>3
<1>5. t \in [1 .. n + 1 -> Seq(Byte)] /\ (\A k \in 1 .. n : t[k] = P(out[k])) /\ t[n + 1] = P(b)
  <2>1. \A k \in 1 .. n : k \in 1 .. n + 1
    BY <1>1
  <2>2. n + 1 \in 1 .. n + 1
    BY <1>1
  <2>3. \A k \in 1 .. n + 1 : out'[k] \in Blocks
    BY <1>1, <1>2
  <2> QED
    BY <1>2, <1>3, <2>1, <2>2, <2>3
<1>6. x \in Seq(Byte)
  BY <1>3
<1>7. Carried(i) = FlattenSeq(s)
  BY DEF Carried, P
<1>8. Carried(i)' = FlattenSeq(t)
  BY DEF Carried, P
<1> HIDE DEF s, t, x
<1>9. s \in Seq(Seq(Byte)) /\ Len(s) = n /\ t \in Seq(Seq(Byte)) /\ Len(t) = n + 1
  BY <1>1, <1>4, <1>5
<1>10. t = Append(s, x)
  <2> DEFINE a == Append(s, x)
  <2>1. a \in Seq(Seq(Byte)) /\ Len(a) = n + 1 /\ (\A k \in 1 .. n : a[k] = s[k]) /\ a[n + 1] = x
    BY <1>6, <1>9, AppendProperties
  <2>2. \A k \in 1 .. n + 1 : k = n + 1 \/ k \in 1 .. n
    BY <1>1
  <2>3. \A k \in 1 .. n + 1 : a[k] = t[k]
    BY <1>4, <1>5, <2>1, <2>2 DEF x
  <2> HIDE DEF a
  <2>4. a = t
    BY <1>9, <2>1, <2>3, SeqEqual
  <2> QED
    BY <2>4 DEF a
<1> QED
  BY <1>6, <1>7, <1>8, <1>9, <1>10, FlattenAppend DEF x, P

\* What is sent is in order, and every write has its rest.
IsGood(b) ==
  /\ b \in Blocks /\ Passes(b) /\ Len(b) <= MEMBLOCK_SIZE
  /\ b[3] = Bits(PayloadSize(b))

SentInOrder ==
  /\ out \in Seq(Blocks) /\ \A k \in DOMAIN out : IsGood(out[k])
  /\ rest \in [Ids -> Seq(Byte)] /\ given \in [Ids -> Seq(Byte)]
  /\ \A i \in Ids : Carried(i) \o rest[i] = given[i]

\* A frame that is handed to SU_Send.
LEMMA SendsGood ==
  ASSUME SentInOrder, NEW cmd \in Byte, NEW i \in Byte, NEW p \in Seq(Byte), Len(p) <= Longest,
         out' = Append(out, Frame(cmd, i, p))
  PROVE  /\ out' \in Seq(Blocks) /\ \A k \in DOMAIN out' : IsGood(out'[k])
         /\ \A j \in Ids : /\ Carried(j) \in Seq(Byte)
                           /\ Carried(j)' = IF cmd = Data /\ i = j THEN Carried(j) \o p ELSE Carried(j)
<1> DEFINE b == Frame(cmd, i, p)
<1>1. /\ b \in Blocks /\ b[1] = cmd /\ b[2] = i /\ PayloadSize(b) = Len(p) /\ Payload(b) = p
      /\ Passes(b) /\ b[3] = Bits(Len(p))
  BY FrameIs, FrameCarries, FrameIsGood
<1> HIDE DEF b
<1>2. IsGood(b)
  <2>1. Len(b) \in Nat /\ Len(p) \in Nat
    BY <1>1 DEF Blocks
  <2>2. Len(b) <= MEMBLOCK_SIZE
    BY <1>1, <2>1, SizeAssumption DEF PayloadSize, Longest, HeaderSize
  <2> QED
    BY <1>1, <2>2 DEF IsGood
<1>3. /\ out \in Seq(Blocks) /\ \A k \in DOMAIN out : IsGood(out[k])
  BY DEF SentInOrder
<1>4. /\ out' \in Seq(Blocks) /\ Len(out) \in Nat /\ DOMAIN out = 1 .. Len(out)
      /\ DOMAIN out' = 1 .. Len(out) + 1 /\ (\A k \in 1 .. Len(out) : out'[k] = out[k])
      /\ out'[Len(out) + 1] = b
  BY <1>1, <1>3, AppendProperties DEF b
<1>5. \A k \in DOMAIN out' : IsGood(out'[k])
  <2>1. \A k \in 1 .. Len(out) + 1 : k = Len(out) + 1 \/ k \in 1 .. Len(out)
    BY <1>4
  <2> QED
    BY <1>2, <1>3, <1>4, <2>1
<1>6. ASSUME NEW j \in Ids
      PROVE  /\ Carried(j) \in Seq(Byte)
             /\ Carried(j)' = IF cmd = Data /\ i = j THEN Carried(j) \o p ELSE Carried(j)
  <2>1. /\ Carried(j) \in Seq(Byte)
        /\ Carried(j)' = Carried(j) \o (IF b[1] = Data /\ b[2] = j THEN Payload(b) ELSE <<>>)
    BY <1>1, <1>3, CarriedGrows DEF b
  <2>2. \A c \in Seq(Byte) : c \o <<>> = c
    OBVIOUS
  <2> QED
    BY <1>1, <2>1, <2>2
<1> QED
  BY <1>4, <1>5, <1>6

\* A step that sends nothing keeps what was sent in order.
LEMMA OutStays ==
  ASSUME SentInOrder, UNCHANGED <<out, rest, given>>
  PROVE  SentInOrder'
<1>1. \A i \in Ids : Carried(i)' = Carried(i)
  BY DEF Carried
<1>2. \A k \in DOMAIN out : IsGood(out'[k])
  BY DEF SentInOrder
<1> QED
  BY <1>1, <1>2 DEF SentInOrder

\* A Disconnect carries nothing.
LEMMA HangingUpKeeps ==
  ASSUME SentInOrder, NEW i \in Byte, out' = Append(out, Frame(Disconnect, i, <<>>)),
         UNCHANGED <<rest, given>>
  PROVE  SentInOrder'
<1>1. <<>> \in Seq(Byte) /\ Len(<<>>) <= Longest /\ Disconnect \in Byte
  BY SizeAssumption, FieldsAreBytes DEF Longest, HeaderSize
<1>2. /\ out' \in Seq(Blocks) /\ \A k \in DOMAIN out' : IsGood(out'[k])
      /\ \A j \in Ids : Carried(j)' = Carried(j)
  BY <1>1, SendsGood, CommandsDiffer
<1>3. \A k \in DOMAIN out' : IsGood(out'[k])
  BY <1>2
<1> QED
  BY <1>2, <1>3 DEF SentInOrder

\* A block from the line is answered with a Disconnect or not at all.
LEMMA ReceivedKeeps ==
  ASSUME SentInOrder, NEW b, Received(b), Passes(b) => b \in Blocks
  PROVE  SentInOrder'
<1>1. CASE ~Passes(b)
  BY <1>1, OutStays DEF Received
<1>2. CASE Passes(b)
  <2>1. Dispatch(b) /\ UNCHANGED <<rest, given>>
    BY <1>2 DEF Received
  <2>2. CASE out' = Append(out, Refusal(b))
    <3>1. b[2] \in Byte
      <4>1. b \in Seq(Byte) /\ Len(b) >= 5 /\ Len(b) \in Nat
        BY <1>2 DEF Blocks, HeaderSize
      <4> QED
        BY <4>1
    <3> QED
      BY <2>1, <2>2, <3>1, HangingUpKeeps DEF Refusal
  <2>3. CASE out' = out
    BY <2>1, <2>3, OutStays
  <2> QED
    BY <2>1, <2>2, <2>3 DEF Dispatch
<1> QED
  BY <1>1, <1>2

\* TLS starts to write, with nothing left of the last call.
LEMMA WriteKeeps ==
  ASSUME SentInOrder, NEW i \in Ids, Write(i)
  PROVE  SentInOrder'
<1>1. PICK w \in Writes : rest' = [rest EXCEPT ![i] = w] /\ given' = [given EXCEPT ![i] = @ \o w]
  BY DEF Write
<1>2. w \in Seq(Byte) /\ rest[i] = <<>> /\ out' = out
  BY DataAssumption DEF Write
<1>3. rest \in [Ids -> Seq(Byte)] /\ given \in [Ids -> Seq(Byte)] /\ given[i] \in Seq(Byte)
  BY DEF SentInOrder
<1>4. rest' \in [Ids -> Seq(Byte)] /\ given' \in [Ids -> Seq(Byte)]
  <2>1. given[i] \o w \in Seq(Byte)
    BY <1>2, <1>3, Joined
  <2> QED
    BY <1>1, <1>2, <1>3, <2>1
<1>5. ASSUME NEW j \in Ids PROVE (Carried(j) \o rest[j])' = given'[j]
  <2>1. Carried(j)' = Carried(j)
    BY <1>2 DEF Carried
  <2>2. Carried(j) \o rest[j] = given[j]
    BY DEF SentInOrder
  <2>3. CASE j # i
    BY <1>1, <1>3, <2>1, <2>2, <2>3
  <2>4. CASE j = i
    <3>1. Carried(i) \in Seq(Byte)
      <4>1. out \in Seq(Blocks)
        BY DEF SentInOrder
      <4> QED
        BY <4>1, CarriedType
    <3>2. Carried(i) \o <<>> = Carried(i)
      BY <3>1
    <3>3. given[i] = Carried(i)
      BY <1>2, <2>2, <2>4, <3>2
    <3> QED
      BY <1>1, <1>3, <2>1, <2>4, <3>3
  <2> QED
    BY <2>3, <2>4
<1>6. \A k \in DOMAIN out : IsGood(out'[k])
  BY <1>2 DEF SentInOrder
<1> QED
  BY <1>2, <1>4, <1>5, <1>6 DEF SentInOrder

\* What is cut in two is put together again.
LEMMA Split ==
  ASSUME NEW b \in Seq(Byte), NEW n \in 0 .. Len(b)
  PROVE  /\ SubSeq(b, 1, n) \in Seq(Byte) /\ Len(SubSeq(b, 1, n)) = n
         /\ SubSeq(b, n + 1, Len(b)) \in Seq(Byte)
         /\ \A c \in Seq(Byte) : (c \o SubSeq(b, 1, n)) \o SubSeq(b, n + 1, Len(b)) = c \o b
<1> DEFINE p == SubSeq(b, 1, n)
           q == SubSeq(b, n + 1, Len(b))
<1>1. Len(b) \in Nat /\ n \in Nat /\ \A k \in 1 .. Len(b) : b[k] \in Byte
  OBVIOUS
<1>2. p \in Seq(Byte) /\ Len(p) = n /\ \A k \in 1 .. n : p[k] = b[k]
  BY <1>1
<1>3. q \in Seq(Byte) /\ Len(q) = Len(b) - n /\ \A k \in 1 .. Len(b) - n : q[k] = b[n + k]
  BY <1>1
<1> HIDE DEF p, q
<1>4. p \o q = b
  <2>1. /\ p \o q \in Seq(Byte) /\ Len(p \o q) = n + (Len(b) - n)
        /\ \A k \in 1 .. n : (p \o q)[k] = p[k]
        /\ \A k \in 1 .. Len(b) - n : (p \o q)[n + k] = q[k]
    BY <1>2, <1>3, Joined
  <2>2. ASSUME NEW k \in 1 .. Len(b) PROVE (p \o q)[k] = b[k]
    <3>1. CASE k <= n
      <4>1. k \in 1 .. n
        BY <1>1, <3>1
      <4> QED
        BY <1>2, <2>1, <4>1
    <3>2. CASE ~(k <= n)
      <4>1. k - n \in 1 .. Len(b) - n /\ n + (k - n) = k
        BY <1>1, <3>2
      <4>2. (p \o q)[n + (k - n)] = q[k - n] /\ q[k - n] = b[n + (k - n)]
        BY <1>3, <2>1, <4>1
      <4> QED
        BY <4>1, <4>2
    <3> QED
      BY <3>1, <3>2
  <2>3. n + (Len(b) - n) = Len(b)
    BY <1>1
  <2> QED
    BY <2>1, <2>2, <2>3, SeqEqual
<1>5. \A c \in Seq(Byte) : (c \o p) \o q = c \o (p \o q)
  BY <1>2, <1>3, ConcatAssociative
<1> QED
  BY <1>2, <1>3, <1>4, <1>5 DEF p, q

\* slip_sock_send moves the beginning of the rest into a frame.
LEMMA SendKeeps ==
  ASSUME SentInOrder, NEW i \in Ids, SlipSockSend(i)
  PROVE  SentInOrder'
<1> DEFINE n == IF Len(rest[i]) < Longest THEN Len(rest[i]) ELSE Longest
           p == SubSeq(rest[i], 1, n)
           q == SubSeq(rest[i], n + 1, Len(rest[i]))
<1>1. /\ out' = Append(out, Frame(Data, i, p)) /\ rest' = [rest EXCEPT ![i] = q]
      /\ given' = given
  BY DEF SlipSockSend
<1>2. /\ rest \in [Ids -> Seq(Byte)] /\ rest[i] \in Seq(Byte) /\ out \in Seq(Blocks)
      /\ given \in [Ids -> Seq(Byte)]
  BY DEF SentInOrder
<1>3. Longest \in Nat
  BY SizeAssumption DEF Longest, HeaderSize
<1>4. n \in 0 .. Len(rest[i]) /\ n <= Longest
  BY <1>2, <1>3
<1> HIDE DEF n
<1>5. /\ p \in Seq(Byte) /\ Len(p) = n /\ q \in Seq(Byte)
      /\ \A c \in Seq(Byte) : (c \o p) \o q = c \o rest[i]
  BY <1>2, <1>4, Split
<1> HIDE DEF p, q
<1>6. /\ out' \in Seq(Blocks) /\ \A k \in DOMAIN out' : IsGood(out'[k])
      /\ \A j \in Ids : /\ Carried(j) \in Seq(Byte)
                        /\ Carried(j)' = IF i = j THEN Carried(j) \o p ELSE Carried(j)
  <2>1. Data \in Byte /\ i \in Byte /\ Len(p) <= Longest
    BY <1>4, <1>5, FieldsAreBytes, DataAssumption
  <2> QED
    BY <1>1, <1>5, <2>1, SendsGood
<1>7. rest' \in [Ids -> Seq(Byte)]
  BY <1>1, <1>2, <1>5
<1>8. ASSUME NEW j \in Ids PROVE (Carried(j) \o rest[j])' = given'[j]
  <2>1. Carried(j) \o rest[j] = given[j]
    BY DEF SentInOrder
  <2>2. rest'[j] = IF j = i THEN q ELSE rest[j]
    BY <1>1, <1>2
  <2>3. Carried(j)' = IF i = j THEN Carried(j) \o p ELSE Carried(j)
    BY <1>6
  <2>4. Carried(j)' \o rest'[j] = given[j]
    BY <1>5, <1>6, <2>1, <2>2, <2>3
  <2> QED
    BY <1>1, <2>4
<1>9. \A k \in DOMAIN out' : IsGood(out'[k])
  BY <1>6
<1> QED
  BY <1>1, <1>2, <1>6, <1>7, <1>8, <1>9 DEF SentInOrder

\* Whatever TLS writes and however slip_sock_send has to cut it into blocks:
\* every frame handed to SU_Send fits a block, states its length and passes
\* the check at the other end, and the frames of a connection with what is
\* still to be handed over are what TLS wrote.
THEOREM WritesAreSent == Spec => []SentIsWhatWasWritten
<1>1. Init => SentInOrder
  <2> SUFFICES ASSUME Init PROVE SentInOrder
    OBVIOUS
  <2>1. out = <<>> /\ \A i \in Ids : rest[i] = <<>> /\ given[i] = <<>>
    BY DEF Init
  <2>2. out \in Seq(Blocks) /\ DOMAIN out = {}
    BY <2>1
  <2>3. rest \in [Ids -> Seq(Byte)] /\ given \in [Ids -> Seq(Byte)]
    BY DEF Init
  <2>4. \A i \in Ids : Carried(i) = <<>>
    <3>1. \A i : Carried(i) = FlattenSeq([k \in DOMAIN out |-> IF out[k][1] = Data /\ out[k][2] = i THEN Payload(out[k]) ELSE <<>>])
      BY DEF Carried
    <3>2. \A i : [k \in DOMAIN out |-> IF out[k][1] = Data /\ out[k][2] = i THEN Payload(out[k]) ELSE <<>>] = <<>>
      BY <2>1
    <3>3. <<>> \in Seq(Seq(Byte)) /\ Len(<<>>) = 0
      OBVIOUS
    <3>4. FlattenSeq(<<>>) = <<>>
      BY <3>3, FlattenIs
    <3> QED
      BY <3>1, <3>2, <3>4
  <2> QED
    BY <2>1, <2>2, <2>3, <2>4 DEF SentInOrder
<1>2. ASSUME SentInOrder, [Next]_vars
      PROVE  SentInOrder'
  <2>1. CASE UNCHANGED vars
    BY <1>2, <2>1, OutStays DEF vars
  <2>2. ASSUME NEW m \in Messages, Whole(m)
        PROVE  SentInOrder'
    <3>1. Received(FrameOf(m)) /\ FrameOf(m) \in Blocks
      BY <2>2, MessagesAre DEF Whole
    <3> QED
      BY <1>2, <3>1, ReceivedKeeps
  <2>3. ASSUME NEW m \in Messages, Damaged(m)
        PROVE  SentInOrder'
    <3>1. PICK e \in Errors, k \in 1 .. Len(FrameOf(m)) - 1 : Received(Changed(FrameOf(m), k, e))
      BY <2>3 DEF Damaged
    <3>2. e \in Byte \X Byte /\ e # <<{}, {}>>
      BY DataAssumption
    <3>3. ~Passes(Changed(FrameOf(m), k, e))
      BY <3>2, FramePasses, DamagedFails
    <3> QED
      BY <1>2, <3>1, <3>3, ReceivedKeeps
  <2>4. ASSUME NEW m \in Messages, NEW n \in Messages, Merged(m, n)
        PROVE  SentInOrder'
    <3>1. ~Passes(FrameOf(m) \o FrameOf(n))
      BY FramePasses, MergedFails
    <3>2. Received(FrameOf(m) \o FrameOf(n))
      BY <2>4 DEF Merged
    <3> QED
      BY <1>2, <3>1, <3>2, ReceivedKeeps
  <2>5. ASSUME NEW i \in Ids, Client(i)
        PROVE  SentInOrder'
    <3>1. CASE RecvCall(i) \/ RecvGet(i) \/ RecvCopy(i)
      BY <1>2, <3>1, OutStays DEF RecvCall, RecvGet, RecvCopy
    <3>2. CASE SlipSockClose(i)
      <4>1. out' = Append(out, Frame(Disconnect, i, <<>>)) /\ UNCHANGED <<rest, given>> /\ i \in Byte
        BY <3>2, DataAssumption DEF SlipSockClose
      <4> QED
        BY <1>2, <4>1, HangingUpKeeps
    <3> QED
      BY <1>2, <2>5, <3>1, <3>2, WriteKeeps, SendKeeps DEF Client
  <2> QED
    BY <1>2, <2>1, <2>2, <2>3, <2>4, <2>5 DEF Next, Peer
<1>3. SentInOrder => SentIsWhatWasWritten
  BY DEF SentInOrder, SentIsWhatWasWritten, IsGood
<1> QED
  BY <1>1, <1>2, <1>3, PTL DEF Spec

-----------------------------------------------------------------------------
(***************************************************************************)
(* The invariant behind ByteStream.  The bytes of a connection lie in one  *)
(* row: what has been read, what is left of the block in hand, and the     *)
(* payloads of the queued blocks.  off[k] is how far the row reaches with  *)
(* the first k blocks of the queue: the last is the end of what was sent.  *)
(***************************************************************************)
Types ==
  /\ open \subseteq Ids
  /\ queue \in [Ids -> Seq(Blocks)]
  /\ block \in [Ids -> Blocks \cup {<<>>}]
  /\ pos \in [Ids -> Nat] /\ left \in [Ids -> Nat]
  /\ sent \in [Ids -> Seq(Byte)] /\ got \in [Ids -> Seq(Byte)]
  /\ whole \in Seq(Blocks)

\* The bytes b stand in s behind the first n.
LiesAt(b, s, n) == \A k \in 1 .. Len(b) : s[n + k] = b[k]

InBlock(i) == IF block[i] = <<>> THEN 0 ELSE PayloadSize(block[i]) - pos[i]

\* What was read is a beginning of what was sent.
ReadInOrder(i) == Len(got[i]) <= Len(sent[i]) /\ LiesAt(got[i], sent[i], 0)

\* The block in hand goes on where the reader is.
HandInOrder(i) ==
  block[i] # <<>> =>
    /\ pos[i] <= PayloadSize(block[i]) /\ pos[i] <= Len(got[i])
    /\ LiesAt(Payload(block[i]), sent[i], Len(got[i]) - pos[i])

\* The blocks of q fill s from n to its end.
Fills(q, s, n) ==
  \E off \in [0 .. Len(q) -> 0 .. Len(s)] :
    /\ off[0] = n /\ off[Len(q)] = Len(s)
    /\ \A k \in 1 .. Len(q) : /\ off[k] = off[k - 1] + PayloadSize(q[k])
                             /\ LiesAt(Payload(q[k]), s, off[k - 1])

QueueInOrder(i) == Fills(queue[i], sent[i], Len(got[i]) + InBlock(i))

Row(i) == ReadInOrder(i) /\ HandInOrder(i) /\ QueueInOrder(i)

\* A reader has a socket, and the socket's bytes lie in order.
Rows ==
  /\ \A i \in Ids : left[i] > 0 => i \in open
  /\ \A i \in open : Row(i)

IInv == Types /\ Rows

\* The invariant holds at the start.
LEMMA InitRows == Init => IInv
<1> SUFFICES ASSUME Init PROVE IInv
  OBVIOUS
<1>1. <<>> \in Seq(Byte) /\ <<>> \in Seq(Blocks)
  OBVIOUS
<1> QED
  BY <1>1 DEF Init, IInv, Types, Rows

-----------------------------------------------------------------------------
(***************************************************************************)
(* Rows of blocks                                                          *)
(***************************************************************************)

\* What stands in s stands there still when s goes on.
LEMMA StillLies ==
  ASSUME NEW s \in Seq(Byte), NEW t \in Seq(Byte), NEW b \in Seq(Byte), NEW n \in Nat,
         n + Len(b) <= Len(s), LiesAt(b, s, n)
  PROVE  LiesAt(b, s \o t, n)
<1>1. Len(s) \in Nat /\ Len(b) \in Nat /\ \A k \in 1 .. Len(s) : (s \o t)[k] = s[k]
  BY Joined
<1>2. \A k \in 1 .. Len(b) : n + k \in 1 .. Len(s)
  BY <1>1
<1> QED
  BY <1>1, <1>2 DEF LiesAt

\* A block that comes goes on where the queue ends.
LEMMA FillsAppend ==
  ASSUME NEW q \in Seq(Blocks), NEW s \in Seq(Byte), NEW n \in Nat, Fills(q, s, n), NEW b \in Blocks
  PROVE  Fills(Append(q, b), s \o Payload(b), n)
<1>1. PICK off \in [0 .. Len(q) -> 0 .. Len(s)] :
        /\ off[0] = n /\ off[Len(q)] = Len(s)
        /\ \A k \in 1 .. Len(q) : /\ off[k] = off[k - 1] + PayloadSize(q[k])
                                 /\ LiesAt(Payload(q[k]), s, off[k - 1])
  BY DEF Fills
<1> DEFINE t == Payload(b)
           r == Append(q, b)
           now == [k \in 0 .. Len(r) |-> IF k = Len(r) THEN Len(s) + Len(t) ELSE off[k]]
<1>2. /\ t \in Seq(Byte) /\ Len(t) = PayloadSize(b) /\ Len(t) \in Nat
      /\ s \o t \in Seq(Byte) /\ Len(s \o t) = Len(s) + Len(t) /\ Len(s) \in Nat
      /\ LiesAt(t, s \o t, Len(s))
  BY PayloadIs, Joined DEF LiesAt
<1>3. /\ Len(r) = Len(q) + 1 /\ Len(q) \in Nat
      /\ \A k \in 1 .. Len(q) : r[k] = q[k]
      /\ r[Len(q) + 1] = b
  BY AppendProperties
<1> HIDE DEF t, r
<1>4. now \in [0 .. Len(r) -> 0 .. Len(s \o t)]
  BY <1>1, <1>2, <1>3
<1>5. now[0] = n /\ now[Len(r)] = Len(s \o t)
  BY <1>1, <1>2, <1>3
<1>6. ASSUME NEW k \in 1 .. Len(r)
      PROVE  now[k] = now[k - 1] + PayloadSize(r[k]) /\ LiesAt(Payload(r[k]), s \o t, now[k - 1])
  <2>1. CASE k = Len(r)
    <3>1. now[k] = Len(s) + Len(t) /\ now[k - 1] = Len(s) /\ r[k] = b
      BY <1>1, <1>2, <1>3, <2>1
    <3> QED
      BY <1>2, <3>1 DEF t
  <2>2. CASE k \in 1 .. Len(q)
    <3>1. now[k] = off[k] /\ now[k - 1] = off[k - 1] /\ r[k] = q[k] /\ q[k] \in Blocks
      BY <1>1, <1>3, <2>2
    <3>2. /\ off[k] = off[k - 1] + PayloadSize(q[k]) /\ LiesAt(Payload(q[k]), s, off[k - 1])
          /\ off[k] \in 0 .. Len(s) /\ off[k - 1] \in 0 .. Len(s)
      BY <1>1, <1>3, <2>2, SMTT(30)
    <3>3. Payload(q[k]) \in Seq(Byte) /\ off[k - 1] + Len(Payload(q[k])) <= Len(s)
      BY <1>2, <3>1, <3>2, PayloadIs
    <3> QED
      BY <1>2, <3>1, <3>2, <3>3, StillLies
  <2> QED
    BY <1>3, <2>1, <2>2
<1> QED
  BY <1>4, <1>5, <1>6 DEF Fills, t, r

\* The first block of the queue is the next in the row.
LEMMA FillsTail ==
  ASSUME NEW q \in Seq(Blocks), NEW s \in Seq(Byte), NEW n \in Nat, Fills(q, s, n), q # <<>>
  PROVE  /\ Head(q) \in Blocks /\ Tail(q) \in Seq(Blocks)
         /\ LiesAt(Payload(Head(q)), s, n) /\ n + PayloadSize(Head(q)) <= Len(s)
         /\ Fills(Tail(q), s, n + PayloadSize(Head(q)))
<1>1. PICK off \in [0 .. Len(q) -> 0 .. Len(s)] :
        /\ off[0] = n /\ off[Len(q)] = Len(s)
        /\ \A k \in 1 .. Len(q) : /\ off[k] = off[k - 1] + PayloadSize(q[k])
                                 /\ LiesAt(Payload(q[k]), s, off[k - 1])
  BY DEF Fills
<1> DEFINE r == Tail(q)
           now == [k \in 0 .. Len(r) |-> off[k + 1]]
<1>2. /\ Head(q) = q[1] /\ Head(q) \in Blocks /\ r \in Seq(Blocks)
      /\ Len(q) \in Nat \ {0} /\ Len(r) = Len(q) - 1
      /\ \A k \in 1 .. Len(r) : r[k] = q[k + 1]
  BY HeadTailProperties
<1> HIDE DEF r
<1>3. 1 \in 1 .. Len(q) /\ 1 \in 0 .. Len(q) /\ 1 - 1 = 0 /\ Len(s) \in Nat
  BY <1>2
<1>4. off[1] = n + PayloadSize(q[1]) /\ LiesAt(Payload(q[1]), s, n) /\ off[1] \in 0 .. Len(s)
  BY <1>1, <1>3
<1>5. now \in [0 .. Len(r) -> 0 .. Len(s)]
  <2>1. \A k \in 0 .. Len(r) : k + 1 \in 0 .. Len(q)
    BY <1>2
  <2> QED
    BY <1>1, <2>1
<1>6. now[0] = off[1] /\ now[Len(r)] = Len(s)
  BY <1>1, <1>2
<1>7. ASSUME NEW k \in 1 .. Len(r)
      PROVE  now[k] = now[k - 1] + PayloadSize(r[k]) /\ LiesAt(Payload(r[k]), s, now[k - 1])
  <2>1. k + 1 \in 1 .. Len(q) /\ (k + 1) - 1 = (k - 1) + 1 /\ k - 1 \in 0 .. Len(r) /\ k \in 0 .. Len(r)
    BY <1>2
  <2>2. now[k] = off[k + 1] /\ now[k - 1] = off[(k + 1) - 1] /\ r[k] = q[k + 1]
    BY <1>2, <2>1
  <2> QED
    BY <1>1, <2>1, <2>2
<1>8. Fills(r, s, off[1])
  BY <1>5, <1>6, <1>7 DEF Fills
<1> QED
  BY <1>2, <1>3, <1>4, <1>8 DEF r

\* An empty queue.
LEMMA FillsNone ==
  ASSUME NEW s \in Seq(Byte)
  PROVE  Fills(<<>>, s, Len(s))
<1> DEFINE off == [k \in 0 .. 0 |-> Len(s)]
<1>1. Len(s) \in Nat /\ Len(<<>>) = 0
  OBVIOUS
<1>2. off \in [0 .. 0 -> 0 .. Len(s)] /\ off[0] = Len(s)
  BY <1>1
<1> HIDE DEF off
<1> QED
  BY <1>1, <1>2 DEF Fills

\* The row in numbers: the reader, the block in hand, the end.
LEMMA RowFacts ==
  ASSUME Types, NEW i \in Ids, Row(i)
  PROVE  /\ queue[i] \in Seq(Blocks) /\ sent[i] \in Seq(Byte) /\ got[i] \in Seq(Byte)
         /\ Len(sent[i]) \in Nat /\ Len(got[i]) \in Nat /\ pos[i] \in Nat
         /\ InBlock(i) \in Nat /\ Len(got[i]) + InBlock(i) <= Len(sent[i])
         /\ block[i] # <<>> => /\ block[i] \in Blocks
                               /\ Payload(block[i]) \in Seq(Byte)
                               /\ Len(Payload(block[i])) = PayloadSize(block[i])
                               /\ PayloadSize(block[i]) \in Nat
                               /\ pos[i] <= PayloadSize(block[i]) /\ pos[i] <= Len(got[i])
                               /\ InBlock(i) = PayloadSize(block[i]) - pos[i]
<1>1. /\ queue[i] \in Seq(Blocks) /\ sent[i] \in Seq(Byte) /\ got[i] \in Seq(Byte)
      /\ pos[i] \in Nat /\ block[i] \in Blocks \cup {<<>>}
  BY DEF Types
<1>2. block[i] # <<>> => /\ block[i] \in Blocks
                        /\ Payload(block[i]) \in Seq(Byte)
                        /\ Len(Payload(block[i])) = PayloadSize(block[i])
                        /\ PayloadSize(block[i]) \in Nat
                        /\ pos[i] <= PayloadSize(block[i]) /\ pos[i] <= Len(got[i])
  BY <1>1, PayloadIs DEF Row, HandInOrder
<1>3. Len(sent[i]) \in Nat /\ Len(got[i]) \in Nat
  BY <1>1
<1>4. InBlock(i) \in Nat /\ (block[i] # <<>> => InBlock(i) = PayloadSize(block[i]) - pos[i])
  BY <1>1, <1>2 DEF InBlock
<1>5. PICK off \in [0 .. Len(queue[i]) -> 0 .. Len(sent[i])] : off[0] = Len(got[i]) + InBlock(i)
  BY DEF Row, QueueInOrder, Fills
<1>6. 0 \in 0 .. Len(queue[i])
  BY <1>1
<1>7. Len(got[i]) + InBlock(i) \in 0 .. Len(sent[i])
  BY <1>5, <1>6
<1> QED
  BY <1>1, <1>2, <1>3, <1>4, <1>7

-----------------------------------------------------------------------------
(***************************************************************************)
(* What the peer does                                                      *)
(***************************************************************************)

\* The check lets through what came whole and nothing else.
LEMMA OnlyWholePass ==
  ASSUME Types, AcceptedWereSent, AcceptedWereSent', NEW b, Received(b)
  PROVE  /\ UNCHANGED whole => UNCHANGED <<sockVars, out>>
         /\ whole' = Append(whole, b) => Dispatch(b)
<1>1. Append(whole, b) # whole
  <2>1. whole \in Seq(Blocks \cup {b}) /\ b \in Blocks \cup {b}
    BY DEF Types
  <2>2. Len(Append(whole, b)) = Len(whole) + 1 /\ Len(whole) \in Nat
    BY <2>1, AppendProperties
  <2> QED
    BY <2>2
<1>2. accepted = whole /\ accepted' = whole'
  BY DEF AcceptedWereSent
<1>3. CASE Passes(b)
  <2>1. accepted' = Append(accepted, b) /\ Dispatch(b)
    BY <1>3 DEF Received
  <2> QED
    BY <1>1, <1>2, <2>1
<1>4. CASE ~Passes(b)
  <2>1. accepted' = accepted /\ UNCHANGED <<sockVars, out>>
    BY <1>4 DEF Received
  <2> QED
    BY <1>1, <1>2, <2>1
<1> QED
  BY <1>3, <1>4

\* A socket of which nothing changes stays in order.
LEMMA RowStays ==
  ASSUME NEW i \in Ids, Row(i),
         queue'[i] = queue[i], block'[i] = block[i], pos'[i] = pos[i],
         sent'[i] = sent[i], got'[i] = got[i]
  PROVE  Row(i)'
BY DEF Row, ReadInOrder, HandInOrder, QueueInOrder, InBlock

\* A new connection has nothing in its row.
LEMMA RowStarts ==
  ASSUME NEW i \in Ids, queue'[i] = <<>>, block'[i] = <<>>, sent'[i] = <<>>, got'[i] = <<>>
  PROVE  Row(i)'
<1>1. <<>> \in Seq(Byte) /\ Len(<<>>) = 0
  OBVIOUS
<1>2. InBlock(i)' = 0
  BY DEF InBlock
<1>3. Fills(<<>>, <<>>, 0)
  BY <1>1, FillsNone
<1>4. Len(got'[i]) + InBlock(i)' = 0
  BY <1>1, <1>2
<1>5. QueueInOrder(i)'
  BY <1>3, <1>4 DEF QueueInOrder
<1> QED
  BY <1>1, <1>5 DEF Row, ReadInOrder, HandInOrder, LiesAt

\* A block that comes for an open socket.
LEMMA RowGrows ==
  ASSUME Types, NEW i \in Ids, Row(i), NEW b \in Blocks,
         queue'[i] = Append(queue[i], b), sent'[i] = sent[i] \o Payload(b),
         block'[i] = block[i], pos'[i] = pos[i], got'[i] = got[i]
  PROVE  Row(i)'
<1>1. Payload(b) \in Seq(Byte)
  BY PayloadIs
<1>2. InBlock(i)' = InBlock(i)
  BY DEF InBlock
<1>3. QueueInOrder(i)'
  <2>1. Fills(queue[i], sent[i], Len(got[i]) + InBlock(i))
    BY DEF Row, QueueInOrder
  <2>2. Len(got[i]) + InBlock(i) \in Nat
    BY RowFacts
  <2>3. Fills(queue'[i], sent'[i], Len(got[i]) + InBlock(i))
    BY <2>1, <2>2, FillsAppend, RowFacts
  <2> QED
    BY <1>2, <2>3 DEF QueueInOrder
<1>4. ReadInOrder(i)'
  <2>1. LiesAt(got[i], sent[i], 0) /\ 0 + Len(got[i]) <= Len(sent[i])
    BY RowFacts DEF Row, ReadInOrder
  <2>2. LiesAt(got[i], sent[i] \o Payload(b), 0)
    BY <1>1, <2>1, StillLies, RowFacts
  <2>3. Len(sent[i] \o Payload(b)) = Len(sent[i]) + Len(Payload(b)) /\ Len(Payload(b)) \in Nat
    BY <1>1, Joined, RowFacts
  <2>4. Len(got[i]) <= Len(sent[i] \o Payload(b))
    BY <2>1, <2>3, RowFacts
  <2> QED
    BY <2>2, <2>4 DEF ReadInOrder
<1>5. HandInOrder(i)'
  <2>1. SUFFICES ASSUME block[i] # <<>>
                 PROVE  LiesAt(Payload(block[i]), sent[i] \o Payload(b), Len(got[i]) - pos[i])
    BY DEF HandInOrder, Row
  <2>2. LiesAt(Payload(block[i]), sent[i], Len(got[i]) - pos[i])
    BY <2>1 DEF Row, HandInOrder
  <2>3. /\ Len(got[i]) - pos[i] \in Nat
        /\ (Len(got[i]) - pos[i]) + Len(Payload(block[i])) <= Len(sent[i])
    BY <2>1, RowFacts
  <2>4. Payload(block[i]) \in Seq(Byte) /\ sent[i] \in Seq(Byte)
    BY <2>1, RowFacts
  <2> QED
    BY <1>1, <2>2, <2>3, <2>4, StillLies
<1> QED
  BY <1>3, <1>4, <1>5 DEF Row

\* n elements of s behind the first m.
LEMMA Cut ==
  ASSUME NEW s \in Seq(Byte), NEW m \in Nat, NEW n \in Nat, m + n <= Len(s)
  PROVE  /\ SubSeq(s, m + 1, m + n) \in Seq(Byte) /\ Len(SubSeq(s, m + 1, m + n)) = n
         /\ \A k \in 1 .. n : SubSeq(s, m + 1, m + n)[k] = s[m + k]
<1>1. PICK a \in Int, b \in Int : a = m + 1 /\ b = m + n
  OBVIOUS
<1>2. \A k \in a .. b : s[k] \in Byte
  BY <1>1
<1>3. /\ SubSeq(s, a, b) \in Seq(Byte)
      /\ Len(SubSeq(s, a, b)) = IF a <= b THEN (b - a) + 1 ELSE 0
      /\ \A k \in 1 .. (b - a) + 1 : SubSeq(s, a, b)[k] = s[(a + k) - 1]
  BY <1>2, SubSeqProperties
<1>4. (b - a) + 1 = n /\ \A k \in 1 .. n : (a + k) - 1 = m + k
  BY <1>1
<1>5. Len(SubSeq(s, a, b)) = n
  BY <1>1, <1>3, <1>4
<1> QED
  BY <1>1, <1>3, <1>4, <1>5

\* s is a beginning of t.
LEMMA Beginning ==
  ASSUME NEW s \in Seq(Byte), NEW t \in Seq(Byte), Len(s) <= Len(t),
         \A k \in 1 .. Len(s) : t[k] = s[k]
  PROVE  IsPrefix(s, t) /\ (Len(s) # Len(t) => IsStrictPrefix(s, t))
<1>1. /\ SubSeq(s, 1, Len(s)) = s
      /\ SubSeq(t, 1, Len(s)) \in Seq(Byte) /\ Len(SubSeq(t, 1, Len(s))) = Len(s)
      /\ \A k \in 1 .. Len(s) : SubSeq(t, 1, Len(s))[k] = t[k]
  OBVIOUS
<1>2. SubSeq(t, 1, Len(s)) = s
  BY <1>1, SeqEqual
<1> QED
  BY <1>1, <1>2 DEF IsPrefix, IsStrictPrefix

\* slip_sock_free: the socket of i is closed, the others stay as they are.
LEMMA FreedKeeps ==
  ASSUME Types, Rows, NEW i \in Ids, Freed(i), UNCHANGED <<block, pos, sent, got>>, whole' \in Seq(Blocks)
  PROVE  IInv'
<1>1. <<>> \in Seq(Blocks)
  OBVIOUS
<1>2. Types'
  BY <1>1 DEF Types, Freed
<1>3. \A j \in open \ {i} : Row(j)'
  BY RowStays DEF Types, Rows, Freed
<1>4. \A j \in Ids : left'[j] > 0 => j \in open'
  BY DEF Types, Rows, Freed
<1> QED
  BY <1>2, <1>3, <1>4 DEF IInv, Rows, Freed

\* A frame that came whole: it opens, extends or ends a connection, or is
\* refused, and the row of every socket stays in order.
LEMMA WholeKeeps ==
  ASSUME IInv, AcceptedWereSent, AcceptedWereSent', NEW m \in Messages, Whole(m)
  PROVE  IInv' /\ (Stream!Next \/ UNCHANGED <<sent, got>>)
<1> DEFINE b == FrameOf(m)
           i == m.id
<1>1. /\ m.cmd \in {Connect, Data, Disconnect} /\ i \in Ids /\ m.payload \in Seq(Byte)
      /\ b \in Blocks /\ b[1] = m.cmd /\ b[2] = i /\ Payload(b) = m.payload
  BY MessagesAre
<1>2. Types /\ \A j \in Ids : (left[j] > 0 => j \in open) /\ (j \in open => Row(j))
  BY DEF IInv, Rows
<1>3. Dispatch(b) /\ whole' = Append(whole, b)
  BY <1>2, OnlyWholePass DEF Whole
<1>4. whole' \in Seq(Blocks)
  BY <1>1, <1>2, <1>3, AppendProperties DEF Types
<1> HIDE DEF b, i
<1>5. CASE m.cmd = Connect /\ CanOpen(i)
  <2>1. /\ open' = open \cup {i}
        /\ queue' = [queue EXCEPT ![i] = <<>>]
        /\ block' = [block EXCEPT ![i] = <<>>] /\ pos' = [pos EXCEPT ![i] = 0]
        /\ UNCHANGED left
    BY <1>1, <1>3, <1>5, CommandsDiffer DEF Dispatch
  <2>2. sent' = [sent EXCEPT ![i] = <<>>] /\ got' = [got EXCEPT ![i] = <<>>]
    BY <1>5, CommandsDiffer DEF Whole, i
  <2>3. <<>> \in Seq(Byte) /\ <<>> \in Seq(Blocks)
    OBVIOUS
  <2>4. Types'
    BY <1>1, <1>2, <1>4, <2>1, <2>2, <2>3 DEF Types
  <2>5. Row(i)'
    BY <1>1, <1>2, <2>1, <2>2, RowStarts DEF Types
  <2>6. \A j \in open \ {i} : Row(j)'
    BY <1>1, <1>2, <2>1, <2>2, RowStays DEF Types
  <2>7. \A j \in Ids : left'[j] > 0 => j \in open'
    BY <1>2, <2>1
  <2>8. Stream!Next
    BY <1>1, <2>2 DEF Stream!Next, Stream!Reopen
  <2> QED
    BY <2>1, <2>4, <2>5, <2>6, <2>7, <2>8 DEF IInv, Rows
<1>6. CASE m.cmd = Data /\ i \in open
  <2>1. queue' = [queue EXCEPT ![i] = Append(@, b)] /\ UNCHANGED <<open, block, pos, left>>
    BY <1>1, <1>3, <1>6, CommandsDiffer DEF Dispatch
  <2>2. sent' = [sent EXCEPT ![i] = @ \o Payload(b)] /\ UNCHANGED got
    BY <1>1, <1>6, CommandsDiffer DEF Whole, i
  <2>3. /\ queue[i] \in Seq(Blocks) /\ sent[i] \in Seq(Byte)
        /\ Append(queue[i], b) \in Seq(Blocks) /\ Payload(b) \in Seq(Byte)
        /\ sent[i] \o Payload(b) \in Seq(Byte)
        /\ Len(sent[i]) \in Nat /\ Len(Payload(b)) \in Nat
        /\ Len(sent[i] \o Payload(b)) = Len(sent[i]) + Len(Payload(b))
        /\ \A k \in 1 .. Len(sent[i]) : (sent[i] \o Payload(b))[k] = sent[i][k]
    <3>1. queue[i] \in Seq(Blocks) /\ sent[i] \in Seq(Byte) /\ Payload(b) \in Seq(Byte)
      BY <1>1, <1>2 DEF Types
    <3> QED
      BY <1>1, <3>1, AppendProperties, Joined
  <2>4. Types'
    BY <1>1, <1>2, <1>4, <2>1, <2>2, <2>3 DEF Types
  <2>5. Row(i)'
    BY <1>1, <1>2, <1>6, <2>1, <2>2, RowGrows DEF Types
  <2>6. \A j \in open \ {i} : Row(j)'
    BY <1>1, <1>2, <2>1, <2>2, RowStays DEF Types
  <2>7. IInv'
    BY <1>2, <2>1, <2>4, <2>5, <2>6 DEF IInv, Rows
  <2>8. CASE Len(Payload(b)) = 0
    <3>1. sent[i] \o Payload(b) = sent[i]
      BY <2>3, <2>8, SeqEqual
    <3>2. sent' = sent
      BY <1>2, <2>2, <3>1 DEF Types
    <3> QED
      BY <2>2, <2>7, <3>2
  <2>9. CASE Len(Payload(b)) > 0
    <3>1. sent'[i] = sent[i] \o Payload(b) /\ sent' = [sent EXCEPT ![i] = sent'[i]]
      BY <1>1, <1>2, <2>2 DEF Types
    <3>2. IsStrictPrefix(sent[i], sent'[i])
      <4> DEFINE t == sent[i] \o Payload(b)
      <4>1. /\ sent[i] \in Seq(Byte) /\ t \in Seq(Byte)
            /\ Len(sent[i]) <= Len(t) /\ Len(sent[i]) # Len(t)
            /\ \A k \in 1 .. Len(sent[i]) : t[k] = sent[i][k]
        BY <2>3, <2>9
      <4> HIDE DEF t
      <4>2. IsStrictPrefix(sent[i], t)
        BY <4>1, Beginning
      <4> QED
        BY <3>1, <4>2 DEF t
    <3>3. Stream!Send(i)
      BY <2>2, <3>1, <3>2 DEF Stream!Send, IsStrictPrefix, IsPrefix, Stream!IsStrictPrefix, Stream!IsPrefix
    <3> QED
      BY <1>1, <2>7, <3>3 DEF Stream!Next
  <2> QED
    BY <2>3, <2>8, <2>9
<1>7. CASE ~(m.cmd = Connect /\ CanOpen(i)) /\ ~(m.cmd = Data /\ i \in open)
  <2>1. UNCHANGED <<sent, got>>
    BY <1>7 DEF Whole, i
  <2>2. CASE UNCHANGED sockVars
    <3>1. Types'
      BY <1>2, <1>4, <2>1, <2>2 DEF Types, sockVars
    <3> QED
      BY <1>2, <2>1, <2>2, <3>1, RowStays DEF IInv, Rows, Types, sockVars
  <2>3. CASE Freed(i) /\ UNCHANGED <<block, pos>>
    <3>1. Types /\ Rows
      BY DEF IInv
    <3>2. IInv'
      BY <1>1, <1>4, <2>1, <2>3, <3>1, FreedKeeps
    <3> QED
      BY <2>1, <3>2
  <2>4. UNCHANGED sockVars \/ (Freed(i) /\ UNCHANGED <<block, pos>>)
    BY <1>1, <1>3, <1>7 DEF Dispatch
  <2> QED
    BY <2>1, <2>2, <2>3, <2>4
<1> QED
  BY <1>5, <1>6, <1>7

\* What comes damaged is dropped.
LEMMA DamagedKeeps ==
  ASSUME IInv, AcceptedWereSent, AcceptedWereSent', NEW b, Received(b), UNCHANGED <<whole, sent, got>>
  PROVE  IInv'
<1>1. Types /\ UNCHANGED sockVars
  BY OnlyWholePass DEF IInv
<1>2. Types'
  BY <1>1 DEF Types, sockVars
<1>3. \A i \in open : Row(i)'
  BY <1>1, RowStays DEF IInv, Rows, Types, sockVars
<1> QED
  BY <1>1, <1>2, <1>3 DEF IInv, Rows, sockVars

-----------------------------------------------------------------------------
(***************************************************************************)
(* What a client does                                                      *)
(***************************************************************************)

\* The next block of the queue comes into the reader's hand.
LEMMA RecvGetKeeps ==
  ASSUME IInv, NEW i \in Ids, RecvGet(i)
  PROVE  IInv'
<1>1. Types /\ i \in open /\ Row(i)
  BY DEF IInv, Rows, RecvGet
<1> DEFINE q == queue[i]
           h == Head(q)
<1>2. InBlock(i) = 0 /\ Fills(q, sent[i], Len(got[i]))
  <2>1. InBlock(i) = 0 /\ Len(got[i]) \in Nat
    BY <1>1, RowFacts DEF InBlock, RecvGet
  <2> QED
    BY <1>1, <2>1 DEF Row, QueueInOrder
<1>3. /\ h \in Blocks /\ Tail(q) \in Seq(Blocks)
      /\ LiesAt(Payload(h), sent[i], Len(got[i])) /\ Len(got[i]) + PayloadSize(h) <= Len(sent[i])
      /\ Fills(Tail(q), sent[i], Len(got[i]) + PayloadSize(h))
  <2>1. q # <<>>
    BY DEF RecvGet
  <2> QED
    BY <1>1, <1>2, <2>1, RowFacts, FillsTail
<1>4. h # <<>> /\ PayloadSize(h) \in Nat
  BY <1>3, PayloadIs DEF Blocks, HeaderSize
<1> HIDE DEF h
<1>5. block'[i] = h /\ pos'[i] = 0 /\ queue'[i] = Tail(q) /\ UNCHANGED <<open, left, sent, got>>
  BY <1>1 DEF RecvGet, Types, h
<1>6. Types'
  BY <1>1, <1>3 DEF Types, RecvGet, h
<1>7. Row(i)'
  <2>1. InBlock(i)' = PayloadSize(h) /\ Len(got[i]) - 0 = Len(got[i]) /\ Len(got[i]) \in Nat
    BY <1>1, <1>4, <1>5, RowFacts DEF InBlock
  <2>2. QueueInOrder(i)'
    BY <1>3, <1>5, <2>1 DEF QueueInOrder
  <2>3. HandInOrder(i)'
    BY <1>3, <1>4, <1>5, <2>1 DEF HandInOrder
  <2>4. ReadInOrder(i)'
    BY <1>1, <1>5 DEF Row, ReadInOrder
  <2> QED
    BY <2>2, <2>3, <2>4 DEF Row
<1>8. \A j \in open \ {i} : Row(j)'
  BY <1>1, RowStays DEF IInv, Rows, Types, RecvGet
<1> QED
  BY <1>5, <1>6, <1>7, <1>8 DEF IInv, Rows

\* What is left of the call or of the block goes on in the reader's bytes.
LEMMA RecvCopyKeeps ==
  ASSUME IInv, NEW i \in Ids, RecvCopy(i)
  PROVE  IInv' /\ (Stream!Next \/ UNCHANGED <<sent, got>>)
<1>1. Types /\ i \in open /\ Row(i) /\ block[i] # <<>>
  BY DEF IInv, Rows, RecvCopy
<1> DEFINE b == block[i]
           p == Payload(b)
           size == PayloadSize(b)
           n == IF left[i] < size - pos[i] THEN left[i] ELSE size - pos[i]
           piece == SubSeq(p, pos[i] + 1, pos[i] + n)
<1>2. /\ got' = [got EXCEPT ![i] = @ \o piece]
      /\ pos' = [pos EXCEPT ![i] = @ + n]
      /\ left' = [left EXCEPT ![i] = @ - n]
      /\ block' = IF pos[i] + n = size THEN [block EXCEPT ![i] = <<>>] ELSE block
      /\ UNCHANGED <<open, queue, whole, sent>>
  BY DEF RecvCopy
<1>3. /\ p \in Seq(Byte) /\ Len(p) = size /\ size \in Nat
      /\ pos[i] \in Nat /\ pos[i] <= size /\ pos[i] <= Len(got[i])
      /\ InBlock(i) = size - pos[i]
      /\ got[i] \in Seq(Byte) /\ sent[i] \in Seq(Byte) /\ left[i] \in Nat
      /\ Len(got[i]) \in Nat /\ Len(sent[i]) \in Nat
      /\ Len(got[i]) + (size - pos[i]) <= Len(sent[i])
  BY <1>1, RowFacts DEF Types
<1>4. n \in Nat /\ n <= size - pos[i] /\ n <= left[i]
  BY <1>3
<1> HIDE DEF n, p, size
<1>5. /\ piece \in Seq(Byte) /\ Len(piece) = n
      /\ \A k \in 1 .. n : piece[k] = p[pos[i] + k]
  <2>1. p \in Seq(Byte) /\ pos[i] \in Nat /\ n \in Nat /\ pos[i] + n <= Len(p)
    BY <1>3, <1>4
  <2> QED
    BY <2>1, Cut
<1> HIDE DEF piece
<1>6. /\ got[i] \o piece \in Seq(Byte) /\ Len(got[i] \o piece) = Len(got[i]) + n
      /\ \A k \in 1 .. Len(got[i]) : (got[i] \o piece)[k] = got[i][k]
      /\ \A k \in 1 .. n : (got[i] \o piece)[Len(got[i]) + k] = piece[k]
  BY <1>3, <1>5, Joined
<1>7. /\ got'[i] = got[i] \o piece /\ pos'[i] = pos[i] + n /\ left'[i] = left[i] - n
      /\ block'[i] = IF pos[i] + n = size THEN <<>> ELSE b
  BY <1>1, <1>2 DEF Types
<1>8. Types'
  <2>1. <<>> \in Blocks \cup {<<>>} /\ pos[i] + n \in Nat /\ left[i] - n \in Nat
    BY <1>3, <1>4
  <2>2. block' \in [Ids -> Blocks \cup {<<>>}]
    BY <1>1, <1>2, <2>1 DEF Types
  <2>3. pos' \in [Ids -> Nat] /\ left' \in [Ids -> Nat] /\ got' \in [Ids -> Seq(Byte)]
    BY <1>1, <1>2, <1>6, <2>1 DEF Types
  <2> QED
    BY <1>1, <1>2, <2>2, <2>3 DEF Types
<1>9. Len(got'[i]) = Len(got[i]) + n /\ Len(got'[i]) <= Len(sent[i])
  BY <1>3, <1>4, <1>6, <1>7
<1>10. \A k \in 1 .. Len(got'[i]) : got'[i][k] = sent[i][k]
  <2> TAKE k \in 1 .. Len(got'[i])
  <2>1. CASE k <= Len(got[i])
    <3>1. k \in 1 .. Len(got[i]) /\ 0 + k = k
      BY <1>3, <1>9, <2>1
    <3>2. sent[i][k] = got[i][k]
      BY <1>1, <3>1 DEF Row, ReadInOrder, LiesAt
    <3> QED
      BY <1>6, <1>7, <3>1, <3>2
  <2>2. CASE k > Len(got[i])
    <3>1. PICK j \in 1 .. n : k = Len(got[i]) + j
      <4>1. k - Len(got[i]) \in 1 .. n /\ k = Len(got[i]) + (k - Len(got[i]))
        BY <1>3, <1>4, <1>9, <2>2
      <4> QED
        BY <4>1
    <3>2. got'[i][k] = p[pos[i] + j]
      BY <1>5, <1>6, <1>7, <3>1
    <3>3. pos[i] + j \in 1 .. Len(p) /\ (Len(got[i]) - pos[i]) + (pos[i] + j) = Len(got[i]) + j
      BY <1>3, <1>4
    <3>4. sent[i][(Len(got[i]) - pos[i]) + (pos[i] + j)] = p[pos[i] + j]
      BY <1>1, <3>3 DEF Row, HandInOrder, LiesAt, p
    <3> QED
      BY <3>1, <3>2, <3>3, <3>4
  <2> QED
    BY <1>3, <1>9, <2>1, <2>2
<1>11. Row(i)'
  <2>1. ReadInOrder(i)'
    BY <1>2, <1>9, <1>10 DEF ReadInOrder, LiesAt
  <2>2. Len(got'[i]) - pos'[i] = Len(got[i]) - pos[i]
    BY <1>3, <1>4, <1>7, <1>9
  <2>3. HandInOrder(i)'
    <3>1. SUFFICES ASSUME block'[i] # <<>>
                   PROVE  /\ pos'[i] <= PayloadSize(block'[i]) /\ pos'[i] <= Len(got'[i])
                          /\ LiesAt(Payload(block'[i]), sent[i], Len(got'[i]) - pos'[i])
      BY <1>2 DEF HandInOrder
    <3>2. block'[i] = b
      BY <1>7, <3>1
    <3>3. LiesAt(p, sent[i], Len(got[i]) - pos[i])
      BY <1>1 DEF Row, HandInOrder, p
    <3>4. pos'[i] <= size /\ pos'[i] <= Len(got'[i])
      BY <1>3, <1>4, <1>7, <1>9
    <3> QED
      BY <2>2, <3>2, <3>3, <3>4 DEF p, size
  <2>4. Len(got'[i]) + InBlock(i)' = Len(got[i]) + InBlock(i)
    <3>1. CASE pos[i] + n = size
      <4>1. InBlock(i)' = 0
        BY <1>7, <3>1 DEF InBlock
      <4> QED
        BY <1>3, <1>4, <1>9, <3>1, <4>1
    <3>2. CASE pos[i] + n # size
      <4>1. InBlock(i)' = size - (pos[i] + n)
        BY <1>1, <1>7, <3>2 DEF InBlock, size
      <4> QED
        BY <1>3, <1>4, <1>9, <4>1
    <3> QED
      BY <3>1, <3>2
  <2>5. QueueInOrder(i)'
    BY <1>1, <1>2, <2>4 DEF QueueInOrder, Row
  <2> QED
    BY <2>1, <2>3, <2>5 DEF Row
<1>12. \A j \in open \ {i} : Row(j)'
  BY <1>1, <1>2, RowStays DEF IInv, Rows, Types
<1>13. \A j \in Ids : left'[j] > 0 => j \in open'
  BY <1>1, <1>2 DEF IInv, Rows, Types
<1>14. IInv'
  BY <1>1, <1>2, <1>8, <1>11, <1>12, <1>13 DEF IInv, Rows
<1>15. CASE n = 0
  <2>1. got[i] \o piece = got[i]
    BY <1>3, <1>6, <1>15, SeqEqual
  <2>2. got' = got
    BY <1>1, <1>2, <2>1 DEF Types
  <2> QED
    BY <1>2, <1>14, <2>2
<1>16. CASE n > 0
  <2>1. got' = [got EXCEPT ![i] = got'[i]]
    BY <1>1, <1>2, <1>7 DEF Types
  <2>2. IsStrictPrefix(got[i], got'[i])
    <3> DEFINE t == got[i] \o piece
    <3>1. /\ t \in Seq(Byte) /\ Len(got[i]) <= Len(t) /\ Len(got[i]) # Len(t)
          /\ \A k \in 1 .. Len(got[i]) : t[k] = got[i][k]
      <4>1. Len(got[i]) <= Len(got[i]) + n /\ Len(got[i]) # Len(got[i]) + n
        BY <1>3, <1>4, <1>16
      <4> QED
        BY <1>6, <4>1
    <3> HIDE DEF t
    <3>2. IsStrictPrefix(got[i], t)
      BY <1>3, <3>1, Beginning
    <3> QED
      BY <1>7, <3>2 DEF t
  <2>3. IsPrefix(got'[i], sent[i])
    <3> DEFINE t == got[i] \o piece
    <3>1. t \in Seq(Byte) /\ Len(t) <= Len(sent[i]) /\ \A k \in 1 .. Len(t) : sent[i][k] = t[k]
      BY <1>6, <1>7, <1>9, <1>10
    <3> HIDE DEF t
    <3>2. IsPrefix(t, sent[i])
      BY <1>3, <3>1, Beginning
    <3> QED
      BY <1>7, <3>2 DEF t
  <2>4. Stream!Receive(i)
    BY <1>2, <2>1, <2>2, <2>3
       DEF Stream!Receive, IsStrictPrefix, IsPrefix, Stream!IsStrictPrefix, Stream!IsPrefix
  <2> QED
    BY <1>14, <2>4 DEF Stream!Next
<1> QED
  BY <1>4, <1>15, <1>16

\* The other calls touch neither the bytes that came nor those that were read.
LEMMA OthersKeep ==
  ASSUME IInv, NEW i \in Ids, RecvCall(i) \/ Write(i) \/ SlipSockSend(i) \/ SlipSockClose(i)
  PROVE  IInv' /\ UNCHANGED <<sent, got>>
<1>1. Types /\ Rows
  BY DEF IInv
<1>2. CASE RecvCall(i)
  <2>1. Types'
    <3>1. \A size \in Sizes : size \in Nat
      BY DataAssumption
    <3> QED
      BY <1>1, <1>2, <3>1 DEF Types, RecvCall
  <2>2. \A j \in open : Row(j)'
    BY <1>1, <1>2, RowStays DEF Rows, Types, RecvCall
  <2>3. \A j \in Ids : left'[j] > 0 => j \in open
    BY <1>1, <1>2 DEF Rows, Types, RecvCall
  <2> QED
    BY <1>2, <2>1, <2>2, <2>3 DEF IInv, Rows, RecvCall
<1>3. CASE Write(i) \/ SlipSockSend(i)
  <2>1. UNCHANGED <<sockVars, whole, sent, got>>
    BY <1>3 DEF Write, SlipSockSend
  <2>2. Types'
    BY <1>1, <2>1 DEF Types, sockVars
  <2>3. \A j \in open : Row(j)'
    BY <1>1, <2>1, RowStays DEF Rows, Types, sockVars
  <2> QED
    BY <1>1, <2>1, <2>2, <2>3 DEF IInv, Rows, sockVars
<1>4. CASE SlipSockClose(i)
  <2>1. Freed(i) /\ UNCHANGED <<block, pos, whole, sent, got>>
    BY <1>4 DEF SlipSockClose
  <2>2. whole' \in Seq(Blocks)
    BY <1>1, <2>1 DEF Types
  <2> QED
    BY <1>1, <2>1, <2>2, FreedKeeps
<1> QED
  BY <1>2, <1>3, <1>4

\* Every step keeps the rows in order and is a step of ByteStream or none.
LEMMA NextKeeps ==
  ASSUME IInv, AcceptedWereSent, AcceptedWereSent', [Next]_vars
  PROVE  IInv' /\ (Stream!Next \/ UNCHANGED <<sent, got>>)
<1>1. CASE Next
  <2>1. ASSUME NEW m \in Messages, Whole(m)
        PROVE  IInv' /\ (Stream!Next \/ UNCHANGED <<sent, got>>)
    BY <2>1, WholeKeeps
  <2>2. ASSUME NEW m \in Messages, Damaged(m) \/ \E n \in Messages : Merged(m, n)
        PROVE  IInv' /\ UNCHANGED <<sent, got>>
    <3>1. PICK b : Received(b) /\ UNCHANGED <<whole, sent, got>>
      BY <2>2 DEF Damaged, Merged
    <3> QED
      BY <3>1, DamagedKeeps
  <2>3. ASSUME NEW i \in Ids, Client(i)
        PROVE  IInv' /\ (Stream!Next \/ UNCHANGED <<sent, got>>)
    <3>1. CASE RecvGet(i)
      BY <3>1, RecvGetKeeps DEF RecvGet
    <3>2. CASE RecvCopy(i)
      BY <3>2, RecvCopyKeeps
    <3> QED
      BY <2>3, <3>1, <3>2, OthersKeep DEF Client
  <2> QED
    BY <1>1, <2>1, <2>2, <2>3 DEF Next, Peer
<1>2. CASE UNCHANGED vars
  <2>1. UNCHANGED <<sockVars, whole, sent, got>>
    BY <1>2 DEF vars
  <2>2. Types' /\ \A j \in open : Row(j)'
    BY <2>1, RowStays DEF IInv, Rows, Types, sockVars
  <2> QED
    BY <2>1, <2>2 DEF IInv, Rows, sockVars
<1> QED
  BY <1>1, <1>2

\* Whatever is sent, however it is cut into frames and damaged on the line,
\* however often a connection is closed and opened again and whatever sizes
\* its reader asks for: slip_sock_recv hands over the bytes of the connection,
\* once and in order.
THEOREM ReaderGetsTheStream == Spec => IsByteStream
<1>1. Init => Stream!Init
  BY DEF Init, Stream!Init
<1>2. IInv /\ AcceptedWereSent /\ AcceptedWereSent' /\ [Next]_vars
        => IInv' /\ [Stream!Next]_Stream!vars
  BY NextKeeps DEF Stream!vars
<1> QED
  BY InitRows, OnlyWholeFramesPass, <1>1, <1>2, PTL DEF Spec, IsByteStream, Stream!Spec
=============================================================================
