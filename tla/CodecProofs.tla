---------------------------- MODULE CodecProofs ----------------------------
(***************************************************************************)
(* What encode() and decode() of frame_codec.hpp owe each other, for every *)
(* frame: the layout of the encoded bytes, and what decode() makes of      *)
(* them, of a part of them, and of more than them.  Then the frames that   *)
(* messages are put into, and the command codec, which the command link    *)
(* rests on as well.                                                       *)
(***************************************************************************)
EXTENDS MessageCodecs, SequenceTheorems, WellFoundedInduction, TLAPS

TopByte(value) == value \div 16777216

(* A frame with fields of their C++ types that encode() accepts.           *)
Encodable(frame) ==
  /\ frame \in [version : Octet, message_type : MessageType, payload_length : Nat,
                sequence : Nat, payload : Seq(Octet)]
  /\ TopByte(frame.sequence) \in Octet
  /\ frame.payload_length <= Len(frame.payload)
  /\ EncodeStatusOf(frame) = "Ok"

-----------------------------------------------------------------------------
(* Numbers.                                                                *)

(* An octet is a number below 2^8.                                         *)
LEMMA OctetIs == \A value : value \in Octet <=> value \in Nat /\ value < 256
  BY DEF Octet

(* Sixteen bits hold a number below 2^16.                                  *)
LEMMA ValueRange ==
  ASSUME NEW bits
  PROVE  Value(bits) \in Nat /\ Value(bits) < 65536
<1> DEFINE w == Nibble(bits, 0)
           x == Nibble(bits, 4)
           y == Nibble(bits, 8)
           z == Nibble(bits, 12)
<1>1. /\ w \in Nat /\ w <= 15 /\ x \in Nat /\ x <= 15
      /\ y \in Nat /\ y <= 15 /\ z \in Nat /\ z <= 15
  BY DEF Nibble, Bit
<1>2. Value(bits) = w + 16 * x + 256 * y + 4096 * z
  BY DEF Value
<1> HIDE DEF w, x, y, z
<1>3. QED
  BY <1>1, <1>2

(* Eight bits hold an octet.                                               *)
LEMMA OctetOfBits == \A bits : bits \subseteq 0 .. 7 => Value(bits) \in Octet
<1>1. TAKE bits
<1>2. HAVE bits \subseteq 0 .. 7
<1> DEFINE w == Nibble(bits, 0)
           x == Nibble(bits, 4)
           y == Nibble(bits, 8)
           z == Nibble(bits, 12)
<1>3. w \in Nat /\ w <= 15 /\ x \in Nat /\ x <= 15
  BY DEF Nibble, Bit
<1>4. y = 0 /\ z = 0
  <2>1. \A i \in 8 .. 15 : Bit(bits, i) = 0
    BY <1>2 DEF Bit
  <2>2. QED
    BY <2>1 DEF Nibble
<1>5. Value(bits) = w + 16 * x + 256 * y + 4096 * z
  BY DEF Value
<1> HIDE DEF w, x, y, z
<1>6. Value(bits) \in Nat /\ Value(bits) < 256
  BY <1>3, <1>4, <1>5
<1>7. QED
  BY <1>6, OctetIs

(* A checksum is a 16-bit number, whatever it is computed of.              *)
LEMMA CrcRange ==
  ASSUME NEW bytes
  PROVE  crc16_ccitt_false(bytes) \in Nat /\ crc16_ccitt_false(bytes) < 65536
  BY ValueRange DEF crc16_ccitt_false

(* The two bytes of a 16-bit number, and the number they are read as.      *)
LEMMA TwoBytes ==
  ASSUME NEW value \in Nat, value < 65536
  PROVE  /\ write_u16_le(value) \in Seq(Octet) /\ Len(write_u16_le(value)) = 2
         /\ write_u16_le(value)[1] = value % 256 /\ write_u16_le(value)[2] = value \div 256
         /\ value % 256 \in Octet /\ value \div 256 \in Octet
         /\ (value % 256) + 256 * (value \div 256) = value
<1>1. value % 256 \in Octet /\ value \div 256 \in Octet
      /\ (value % 256) + 256 * (value \div 256) = value
  <2>1. /\ value % 256 \in Nat /\ value % 256 < 256
        /\ value \div 256 \in Nat /\ value \div 256 < 256
        /\ (value % 256) + 256 * (value \div 256) = value
    OBVIOUS
  <2>2. QED
    BY <2>1, OctetIs
<1>2. QED
  BY <1>1 DEF write_u16_le

(* The four bytes of a 32-bit number, and the number they are read as.     *)
LEMMA FourBytes ==
  ASSUME NEW value \in Nat, TopByte(value) \in Octet
  PROVE  /\ write_u32_le(value) \in Seq(Octet) /\ Len(write_u32_le(value)) = 4
         /\ write_u32_le(value)[1] = value % 256
         /\ write_u32_le(value)[2] = (value \div 256) % 256
         /\ write_u32_le(value)[3] = (value \div 65536) % 256
         /\ write_u32_le(value)[4] = TopByte(value)
         /\ (value % 256) + 256 * ((value \div 256) % 256)
            + 65536 * (((value \div 65536) % 256) + 256 * TopByte(value)) = value
<1>1. /\ value % 256 \in Octet /\ (value \div 256) % 256 \in Octet
      /\ (value \div 65536) % 256 \in Octet
  <2>1. \A v \in Nat : v % 256 \in Nat /\ v % 256 < 256
    OBVIOUS
  <2>2. value \div 256 \in Nat /\ value \div 65536 \in Nat
    BY SMT
  <2>3. QED
    BY <2>1, <2>2, OctetIs
<1>2. (value % 256) + 256 * ((value \div 256) % 256)
      + 65536 * (((value \div 65536) % 256) + 256 * TopByte(value)) = value
  BY SMT DEF TopByte
<1>3. write_u32_le(value) = <<value % 256, (value \div 256) % 256,
                              (value \div 65536) % 256, TopByte(value)>>
  BY SMT DEF write_u32_le, TopByte
<1>4. QED
  BY <1>1, <1>2, <1>3

(* Each message type has a code of its own.                                *)
LEMMA TypeCode ==
  ASSUME NEW type \in MessageType
  PROVE  /\ encode_message_type(type) \in Octet
         /\ KnownType(encode_message_type(type))
         /\ decode_message_type(encode_message_type(type)) = type
<1>1. \A t \in MessageType : encode_message_type(t) = encode_message_type(type) => t = type
  BY DEF MessageType, encode_message_type
<1>2. encode_message_type(type) \in Octet
  BY OctetIs DEF MessageType, encode_message_type
<1>3. KnownType(encode_message_type(type))
  BY DEF KnownType
<1>4. decode_message_type(encode_message_type(type)) = type
  BY <1>1 DEF decode_message_type
<1>5. QED
  BY <1>2, <1>3, <1>4

-----------------------------------------------------------------------------
(* The checksum.                                                           *)

(* The bits of a byte where they enter the register.                       *)
Entering(byte) == {i + 8 : i \in Bits(byte, 8)}

(* Induction over the natural numbers, for a set: the least natural number *)
(* outside of it would have a predecessor in it.                           *)
LEMMA SetInduction ==
  ASSUME NEW S, 0 \in S, \A n \in Nat : n \in S => n + 1 \in S
  PROVE  \A n \in Nat : n \in S
<1> DEFINE T == Nat \ S
<1>1. SUFFICES ASSUME T # {} PROVE FALSE
  OBVIOUS
<1>2. PICK m \in T : \A k \in T : <<k, m>> \notin OpToRel(<, Nat)
  BY <1>1, WFMin, NatLessThanWellFounded, Zenon
<1>3. \A k \in Nat : k < m => <<k, m>> \in OpToRel(<, Nat)
  BY Zenon DEF OpToRel
<1>4. m - 1 \in Nat /\ m - 1 < m /\ (m - 1) + 1 = m
  OBVIOUS
<1>5. m - 1 \in S
  BY <1>2, <1>3, <1>4, Zenon
<1>6. QED
  BY <1>4, <1>5

(* The states a loop of N turns passes through.                            *)
IsRun(f, D, base, step, N) ==
  /\ f \in [0 .. N -> D]
  /\ f[0] = base
  /\ \A n \in 1 .. N : f[n] = step[n][f[n - 1]]

(* A loop passes through some states.                                      *)
LEMMA LoopRuns ==
  ASSUME NEW N \in Nat, NEW D, NEW base \in D, NEW step \in [1 .. N -> [D -> D]]
  PROVE  \E f : IsRun(f, D, base, step, N)
<1> DEFINE S == {n \in Nat : n <= N => \E f : IsRun(f, D, base, step, n)}
<1>1. 0 \in S
  <2>1. IsRun([n \in 0 .. 0 |-> base], D, base, step, 0)
    BY DEF IsRun
  <2>2. QED
    BY <2>1
<1>2. ASSUME NEW n \in Nat, n \in S PROVE n + 1 \in S
  <2>1. SUFFICES ASSUME n + 1 <= N PROVE \E f : IsRun(f, D, base, step, n + 1)
    OBVIOUS
  <2>2. n <= N /\ n + 1 \in 1 .. N
    BY <2>1
  <2>3. PICK f : IsRun(f, D, base, step, n)
    BY <1>2, <2>2
  <2>4. f \in [0 .. n -> D] /\ f[0] = base /\ \A m \in 1 .. n : f[m] = step[m][f[m - 1]]
    BY <2>3 DEF IsRun
  <2>5. step[n + 1] \in [D -> D] /\ f[n] \in D
    BY <2>2, <2>4
  <2>6. step[n + 1][f[n]] \in D
    BY <2>5
  <2> DEFINE g == [m \in 0 .. (n + 1) |-> IF m = n + 1 THEN step[n + 1][f[n]] ELSE f[m]]
  <2>7. g \in [0 .. (n + 1) -> D]
    BY <2>4, <2>6
  <2>8. \A m \in 0 .. n : g[m] = f[m]
    OBVIOUS
  <2>9. g[n + 1] = step[n + 1][f[n]]
    OBVIOUS
  <2> HIDE DEF g
  <2>10. g[0] = base
    BY <2>4, <2>8
  <2>11. ASSUME NEW m \in 1 .. (n + 1) PROVE g[m] = step[m][g[m - 1]]
    <3>1. CASE m = n + 1
      <4>1. m - 1 = n /\ n \in 0 .. n
        BY <3>1
      <4>2. QED
        BY <2>8, <2>9, <3>1, <4>1
    <3>2. CASE m # n + 1
      <4>1. m \in 1 .. n /\ m \in 0 .. n /\ m - 1 \in 0 .. n
        BY <3>2
      <4>2. QED
        BY <2>4, <2>8, <4>1
    <3>3. QED
      BY <3>1, <3>2
  <2>12. IsRun(g, D, base, step, n + 1)
    BY <2>7, <2>10, <2>11 DEF IsRun
  <2>13. QED
    BY <2>12
<1>3. \A n \in Nat : n \in S
  <2> HIDE DEF S
  <2>1. QED
    BY <1>1, <1>2, SetInduction
<1>4. QED
  BY <1>3

(* Two loops whose states differ after k turns end in different states, if *)
(* no later turn takes different states to the same.                       *)
LEMMA StayApart ==
  ASSUME NEW N \in Nat, NEW k \in 0 .. N, NEW f, NEW g, f[k] # g[k],
         \A n \in (k + 1) .. N : f[n - 1] # g[n - 1] => f[n] # g[n]
  PROVE  f[N] # g[N]
<1> DEFINE S == {n \in Nat : k <= n /\ n <= N => f[n] # g[n]}
<1>1. 0 \in S
  <2>1. k <= 0 => k = 0
    OBVIOUS
  <2>2. QED
    BY <2>1
<1>2. ASSUME NEW n \in Nat, n \in S PROVE n + 1 \in S
  <2>1. SUFFICES ASSUME k <= n + 1, n + 1 <= N PROVE f[n + 1] # g[n + 1]
    OBVIOUS
  <2>2. CASE k = n + 1
    BY <2>2
  <2>3. CASE k # n + 1
    <3>1. k <= n /\ n <= N /\ n + 1 \in (k + 1) .. N /\ (n + 1) - 1 = n
      BY <2>1, <2>3
    <3>2. f[n] # g[n]
      BY <1>2, <3>1
    <3>3. QED
      BY <3>1, <3>2
  <2>4. QED
    BY <2>2, <2>3
<1>3. \A n \in Nat : n \in S
  <2> HIDE DEF S
  <2>1. QED
    BY <1>1, <1>2, SetInduction
<1>4. N \in S /\ k <= N /\ N <= N
  BY <1>3
<1>5. QED
  BY <1>4

(* Two loops that start alike and take the same k turns are alike.         *)
LEMMA StayTogether ==
  ASSUME NEW k \in Nat, NEW f, NEW g, f[0] = g[0],
         \A n \in 1 .. k : f[n - 1] = g[n - 1] => f[n] = g[n]
  PROVE  f[k] = g[k]
<1> DEFINE S == {n \in Nat : n <= k => f[n] = g[n]}
<1>1. 0 \in S
  OBVIOUS
<1>2. ASSUME NEW n \in Nat, n \in S PROVE n + 1 \in S
  <2>1. SUFFICES ASSUME n + 1 <= k PROVE f[n + 1] = g[n + 1]
    OBVIOUS
  <2>2. n <= k /\ n + 1 \in 1 .. k /\ (n + 1) - 1 = n
    BY <2>1
  <2>3. f[n] = g[n]
    BY <1>2, <2>2
  <2>4. QED
    BY <2>2, <2>3
<1>3. \A n \in Nat : n \in S
  <2> HIDE DEF S
  <2>1. QED
    BY <1>1, <1>2, SetInduction
<1>4. QED
  BY <1>3

(* A shift keeps the register's width, and loses nothing: what falls out   *)
(* at the top is seen at the bottom.                                       *)
LEMMA ShiftKeepsWidth == \A crc \in Register : ShiftOut(crc) \in Register
<1> SUFFICES ASSUME NEW crc \in Register PROVE ShiftOut(crc) \in Register
  OBVIOUS
<1>1. {i + 1 : i \in crc \ {15}} \subseteq 0 .. 15
  BY DEF Register
<1>2. polynomial \subseteq 0 .. 15
  BY DEF polynomial
<1>3. QED
  BY <1>1, <1>2 DEF ShiftOut, Register, Xor

(* Different registers are different after a shift.                        *)
LEMMA ShiftInjective ==
  ASSUME NEW a \in Register, NEW b \in Register, a # b
  PROVE  ShiftOut(a) # ShiftOut(b)
<1> DEFINE up(c) == {i + 1 : i \in c \ {15}}
<1>1. \A c \in Register : 0 \notin up(c) /\ \A i \in 0 .. 14 : i + 1 \in up(c) <=> i \in c
  BY DEF Register
<1>2. \A c \in Register : ShiftOut(c) = IF 15 \in c THEN Xor(up(c), polynomial) ELSE up(c)
  BY DEF ShiftOut
<1> HIDE DEF up
<1>3. \A c \in Register : 0 \in ShiftOut(c) <=> 15 \in c
  BY <1>1, <1>2 DEF Xor, polynomial
<1>4. SUFFICES ASSUME ShiftOut(a) = ShiftOut(b) PROVE FALSE
  OBVIOUS
<1>5. 15 \in a <=> 15 \in b
  BY <1>3, <1>4
<1>6. up(a) = up(b)
  <2>1. CASE 15 \in a
    <3>1. Xor(up(a), polynomial) = Xor(up(b), polynomial)
      BY <1>2, <1>4, <1>5, <2>1
    <3>2. QED
      BY <3>1, Zenon DEF Xor
  <2>2. CASE 15 \notin a
    BY <1>2, <1>4, <1>5, <2>2
  <2>3. QED
    BY <2>1, <2>2
<1>7. \A i \in 0 .. 14 : i \in a <=> i \in b
  BY <1>1, <1>6
<1>8. \A i \in 0 .. 15 : i \in a <=> i \in b
  <2>1. \A i \in 0 .. 15 : i \in 0 .. 14 \/ i = 15
    OBVIOUS
  <2>2. QED
    BY <1>5, <1>7, <2>1
<1>9. QED
  BY <1>8 DEF Register

(* A byte enters in the eight high bits.                                   *)
LEMMA EnteringKeepsWidth ==
  ASSUME NEW crc \in Register, NEW byte
  PROVE  Xor(crc, Entering(byte)) \in Register
<1>1. Bits(byte, 8) \subseteq 0 .. 7
  BY DEF Bits
<1>2. Entering(byte) \subseteq 0 .. 15
  BY <1>1 DEF Entering
<1>3. QED
  BY <1>2 DEF Register, Xor

(* The eight turns of the inner loop.                                      *)
LEMMA AbsorbTurns ==
  ASSUME NEW crc \in Register, NEW byte \in Octet
  PROVE  \E f : /\ f \in [0 .. 8 -> Register]
                /\ f[0] = Xor(crc, Entering(byte))
                /\ \A n \in 1 .. 8 : f[n] = ShiftOut(f[n - 1])
                /\ Absorb[crc][byte] = f[8]
<1> DEFINE base == Xor(crc, Entering(byte))
           shift == [c \in Register |-> ShiftOut(c)]
           step == [n \in 1 .. 8 |-> shift]
           f == CHOOSE g : g = [n \in 0 .. 8 |-> IF n = 0 THEN base ELSE ShiftOut(g[n - 1])]
<1>1. base \in Register
  BY EnteringKeepsWidth
<1>2. Absorb[crc][byte] = f[8]
  BY DEF Absorb, Entering
<1> HIDE DEF base
<1>3. step \in [1 .. 8 -> [Register -> Register]]
  <2>1. shift \in [Register -> Register]
    BY ShiftKeepsWidth
  <2> HIDE DEF shift
  <2>2. QED
    BY <2>1
<1>4. PICK g : IsRun(g, Register, base, step, 8)
  <2> HIDE DEF step
  <2>1. 8 \in Nat
    OBVIOUS
  <2>2. QED
    BY <1>1, <1>3, <2>1, LoopRuns
<1>5. /\ g \in [0 .. 8 -> Register] /\ g[0] = base
      /\ \A n \in 1 .. 8 : g[n] = step[n][g[n - 1]]
  <2> HIDE DEF step
  <2>1. QED
    BY <1>4 DEF IsRun
<1>6. \A n \in 1 .. 8 : g[n] = ShiftOut(g[n - 1])
  <2> SUFFICES ASSUME NEW n \in 1 .. 8 PROVE g[n] = ShiftOut(g[n - 1])
    OBVIOUS
  <2>1. n - 1 \in 0 .. 8
    OBVIOUS
  <2>2. g[n - 1] \in Register
    BY <1>5, <2>1
  <2>3. step[n] = shift
    OBVIOUS
  <2>4. shift[g[n - 1]] = ShiftOut(g[n - 1])
    BY <2>2
  <2>5. QED
    BY <1>5, <2>3, <2>4
<1>7. g = [n \in 0 .. 8 |-> IF n = 0 THEN base ELSE ShiftOut(g[n - 1])]
  <2>1. \A n \in 0 .. 8 : n # 0 => n \in 1 .. 8
    OBVIOUS
  <2>2. \A n \in 0 .. 8 : g[n] = IF n = 0 THEN base ELSE ShiftOut(g[n - 1])
    BY <1>5, <1>6, <2>1
  <2>3. QED
    BY <1>5, <2>2
<1>8. f = [n \in 0 .. 8 |-> IF n = 0 THEN base ELSE ShiftOut(f[n - 1])]
  BY <1>7, Zenon
<1> HIDE DEF f, step
<1>9. f = g
  <2>1. f[0] = g[0]
    BY <1>5, <1>8
  <2>2. \A n \in 1 .. 8 : f[n] = ShiftOut(f[n - 1])
    BY <1>8
  <2>3. ASSUME NEW n \in 0 .. 8 PROVE f[n] = g[n]
    <3>1. n \in Nat /\ \A m \in 1 .. n : m \in 1 .. 8
      OBVIOUS
    <3>2. \A m \in 1 .. n : f[m - 1] = g[m - 1] => f[m] = g[m]
      BY <1>6, <2>2, <3>1
    <3>3. QED
      BY <2>1, <3>1, <3>2, StayTogether
  <2>4. QED
    BY <1>5, <1>8, <2>3
<1>10. QED
  BY <1>2, <1>5, <1>6, <1>9 DEF base

(* A byte leaves a register of the same width.                             *)
LEMMA AbsorbKeepsWidth ==
  ASSUME NEW crc \in Register, NEW byte \in Octet
  PROVE  Absorb[crc][byte] \in Register
<1>1. PICK f : f \in [0 .. 8 -> Register] /\ Absorb[crc][byte] = f[8]
  BY AbsorbTurns
<1>2. QED
  BY <1>1

(* The registers the outer loop passes through, one more for each byte.    *)
Passes(f, bytes, N) ==
  /\ f \in [0 .. N -> Register]
  /\ f[0] = 0 .. 15
  /\ \A n \in 1 .. N : f[n] = Absorb[f[n - 1]][bytes[n]]
  /\ Checksum(bytes) = f[N]

(* The loop over the bytes of a sequence passes through some registers.    *)
LEMMA ChecksumTurns ==
  ASSUME NEW bytes \in Seq(Octet), NEW N \in Nat, Len(bytes) = N
  PROVE  \E f : Passes(f, bytes, N)
<1> DEFINE base == 0 .. 15
           turn(n) == [c \in Register |-> Absorb[c][bytes[n]]]
           step == [n \in 1 .. N |-> turn(n)]
           f == CHOOSE g : g = [n \in 0 .. N |->
                                  IF n = 0 THEN base ELSE Absorb[g[n - 1]][bytes[n]]]
<1>1. base \in Register
  BY DEF Register
<1>2. Checksum(bytes) = f[N]
  BY DEF Checksum
<1> HIDE DEF base
<1>3. step \in [1 .. N -> [Register -> Register]]
  <2>1. \A n \in 1 .. N : bytes[n] \in Octet
    BY ElementOfSeq
  <2>2. \A n \in 1 .. N : turn(n) \in [Register -> Register]
    BY <2>1, AbsorbKeepsWidth
  <2> HIDE DEF turn
  <2>3. QED
    BY <2>2
<1>4. PICK g : IsRun(g, Register, base, step, N)
  <2> HIDE DEF step
  <2>1. QED
    BY <1>1, <1>3, LoopRuns
<1>5. /\ g \in [0 .. N -> Register] /\ g[0] = base
      /\ \A n \in 1 .. N : g[n] = step[n][g[n - 1]]
  <2> HIDE DEF step
  <2>1. QED
    BY <1>4 DEF IsRun
<1>6. \A n \in 1 .. N : g[n] = Absorb[g[n - 1]][bytes[n]]
  <2> SUFFICES ASSUME NEW n \in 1 .. N PROVE g[n] = Absorb[g[n - 1]][bytes[n]]
    OBVIOUS
  <2>1. n - 1 \in 0 .. N
    OBVIOUS
  <2>2. g[n - 1] \in Register
    BY <1>5, <2>1
  <2>3. step[n] = turn(n)
    <3> HIDE DEF turn
    <3>1. QED
      OBVIOUS
  <2>4. turn(n)[g[n - 1]] = Absorb[g[n - 1]][bytes[n]]
    BY <2>2
  <2>5. QED
    BY <1>5, <2>3, <2>4
<1>7. g = [n \in 0 .. N |-> IF n = 0 THEN base ELSE Absorb[g[n - 1]][bytes[n]]]
  <2>1. \A n \in 0 .. N : n # 0 => n \in 1 .. N
    OBVIOUS
  <2>2. \A n \in 0 .. N : g[n] = IF n = 0 THEN base ELSE Absorb[g[n - 1]][bytes[n]]
    BY <1>5, <1>6, <2>1
  <2>3. QED
    BY <1>5, <2>2
<1>8. f = [n \in 0 .. N |-> IF n = 0 THEN base ELSE Absorb[f[n - 1]][bytes[n]]]
  BY <1>7, Zenon
<1> HIDE DEF f, step
<1>9. f = g
  <2>1. f[0] = g[0]
    BY <1>5, <1>8
  <2>2. \A n \in 1 .. N : f[n] = Absorb[f[n - 1]][bytes[n]]
    BY <1>8
  <2>3. ASSUME NEW n \in 0 .. N PROVE f[n] = g[n]
    <3>1. n \in Nat /\ \A m \in 1 .. n : m \in 1 .. N
      OBVIOUS
    <3>2. \A m \in 1 .. n : f[m - 1] = g[m - 1] => f[m] = g[m]
      BY <1>6, <2>2, <3>1
    <3>3. QED
      BY <2>1, <3>1, <3>2, StayTogether
  <2>4. QED
    BY <1>5, <1>8, <2>3
<1>10. Passes(g, bytes, N)
  BY <1>2, <1>5, <1>6, <1>9 DEF base, Passes
<1>11. QED
  BY <1>10

(* An octet is the number of its bits.                                     *)
LEMMA ValueOfBits == ASSUME NEW value \in Octet PROVE Value(Bits(value, 8)) = value
<1>1. value \in Nat /\ value < 256
  BY OctetIs
<1>2. QED
  BY <1>1 DEF Value, Bits, Nibble, Bit

(* Four bits are those of the nibble they make.                            *)
LEMMA NibbleInjective ==
  ASSUME NEW a, NEW b, NEW k \in Nat, Nibble(a, k) = Nibble(b, k)
  PROVE  \A i \in k .. (k + 3) : i \in a <=> i \in b
<1> DEFINE a0 == Bit(a, k)
           a1 == Bit(a, k + 1)
           a2 == Bit(a, k + 2)
           a3 == Bit(a, k + 3)
           b0 == Bit(b, k)
           b1 == Bit(b, k + 1)
           b2 == Bit(b, k + 2)
           b3 == Bit(b, k + 3)
<1>1. /\ a0 \in {0, 1} /\ (a0 = 1 <=> k \in a) /\ a1 \in {0, 1} /\ (a1 = 1 <=> k + 1 \in a)
      /\ a2 \in {0, 1} /\ (a2 = 1 <=> k + 2 \in a) /\ a3 \in {0, 1} /\ (a3 = 1 <=> k + 3 \in a)
      /\ b0 \in {0, 1} /\ (b0 = 1 <=> k \in b) /\ b1 \in {0, 1} /\ (b1 = 1 <=> k + 1 \in b)
      /\ b2 \in {0, 1} /\ (b2 = 1 <=> k + 2 \in b) /\ b3 \in {0, 1} /\ (b3 = 1 <=> k + 3 \in b)
  BY DEF Bit
<1>2. a0 + 2 * a1 + 4 * a2 + 8 * a3 = b0 + 2 * b1 + 4 * b2 + 8 * b3
  BY DEF Nibble
<1> HIDE DEF a0, a1, a2, a3, b0, b1, b2, b3
<1>3. a0 = b0 /\ a1 = b1 /\ a2 = b2 /\ a3 = b3
  BY <1>1, <1>2
<1>4. \A i \in k .. (k + 3) : i = k \/ i = k + 1 \/ i = k + 2 \/ i = k + 3
  OBVIOUS
<1>5. QED
  BY <1>1, <1>3, <1>4

(* A nibble is below 16.                                                   *)
LEMMA NibbleRange == \A bits, k : Nibble(bits, k) \in Nat /\ Nibble(bits, k) < 16
  BY DEF Nibble, Bit

(* Two registers with the same number are the same.                        *)
LEMMA ValueInjective ==
  ASSUME NEW a \in Register, NEW b \in Register, Value(a) = Value(b)
  PROVE  a = b
<1> DEFINE a0 == Nibble(a, 0)
           a1 == Nibble(a, 4)
           a2 == Nibble(a, 8)
           a3 == Nibble(a, 12)
           b0 == Nibble(b, 0)
           b1 == Nibble(b, 4)
           b2 == Nibble(b, 8)
           b3 == Nibble(b, 12)
<1>1. a0 + 16 * a1 + 256 * a2 + 4096 * a3 = b0 + 16 * b1 + 256 * b2 + 4096 * b3
  BY DEF Value
<1>2. /\ a0 \in Nat /\ a0 < 16 /\ a1 \in Nat /\ a1 < 16
      /\ a2 \in Nat /\ a2 < 16 /\ a3 \in Nat /\ a3 < 16
      /\ b0 \in Nat /\ b0 < 16 /\ b1 \in Nat /\ b1 < 16
      /\ b2 \in Nat /\ b2 < 16 /\ b3 \in Nat /\ b3 < 16
  BY NibbleRange
<1> HIDE DEF a0, a1, a2, a3, b0, b1, b2, b3
<1>3. a0 = b0 /\ a1 = b1 /\ a2 = b2 /\ a3 = b3
  BY <1>1, <1>2
<1>4. \A i \in 0 .. 15 : i \in a <=> i \in b
  <2>1. \A i \in 0 .. 3 : i \in a <=> i \in b
    <3>1. QED
      BY <1>3, NibbleInjective DEF a0, b0
  <2>2. \A i \in 4 .. 7 : i \in a <=> i \in b
    BY <1>3, NibbleInjective DEF a1, b1
  <2>3. \A i \in 8 .. 11 : i \in a <=> i \in b
    BY <1>3, NibbleInjective DEF a2, b2
  <2>4. \A i \in 12 .. 15 : i \in a <=> i \in b
    BY <1>3, NibbleInjective DEF a3, b3
  <2>5. \A i \in 0 .. 15 : i \in 0 .. 3 \/ i \in 4 .. 7 \/ i \in 8 .. 11 \/ i \in 12 .. 15
    OBVIOUS
  <2>6. QED
    BY <2>1, <2>2, <2>3, <2>4, <2>5
<1>5. QED
  BY <1>4 DEF Register

(* Eight bits are the bits of the number they make.                        *)
LEMMA BitsOfValue ==
  ASSUME NEW bits, bits \subseteq 0 .. 7
  PROVE  Bits(Value(bits), 8) = bits
<1>1. Value(bits) \in Octet
  BY OctetOfBits
<1>2. Value(Bits(Value(bits), 8)) = Value(bits)
  BY <1>1, ValueOfBits
<1>3. bits \in Register
  BY DEF Register
<1>4. Bits(Value(bits), 8) \in Register
  BY DEF Bits, Register
<1>5. QED
  BY <1>2, <1>3, <1>4, ValueInjective

-----------------------------------------------------------------------------
(* Layout.                                                                 *)

(* What is known of a frame that encode() accepts.                         *)
LEMMA Accepted ==
  ASSUME NEW frame, Encodable(frame)
  PROVE  /\ frame.version = 1 /\ frame.message_type \in MessageType
         /\ frame.payload_length \in Nat /\ frame.payload_length <= 64
         /\ frame.payload_length <= Len(frame.payload)
         /\ frame.sequence \in Nat /\ TopByte(frame.sequence) \in Octet
         /\ frame.payload \in Seq(Octet) /\ Len(frame.payload) \in Nat
<1>1. frame \in [version : Octet, message_type : MessageType, payload_length : Nat,
                  sequence : Nat, payload : Seq(Octet)]
  BY DEF Encodable
<1>2. frame.payload_length \in Nat /\ frame.sequence \in Nat
  BY <1>1
<1>3. frame.payload \in Seq(Octet) /\ Len(frame.payload) \in Nat
  BY <1>1, LenProperties
<1>4. /\ frame.version = 1 /\ frame.message_type \in MessageType
      /\ ~(frame.payload_length > 64)
  BY DEF Encodable, EncodeStatusOf, protocol_version, maximum_payload_size
<1>5. frame.payload_length <= 64
  BY <1>2, <1>4
<1>6. TopByte(frame.sequence) \in Octet /\ frame.payload_length <= Len(frame.payload)
  BY DEF Encodable
<1>7. QED
  BY <1>2, <1>3, <1>4, <1>5, <1>6

(* The m bytes of a and the n bytes of b after them.                       *)
IsJoin(bytes, a, m, b, n) ==
  /\ bytes \in Seq(Octet) /\ Len(bytes) = m + n
  /\ \A i \in 1 .. (m + n) : bytes[i] = IF i <= m THEN a[i] ELSE b[i - m]

(* Two runs of bytes, one after the other.                                 *)
LEMMA Joined ==
  ASSUME NEW a \in Seq(Octet), NEW b \in Seq(Octet), NEW m, NEW n, Len(a) = m, Len(b) = n
  PROVE  IsJoin(a \o b, a, m, b, n)
<1>1. /\ a \o b \in Seq(Octet)
      /\ Len(a \o b) = Len(a) + Len(b)
      /\ \A i \in 1 .. Len(a) + Len(b) :
           (a \o b)[i] = IF i <= Len(a) THEN a[i] ELSE b[i - Len(a)]
  BY ConcatProperties
<1>2. QED
  BY <1>1 DEF IsJoin

(* The part of the payload that is sent.                                   *)
LEMMA SentPayload ==
  ASSUME NEW frame, Encodable(frame)
  PROVE  LET payload == SubSeq(frame.payload, 1, frame.payload_length)
         IN  /\ payload \in Seq(Octet) /\ Len(payload) = frame.payload_length
             /\ \A i \in 1 .. frame.payload_length : payload[i] = frame.payload[i]
<1> DEFINE n == frame.payload_length
           p == frame.payload
<1>1. n \in Nat /\ n <= Len(p) /\ p \in Seq(Octet) /\ Len(p) \in Nat
  BY Accepted
<1> HIDE DEF n, p
<1>2. \A i \in 1 .. n : p[i] \in Octet
  BY <1>1, ElementOfSeq
<1>3. /\ SubSeq(p, 1, n) \in Seq(Octet)
      /\ Len(SubSeq(p, 1, n)) = IF 1 <= n THEN n - 1 + 1 ELSE 0
      /\ \A i \in 1 .. (n - 1 + 1) : SubSeq(p, 1, n)[i] = p[1 + i - 1]
  BY <1>1, <1>2, SubSeqProperties
<1>4. n - 1 + 1 = n /\ \A i \in Int : 1 + i - 1 = i
  BY <1>1
<1>5. Len(SubSeq(p, 1, n)) = n
  BY <1>1, <1>3
<1>6. QED
  BY <1>3, <1>4, <1>5 DEF n, p

(* The bytes under the checksum: eight of the header, then the payload.    *)
LEMMA ProtectedLayout ==
  ASSUME NEW frame, Encodable(frame)
  PROVE  LET bytes == Protected(frame)
             n     == frame.payload_length
             s     == frame.sequence
         IN  /\ bytes \in Seq(Octet) /\ Len(bytes) = 8 + n
             /\ bytes[1] = frame.version
             /\ bytes[2] = encode_message_type(frame.message_type)
             /\ bytes[3] = n % 256 /\ bytes[4] = n \div 256
             /\ bytes[5] = s % 256 /\ bytes[6] = (s \div 256) % 256
             /\ bytes[7] = (s \div 65536) % 256 /\ bytes[8] = TopByte(s)
             /\ \A i \in 1 .. n : bytes[8 + i] = frame.payload[i]
<1> DEFINE n == frame.payload_length
           s == frame.sequence
           a == <<frame.version, encode_message_type(frame.message_type)>>
           b == write_u16_le(n)
           c == write_u32_le(s)
           d == SubSeq(frame.payload, 1, n)
<1>1. n \in Nat /\ n <= 64 /\ n < 65536 /\ s \in Nat /\ TopByte(s) \in Octet
  BY Accepted
<1>2. /\ a \in Seq(Octet) /\ Len(a) = 2
      /\ a[1] = frame.version /\ a[2] = encode_message_type(frame.message_type)
  <2>1. frame.version \in Octet /\ encode_message_type(frame.message_type) \in Octet
    BY Accepted, TypeCode, OctetIs
  <2>2. QED
    BY <2>1
<1>3. /\ b \in Seq(Octet) /\ Len(b) = 2 /\ b[1] = n % 256 /\ b[2] = n \div 256
  BY <1>1, TwoBytes
<1>4. /\ c \in Seq(Octet) /\ Len(c) = 4
      /\ c[1] = s % 256 /\ c[2] = (s \div 256) % 256
      /\ c[3] = (s \div 65536) % 256 /\ c[4] = TopByte(s)
  <2> HIDE DEF a, b, d, n, s
  <2>1. QED
    BY <1>1, FourBytes
<1>5. /\ d \in Seq(Octet) /\ Len(d) = n
      /\ \A i \in 1 .. n : d[i] = frame.payload[i]
  BY SentPayload
<1>6. Protected(frame) = ((a \o b) \o c) \o d
  BY DEF Protected
<1> HIDE DEF a, b, c, d, n, s
<1> DEFINE e == a \o b
           f == e \o c
           g == f \o d
<1>7. e \in Seq(Octet) /\ Len(e) = 4
      /\ \A i \in 1 .. 4 : e[i] = IF i <= 2 THEN a[i] ELSE b[i - 2]
  <2>1. IsJoin(e, a, 2, b, 2)
    BY <1>2, <1>3, Joined
  <2> HIDE DEF e, f, g
  <2>2. QED
    BY <2>1 DEF IsJoin
<1> HIDE DEF e
<1>8. /\ f \in Seq(Octet) /\ Len(f) = 8
      /\ \A i \in 1 .. 8 : f[i] = IF i <= 4 THEN e[i] ELSE c[i - 4]
  <2>1. e \in Seq(Octet) /\ c \in Seq(Octet) /\ Len(e) = 4 /\ Len(c) = 4
    BY <1>4, <1>7
  <2>2. IsJoin(f, e, 4, c, 4)
    BY <2>1, Joined
  <2> HIDE DEF f, g
  <2>3. 4 + 4 = 8
    OBVIOUS
  <2>4. QED
    BY <2>2, <2>3 DEF IsJoin
<1> HIDE DEF f
<1>9. /\ g \in Seq(Octet) /\ Len(g) = 8 + n
      /\ \A i \in 1 .. (8 + n) : g[i] = IF i <= 8 THEN f[i] ELSE d[i - 8]
  <2>1. f \in Seq(Octet) /\ d \in Seq(Octet) /\ Len(f) = 8 /\ Len(d) = n
    BY <1>5, <1>8
  <2>2. IsJoin(f \o d, f, 8, d, n)
    BY <2>1, Joined, Zenon
  <2>3. IsJoin(g, f, 8, d, n)
    BY <2>2
  <2> HIDE DEF g
  <2>4. QED
    BY <2>3 DEF IsJoin
<1> HIDE DEF g
<1>10. \A i \in 1 .. 8 : g[i] = f[i]
  BY <1>1, <1>9
<1>11. /\ f[1] = e[1] /\ f[2] = e[2] /\ f[3] = e[3] /\ f[4] = e[4]
       /\ f[5] = c[1] /\ f[6] = c[2] /\ f[7] = c[3] /\ f[8] = c[4]
  BY <1>8
<1>12. e[1] = a[1] /\ e[2] = a[2] /\ e[3] = b[1] /\ e[4] = b[2]
  BY <1>7
<1>13. ASSUME NEW i \in 1 .. n PROVE g[8 + i] = d[i]
  <2>1. 8 + i \in 1 .. (8 + n) /\ ~(8 + i <= 8) /\ (8 + i) - 8 = i
    BY <1>1
  <2>2. QED
    BY <1>9, <2>1
<1>14. Protected(frame) = g
  BY <1>6 DEF g, f, e
<1>15. QED
  BY <1>2, <1>3, <1>4, <1>5, <1>9, <1>10, <1>11, <1>12, <1>13, <1>14 DEF n, s

(* The bytes of the frame: two of synchronisation, what is under the       *)
(* checksum, the checksum.                                                 *)
LEMMA EncodedLayout ==
  ASSUME NEW frame, Encodable(frame)
  PROVE  LET bytes == Encode(frame)
             n     == frame.payload_length
             crc   == crc16_ccitt_false(Protected(frame))
         IN  /\ bytes \in Seq(Octet) /\ Len(bytes) = 12 + n
             /\ bytes[1] = 165 /\ bytes[2] = 90
             /\ \A i \in 1 .. (8 + n) : bytes[2 + i] = Protected(frame)[i]
             /\ bytes[11 + n] = crc % 256 /\ bytes[12 + n] = crc \div 256
<1> DEFINE n == frame.payload_length
           crc == crc16_ccitt_false(Protected(frame))
           a == <<165, 90>>
           b == Protected(frame)
           c == write_u16_le(crc)
<1>1. n \in Nat /\ n <= 64 /\ crc \in Nat /\ crc < 65536
  BY Accepted, CrcRange
<1>2. a \in Seq(Octet) /\ Len(a) = 2 /\ a[1] = 165 /\ a[2] = 90
  <2>1. 165 \in Octet /\ 90 \in Octet
    BY OctetIs
  <2>2. QED
    BY <2>1
<1>3. b \in Seq(Octet) /\ Len(b) = 8 + n
  BY ProtectedLayout
<1> HIDE DEF crc
<1>4. c \in Seq(Octet) /\ Len(c) = 2 /\ c[1] = crc % 256 /\ c[2] = crc \div 256
  BY <1>1, TwoBytes
<1>5. Encode(frame) = (a \o b) \o c
  BY DEF Encode, crc
<1> DEFINE e == a \o b
           f == e \o c
<1> HIDE DEF a, b, c, n
<1>6. /\ e \in Seq(Octet) /\ Len(e) = 2 + (8 + n)
      /\ \A i \in 1 .. (2 + (8 + n)) : e[i] = IF i <= 2 THEN a[i] ELSE b[i - 2]
  <2>1. a \in Seq(Octet) /\ b \in Seq(Octet) /\ Len(a) = 2 /\ Len(b) = 8 + n
    BY <1>2, <1>3
  <2>2. IsJoin(a \o b, a, 2, b, 8 + n)
    BY <2>1, Joined, Zenon
  <2>3. IsJoin(e, a, 2, b, 8 + n)
    BY <2>2
  <2>4. QED
    BY <2>3 DEF IsJoin
<1> HIDE DEF e
<1>7. /\ f \in Seq(Octet) /\ Len(f) = (2 + (8 + n)) + 2
      /\ \A i \in 1 .. ((2 + (8 + n)) + 2) :
           f[i] = IF i <= 2 + (8 + n) THEN e[i] ELSE c[i - (2 + (8 + n))]
  <2>1. e \in Seq(Octet) /\ c \in Seq(Octet) /\ Len(e) = 2 + (8 + n) /\ Len(c) = 2
    BY <1>4, <1>6
  <2>2. IsJoin(e \o c, e, 2 + (8 + n), c, 2)
    BY <2>1, Joined, Zenon
  <2>3. IsJoin(f, e, 2 + (8 + n), c, 2)
    BY <2>2
  <2> HIDE DEF f
  <2>4. QED
    BY <2>3 DEF IsJoin
<1> HIDE DEF f
<1>8. Len(f) = 12 + n
  BY <1>1, <1>7
<1>9. f[1] = 165 /\ f[2] = 90
  <2>1. f[1] = e[1] /\ f[2] = e[2]
    BY <1>1, <1>7
  <2>2. e[1] = a[1] /\ e[2] = a[2]
    BY <1>1, <1>6
  <2>3. QED
    BY <1>2, <2>1, <2>2
<1>10. ASSUME NEW i \in 1 .. (8 + n) PROVE f[2 + i] = b[i]
  <2>1. f[2 + i] = e[2 + i]
    BY <1>1, <1>7
  <2>2. e[2 + i] = b[(2 + i) - 2] /\ (2 + i) - 2 = i
    BY <1>1, <1>6
  <2>3. QED
    BY <2>1, <2>2
<1>11. f[11 + n] = c[1] /\ f[12 + n] = c[2]
  <2>1. /\ 11 + n \in 1 .. ((2 + (8 + n)) + 2) /\ ~(11 + n <= 2 + (8 + n))
        /\ (11 + n) - (2 + (8 + n)) = 1
        /\ 12 + n \in 1 .. ((2 + (8 + n)) + 2) /\ ~(12 + n <= 2 + (8 + n))
        /\ (12 + n) - (2 + (8 + n)) = 2
    BY <1>1
  <2>2. QED
    BY <1>7, <2>1
<1>12. Encode(frame) = f
  BY <1>5 DEF e, f
<1>13. QED
  BY <1>4, <1>7, <1>8, <1>9, <1>10, <1>11, <1>12 DEF n, crc, b

-----------------------------------------------------------------------------
(* Decoding.                                                               *)

(* What arrives agrees with the encoded frame as far as both go.           *)
Agrees(bytes, frame) ==
  \A i \in 1 .. (12 + frame.payload_length) :
    i <= Len(bytes) => bytes[i] = Encode(frame)[i]

(* The fixed part of the header reads as it was written.                   *)
LEMMA HeaderRead ==
  ASSUME NEW frame, Encodable(frame),
         NEW bytes \in Seq(Octet), Agrees(bytes, frame), Len(bytes) >= 12
  PROVE  /\ At(bytes, 0) = 165 /\ At(bytes, 1) = 90
         /\ At(bytes, 2) = frame.version
         /\ At(bytes, 3) = encode_message_type(frame.message_type)
         /\ read_u16_le(bytes, 4) = frame.payload_length
         /\ read_u32_le(bytes, 6) = frame.sequence
<1> DEFINE n == frame.payload_length
           s == frame.sequence
           E == Encode(frame)
           P == Protected(frame)
           k == Len(bytes)
<1>1. /\ n \in Nat /\ n < 65536 /\ k \in Nat /\ k >= 12
      /\ s \in Nat /\ TopByte(s) \in Octet
  <2>1. n \in Nat /\ n <= 64 /\ s \in Nat /\ TopByte(s) \in Octet
    BY Accepted
  <2>2. k \in Nat
    BY LenProperties
  <2>3. QED
    BY <2>1, <2>2
<1>2. E[1] = 165 /\ E[2] = 90 /\ \A i \in 1 .. (8 + n) : E[2 + i] = P[i]
  BY EncodedLayout
<1>3. /\ P[1] = frame.version /\ P[2] = encode_message_type(frame.message_type)
      /\ P[3] = n % 256 /\ P[4] = n \div 256
      /\ P[5] = s % 256 /\ P[6] = (s \div 256) % 256
      /\ P[7] = (s \div 65536) % 256 /\ P[8] = TopByte(s)
  BY ProtectedLayout
<1>4. \A i \in 1 .. (12 + n) : i <= k => bytes[i] = E[i]
  BY DEF Agrees
<1>5. (n % 256) + 256 * (n \div 256) = n
  <2>1. \A value \in Nat : (value % 256) + 256 * (value \div 256) = value
    OBVIOUS
  <2> HIDE DEF n
  <2>2. QED
    BY <1>1, <2>1
<1>6. (s % 256) + 256 * ((s \div 256) % 256)
      + 65536 * (((s \div 65536) % 256) + 256 * TopByte(s)) = s
  BY <1>1, FourBytes
<1> HIDE DEF n, s, E, P, k
<1>7. \A i \in 1 .. 10 : bytes[i] = E[i]
  BY <1>1, <1>4
<1>8. /\ bytes[1] = 165 /\ bytes[2] = 90
      /\ bytes[3] = P[1] /\ bytes[4] = P[2] /\ bytes[5] = P[3] /\ bytes[6] = P[4]
      /\ bytes[7] = P[5] /\ bytes[8] = P[6] /\ bytes[9] = P[7] /\ bytes[10] = P[8]
  BY <1>1, <1>2, <1>7
<1>9. /\ At(bytes, 0) = 165 /\ At(bytes, 1) = 90
      /\ At(bytes, 2) = frame.version
      /\ At(bytes, 3) = encode_message_type(frame.message_type)
  BY <1>3, <1>8 DEF At
<1>10. read_u16_le(bytes, 4) = (n % 256) + 256 * (n \div 256)
  BY <1>3, <1>8 DEF read_u16_le, At
<1>11. read_u32_le(bytes, 6) =
         (s % 256) + 256 * ((s \div 256) % 256)
         + 65536 * (((s \div 65536) % 256) + 256 * TopByte(s))
  BY <1>3, <1>8 DEF read_u32_le, read_u16_le, At
<1>12. QED
  BY <1>5, <1>6, <1>9, <1>10, <1>11 DEF n, s

(* The checks before the size pass; the size is judged by itself.          *)
LEMMA SizeDecides ==
  ASSUME NEW frame, Encodable(frame), NEW bytes \in Seq(Octet), Agrees(bytes, frame)
  PROVE  /\ Len(bytes) < 12 + frame.payload_length
              => DecodeStatusOf(bytes) = "Truncated"
         /\ Len(bytes) > 12 + frame.payload_length
              => DecodeStatusOf(bytes) = "LengthMismatch"
         /\ Len(bytes) = 12 + frame.payload_length
              => DecodeStatusOf(bytes) = CrcStatus(bytes)
<1> DEFINE n == frame.payload_length
           k == Len(bytes)
<1>1. n \in Nat /\ n <= 64 /\ k \in Nat
  BY Accepted, LenProperties
<1>2. CASE k < 12
  <2>1. DecodeStatusOf(bytes) = "Truncated"
    BY <1>2 DEF DecodeStatusOf, minimum_frame_size
  <2>2. k < 12 + n
    BY <1>1, <1>2
  <2>3. QED
    BY <1>1, <2>1, <2>2
<1>3. CASE k >= 12
  <2>1. /\ At(bytes, 0) = 165 /\ At(bytes, 1) = 90
        /\ At(bytes, 2) = frame.version
        /\ At(bytes, 3) = encode_message_type(frame.message_type)
        /\ read_u16_le(bytes, 4) = n
    BY <1>3, HeaderRead
  <2>2. frame.version = 1 /\ frame.message_type \in MessageType
    BY Accepted
  <2>3. KnownType(At(bytes, 3))
    BY <2>1, <2>2, TypeCode
  <2>4. ~(k < 12) /\ ~(n > 64)
    BY <1>1, <1>3
  <2>5. ExpectedSize(bytes) = 12 + n
    BY <2>1 DEF ExpectedSize, minimum_frame_size
  <2>6. DecodeStatusOf(bytes) =
          IF k < 12 + n THEN "Truncated"
          ELSE IF k # 12 + n THEN "LengthMismatch" ELSE CrcStatus(bytes)
    BY <2>1, <2>2, <2>3, <2>4, <2>5
       DEF DecodeStatusOf, minimum_frame_size, protocol_version, maximum_payload_size
  <2> HIDE DEF n, k
  <2>7. QED
    BY <1>1, <2>6 DEF n, k
<1>4. QED
  BY <1>1, <1>2, <1>3

(* What encode() accepts, decode() accepts, and returns field for field.   *)
LEMMA DecodeOfEncode ==
  ASSUME NEW frame, Encodable(frame), NEW bytes \in Seq(Octet),
         Agrees(bytes, frame), Len(bytes) = 12 + frame.payload_length
  PROVE  /\ DecodeStatusOf(bytes) = "Ok"
         /\ DecodedFrame(bytes) =
              [frame EXCEPT !.payload = SubSeq(@, 1, frame.payload_length)]
<1> DEFINE n == frame.payload_length
           E == Encode(frame)
           P == Protected(frame)
           crc == crc16_ccitt_false(P)
           S == SubSeq(frame.payload, 1, n)
           body == SubSeq(bytes, 3, 10 + n)
           tail == SubSeq(bytes, 11, 10 + n)
<1>1. n \in Nat /\ n <= 64 /\ Len(bytes) = 12 + n
  BY Accepted
<1>2. crc \in Nat /\ crc < 65536
  BY CrcRange
<1>3. (crc % 256) + 256 * (crc \div 256) = crc
  <2>1. \A value \in Nat : (value % 256) + 256 * (value \div 256) = value
    OBVIOUS
  <2> HIDE DEF crc
  <2>2. QED
    BY <1>2, <2>1
<1>4. /\ \A i \in 1 .. (8 + n) : E[2 + i] = P[i]
      /\ E[11 + n] = crc % 256 /\ E[12 + n] = crc \div 256
  BY EncodedLayout
<1>5. /\ P \in Seq(Octet) /\ Len(P) = 8 + n
      /\ \A i \in 1 .. n : P[8 + i] = frame.payload[i]
  BY ProtectedLayout
<1>6. /\ S \in Seq(Octet) /\ Len(S) = n
      /\ \A i \in 1 .. n : S[i] = frame.payload[i]
  BY SentPayload
<1>7. /\ At(bytes, 2) = frame.version
      /\ At(bytes, 3) = encode_message_type(frame.message_type)
      /\ read_u16_le(bytes, 4) = n
      /\ read_u32_le(bytes, 6) = frame.sequence
  <2>1. Len(bytes) >= 12
    BY <1>1
  <2>2. QED
    BY <2>1, HeaderRead
<1>8. \A i \in 1 .. (12 + n) : bytes[i] = E[i]
  BY <1>1 DEF Agrees
<1>9. \A i \in 1 .. (12 + n) : bytes[i] \in Octet
  BY <1>1, ElementOfSeq
<1>10. body = P
  <2> HIDE DEF n, E, P
  <2>1. \A i \in 3 .. (10 + n) : bytes[i] \in Octet
    BY <1>1, <1>9
  <2>2. /\ body \in Seq(Octet)
        /\ Len(body) = IF 3 <= 10 + n THEN (10 + n) - 3 + 1 ELSE 0
        /\ \A i \in 1 .. ((10 + n) - 3 + 1) : body[i] = bytes[3 + i - 1]
    BY <1>1, <2>1, SubSeqProperties
  <2>3. (10 + n) - 3 + 1 = 8 + n /\ 3 <= 10 + n
    BY <1>1
  <2> HIDE DEF body
  <2>4. body \in Seq(Octet) /\ Len(body) = 8 + n
    BY <2>2, <2>3
  <2>5. ASSUME NEW i \in 1 .. (8 + n) PROVE body[i] = P[i]
    <3>1. body[i] = bytes[3 + i - 1]
      BY <2>2, <2>3
    <3>2. 3 + i - 1 = 2 + i /\ 2 + i \in 1 .. (12 + n)
      BY <1>1
    <3>3. bytes[2 + i] = E[2 + i] /\ E[2 + i] = P[i]
      BY <1>4, <1>8, <3>2
    <3>4. QED
      BY <3>1, <3>2, <3>3
  <2>6. QED
    BY <1>5, <2>4, <2>5, SeqEqual
<1>11. tail = S
  <2> HIDE DEF n, E, P, S
  <2>1. \A i \in 11 .. (10 + n) : bytes[i] \in Octet
    BY <1>1, <1>9
  <2>2. /\ tail \in Seq(Octet)
        /\ Len(tail) = IF 11 <= 10 + n THEN (10 + n) - 11 + 1 ELSE 0
        /\ \A i \in 1 .. ((10 + n) - 11 + 1) : tail[i] = bytes[11 + i - 1]
    BY <1>1, <2>1, SubSeqProperties
  <2>3. (10 + n) - 11 + 1 = n /\ (11 <= 10 + n <=> n # 0)
    BY <1>1
  <2> HIDE DEF tail
  <2>4. tail \in Seq(Octet) /\ Len(tail) = n
    BY <2>2, <2>3
  <2>5. ASSUME NEW i \in 1 .. n PROVE tail[i] = S[i]
    <3>1. tail[i] = bytes[11 + i - 1]
      BY <2>2, <2>3
    <3>2. 11 + i - 1 = 2 + (8 + i) /\ 2 + (8 + i) \in 1 .. (12 + n) /\ 8 + i \in 1 .. (8 + n)
      BY <1>1
    <3>3. bytes[2 + (8 + i)] = E[2 + (8 + i)] /\ E[2 + (8 + i)] = P[8 + i]
      BY <1>4, <1>8, <3>2
    <3>4. P[8 + i] = S[i]
      BY <1>5, <1>6 DEF S, n
    <3>5. QED
      BY <3>1, <3>2, <3>3, <3>4
  <2>6. QED
    BY <1>6, <2>4, <2>5, SeqEqual
<1>12. ActualCrc(bytes) = crc
  BY <1>7, <1>10 DEF ActualCrc
<1>13. ExpectedCrc(bytes) = crc
  <2> HIDE DEF n, crc, E
  <2>1. ExpectedCrc(bytes) = bytes[(10 + n) + 1] + 256 * bytes[((10 + n) + 1) + 1]
    BY <1>7 DEF ExpectedCrc, read_u16_le, At
  <2>2. /\ (10 + n) + 1 = 11 + n /\ ((10 + n) + 1) + 1 = 12 + n
        /\ 11 + n \in 1 .. (12 + n) /\ 12 + n \in 1 .. (12 + n)
    BY <1>1
  <2>3. bytes[11 + n] = crc % 256 /\ bytes[12 + n] = crc \div 256
    BY <1>4, <1>8, <2>2
  <2>4. QED
    BY <1>3, <2>1, <2>2, <2>3
<1>14. DecodeStatusOf(bytes) = "Ok"
  <2>1. CrcStatus(bytes) = "Ok"
    BY <1>12, <1>13 DEF CrcStatus
  <2>2. DecodeStatusOf(bytes) = CrcStatus(bytes)
    BY <1>1, SizeDecides
  <2>3. QED
    BY <2>1, <2>2
<1>15. DecodedFrame(bytes) = [frame EXCEPT !.payload = S]
  <2>1. decode_message_type(At(bytes, 3)) = frame.message_type
    BY <1>7, Accepted, TypeCode
  <2>2. DecodedFrame(bytes) =
          [version |-> frame.version, message_type |-> frame.message_type,
           payload_length |-> n, sequence |-> frame.sequence, payload |-> S]
    BY <1>7, <1>11, <2>1 DEF DecodedFrame
  <2>3. frame \in [version : Octet, message_type : MessageType, payload_length : Nat,
                  sequence : Nat, payload : Seq(Octet)]
    BY DEF Encodable
  <2> HIDE DEF S
  <2>4. [frame EXCEPT !.payload = S] =
          [version |-> frame.version, message_type |-> frame.message_type,
           payload_length |-> frame.payload_length, sequence |-> frame.sequence,
           payload |-> S]
    BY <2>3
  <2>5. QED
    BY <2>2, <2>4
<1>16. QED
  BY <1>14, <1>15

(* A frame decode() accepts declares a payload that its array holds.       *)
LEMMA AcceptedLength ==
  ASSUME NEW bytes \in Seq(Octet), DecodeStatusOf(bytes) = "Ok"
  PROVE  /\ read_u16_le(bytes, 4) \in Nat
         /\ read_u16_le(bytes, 4) <= maximum_payload_size
<1>1. /\ ~(Len(bytes) < 12)
      /\ ~(read_u16_le(bytes, 4) > maximum_payload_size)
  BY DEF DecodeStatusOf, minimum_frame_size
<1>2. bytes[5] \in Octet /\ bytes[6] \in Octet
  BY <1>1, LenProperties, ElementOfSeq
<1>3. read_u16_le(bytes, 4) = bytes[5] + 256 * bytes[6]
  BY DEF read_u16_le, At
<1>4. read_u16_le(bytes, 4) \in Nat
  BY <1>2, <1>3, OctetIs
<1>5. QED
  BY <1>1, <1>4 DEF maximum_payload_size

-----------------------------------------------------------------------------
(* Enumerations.                                                           *)

(* A table gives each name a code of its own, and each code its name.      *)
OneToOne(table) ==
  /\ \A name \in DOMAIN table :
       /\ table[name] \in Octet
       /\ IsCode(table, table[name]) /\ NameOf(table, table[name]) = name
  /\ \A code : IsCode(table, code) =>
       NameOf(table, code) \in DOMAIN table /\ table[NameOf(table, code)] = code

(* Codes that are octets and differ are enough for that.                   *)
LEMMA Coded ==
  ASSUME NEW table,
         \A name \in DOMAIN table : table[name] \in Octet,
         \A x, y \in DOMAIN table : table[x] = table[y] => x = y
  PROVE  OneToOne(table)
<1>1. ASSUME NEW name \in DOMAIN table
      PROVE  IsCode(table, table[name]) /\ NameOf(table, table[name]) = name
  BY DEF IsCode, NameOf
<1>2. ASSUME NEW code, IsCode(table, code)
      PROVE  NameOf(table, code) \in DOMAIN table /\ table[NameOf(table, code)] = code
  BY <1>2 DEF IsCode, NameOf
<1>3. QED
  BY <1>1, <1>2 DEF OneToOne

(* The three enumerations are such tables.                                 *)
LEMMA Tables == OneToOne(CommandCode) /\ OneToOne(AckStatusCode) /\ OneToOne(FlightModeCode)
<1>1. 0 \in Octet /\ 1 \in Octet /\ 2 \in Octet /\ 3 \in Octet
  BY OctetIs
<1>2. OneToOne(CommandCode)
  <2>1. \A name \in DOMAIN CommandCode : CommandCode[name] \in Octet
    BY <1>1 DEF CommandCode
  <2>2. \A x, y \in DOMAIN CommandCode : CommandCode[x] = CommandCode[y] => x = y
    BY DEF CommandCode
  <2>3. QED
    BY <2>1, <2>2, Coded
<1>3. OneToOne(AckStatusCode)
  <2>1. \A name \in DOMAIN AckStatusCode : AckStatusCode[name] \in Octet
    BY <1>1 DEF AckStatusCode
  <2>2. \A x, y \in DOMAIN AckStatusCode : AckStatusCode[x] = AckStatusCode[y] => x = y
    BY DEF AckStatusCode
  <2>3. QED
    BY <2>1, <2>2, Coded
<1>4. OneToOne(FlightModeCode)
  <2>1. \A name \in DOMAIN FlightModeCode : FlightModeCode[name] \in Octet
    BY <1>1 DEF FlightModeCode
  <2>2. \A x, y \in DOMAIN FlightModeCode : FlightModeCode[x] = FlightModeCode[y] => x = y
    BY DEF FlightModeCode
  <2>3. QED
    BY <2>1, <2>2, Coded
<1>5. QED
  BY <1>2, <1>3, <1>4

-----------------------------------------------------------------------------
(* Frames.                                                                 *)

(* A frame around exactly its payload.                                     *)
WellFramed(frame) == Encodable(frame) /\ Len(frame.payload) = frame.payload_length

(* What decode() returns of a frame.                                       *)
Received(frame) == [frame EXCEPT !.payload = SubSeq(@, 1, frame.payload_length)]

(* The fields of such a frame.                                             *)
LEMMA FramedFields ==
  ASSUME NEW frame, WellFramed(frame)
  PROVE  /\ frame.version = 1 /\ frame.message_type \in MessageType
         /\ frame.sequence \in Nat /\ TopByte(frame.sequence) \in Octet
         /\ frame.payload \in Seq(Octet) /\ Len(frame.payload) = frame.payload_length
         /\ frame.payload_length \in Nat /\ frame.payload_length <= 64
  BY Accepted DEF WellFramed

(* encode() and decode() hand over a frame around the payload that was     *)
(* meant, and one around exactly its payload as it is.                     *)
LEMMA Transmitted ==
  ASSUME NEW frame, Encodable(frame)
  PROVE  /\ DecodeStatusOf(Encode(frame)) = "Ok"
         /\ DecodedFrame(Encode(frame)) = Received(frame)
         /\ WellFramed(Received(frame)) /\ Encode(Received(frame)) = Encode(frame)
         /\ Encode(frame) \in Seq(Octet) /\ Len(Encode(frame)) <= maximum_frame_size
         /\ WellFramed(frame) => Received(frame) = frame
<1> DEFINE n == frame.payload_length
           p == SubSeq(frame.payload, 1, n)
           whole == Received(frame)
<1>1. /\ Encode(frame) \in Seq(Octet) /\ Len(Encode(frame)) = 12 + n
      /\ Agrees(Encode(frame), frame)
  BY EncodedLayout DEF Agrees
<1>2. DecodeStatusOf(Encode(frame)) = "Ok" /\ DecodedFrame(Encode(frame)) = whole
  BY <1>1, DecodeOfEncode DEF Received
<1>3. n \in Nat /\ n <= 64
  BY Accepted
<1>4. Len(Encode(frame)) <= maximum_frame_size
  <2> HIDE DEF n
  <2>1. QED
    BY <1>1, <1>3 DEF maximum_frame_size
<1>5. p \in Seq(Octet) /\ Len(p) = n
  BY SentPayload
<1>6. frame \in [version : Octet, message_type : MessageType, payload_length : Nat,
                  sequence : Nat, payload : Seq(Octet)]
  BY DEF Encodable
<1> HIDE DEF p
<1>7. whole = [frame EXCEPT !.payload = p]
  BY DEF Received, p
<1>8. /\ whole \in [version : Octet, message_type : MessageType, payload_length : Nat,
                    sequence : Nat, payload : Seq(Octet)]
      /\ whole.version = frame.version /\ whole.message_type = frame.message_type
      /\ whole.payload_length = n /\ whole.sequence = frame.sequence
      /\ whole.payload = p
  BY <1>5, <1>6, <1>7
<1> HIDE DEF whole
<1>9. WellFramed(whole)
  <2>1. EncodeStatusOf(whole) = "Ok"
    BY <1>8 DEF Encodable, EncodeStatusOf
  <2>2. n <= n
    BY <1>3
  <2>3. QED
    BY <1>5, <1>8, <2>1, <2>2 DEF Encodable, WellFramed
<1>10. Encode(whole) = Encode(frame)
  <2>1. SubSeq(p, 1, n) = p
    BY <1>5, SubSeqFull
  <2>2. Protected(whole) = Protected(frame)
    BY <1>8, <2>1 DEF Protected, p
  <2>3. QED
    BY <2>2 DEF Encode
<1>11. WellFramed(frame) => whole = frame
  <2> SUFFICES ASSUME WellFramed(frame) PROVE whole = frame
    OBVIOUS
  <2>1. frame.payload \in Seq(Octet) /\ Len(frame.payload) = n
    BY FramedFields
  <2>2. p = frame.payload
    BY <2>1, SubSeqFull DEF p
  <2>3. QED
    BY <1>6, <1>7, <2>2
<1>12. QED
  BY <1>1, <1>2, <1>4, <1>9, <1>10, <1>11 DEF whole

(* Every frame that a message is put into is accepted by encode().         *)
LEMMA Made ==
  ASSUME NEW type \in MessageType, NEW sequence \in Nat, FitsU32(sequence),
         NEW payload \in Seq(Octet), Len(payload) \in Nat, Len(payload) <= 64
  PROVE  /\ WellFramed(MakeFrame(type, sequence, payload))
         /\ EncodeStatusOf(MakeFrame(type, sequence, payload)) = "Ok"
         /\ MakeFrame(type, sequence, payload).message_type = type
         /\ MakeFrame(type, sequence, payload).sequence = sequence
         /\ MakeFrame(type, sequence, payload).payload = payload
         /\ MakeFrame(type, sequence, payload).payload_length = Len(payload)
<1> DEFINE frame == MakeFrame(type, sequence, payload)
<1>1. 1 \in Octet /\ protocol_version = 1
  BY OctetIs DEF protocol_version
<1>2. /\ frame.version = 1 /\ frame.message_type = type /\ frame.sequence = sequence
      /\ frame.payload = payload /\ frame.payload_length = Len(payload)
      /\ frame \in [version : Octet, message_type : MessageType, payload_length : Nat,
                    sequence : Nat, payload : Seq(Octet)]
  BY <1>1 DEF MakeFrame
<1> HIDE DEF frame
<1>3. EncodeStatusOf(frame) = "Ok"
  BY <1>1, <1>2 DEF EncodeStatusOf, maximum_payload_size
<1>4. Encodable(frame)
  BY <1>2, <1>3 DEF Encodable, FitsU32, TopByte
<1>5. QED
  BY <1>2, <1>3, <1>4 DEF WellFramed, frame

(* A frame made again from its type, sequence and payload is the same.     *)
LEMMA Remade ==
  ASSUME NEW frame, WellFramed(frame)
  PROVE  MakeFrame(frame.message_type, frame.sequence, frame.payload) = frame
<1>1. frame \in [version : Octet, message_type : MessageType, payload_length : Nat,
                  sequence : Nat, payload : Seq(Octet)]
  BY DEF WellFramed, Encodable
<1>2. frame.version = 1 /\ Len(frame.payload) = frame.payload_length
  BY FramedFields
<1>3. QED
  BY <1>1, <1>2 DEF MakeFrame, protocol_version

-----------------------------------------------------------------------------
(* Commands.                                                               *)

IsCommand(given) ==
  /\ given \in [sequence : Nat, command : DOMAIN CommandCode, period_ms : Nat]
  /\ FitsU32(given.sequence) /\ FitsU32(given.period_ms)

CommandPayload(given) ==
  <<CommandCode[given.command]>> \o
  IF given.command = "SetTelemetryPeriod" THEN write_u32_le(given.period_ms) ELSE <<>>

CommandIn(frame) ==
  LET command == NameOf(CommandCode, frame.payload[1])
  IN  [sequence  |-> frame.sequence,
       command   |-> command,
       period_ms |-> IF command = "SetTelemetryPeriod"
                     THEN read_u32_le(frame.payload, 1) ELSE 0]

(* The decoder's answer in terms of the frame.                             *)
LEMMA CommandRead ==
  ASSUME NEW b, NEW frame, DecodeStatusOf(b) = "Ok", DecodedFrame(b) = frame
  PROVE  /\ DecodeCommandStatus(b) = IF frame.message_type # "Command"
                                      THEN "IncorrectMessageType"
                                      ELSE CommandPayloadStatus(frame)
         /\ DecodedCommand(b) = CommandIn(frame)
  BY DEF DecodeCommandStatus, DecodedCommand, CommandIn

(* The bytes of a command: its code, and a period where it has one.        *)
LEMMA CommandPayloadIs ==
  ASSUME NEW given, IsCommand(given)
  PROVE  LET p == CommandPayload(given)
             v == given.period_ms
         IN  /\ p \in Seq(Octet) /\ Len(p) = RequiredLength(given.command)
             /\ p[1] = CommandCode[given.command]
             /\ given.command = "SetTelemetryPeriod" =>
                  /\ p[2] = v % 256 /\ p[3] = (v \div 256) % 256
                  /\ p[4] = (v \div 65536) % 256 /\ p[5] = TopByte(v)
<1> DEFINE v == given.period_ms
           a == <<CommandCode[given.command]>>
           c == write_u32_le(v)
           p == CommandPayload(given)
<1>1. CommandCode[given.command] \in Octet
  BY Tables DEF OneToOne, IsCommand
<1>2. a \in Seq(Octet) /\ Len(a) = 1 /\ a[1] = CommandCode[given.command]
  BY <1>1
<1>3. v \in Nat /\ TopByte(v) \in Octet
  BY DEF IsCommand, FitsU32, TopByte
<1> HIDE DEF v
<1>4. /\ c \in Seq(Octet) /\ Len(c) = 4
      /\ c[1] = v % 256 /\ c[2] = (v \div 256) % 256
      /\ c[3] = (v \div 65536) % 256 /\ c[4] = TopByte(v)
  BY <1>3, FourBytes
<1>5. CASE given.command = "SetTelemetryPeriod"
  <2>1. p = a \o c
    BY <1>5 DEF CommandPayload, v
  <2> HIDE DEF a, c
  <2>2. a \in Seq(Octet) /\ Len(a) = 1 /\ c \in Seq(Octet) /\ Len(c) = 4
    BY <1>2, <1>4
  <2>3. IsJoin(a \o c, a, 1, c, 4)
    BY <2>2, Joined
  <2> HIDE DEF p
  <2>4. /\ p \in Seq(Octet) /\ Len(p) = 5
        /\ p[1] = a[1] /\ p[2] = c[1] /\ p[3] = c[2] /\ p[4] = c[3] /\ p[5] = c[4]
    BY <2>1, <2>3 DEF IsJoin
  <2>5. QED
    BY <1>2, <1>4, <1>5, <2>4 DEF RequiredLength, p, v
<1>6. CASE given.command # "SetTelemetryPeriod"
  <2>1. p = a \o <<>>
    BY <1>6 DEF CommandPayload
  <2>2. p = a
    BY <1>2, <2>1, ConcatEmptySeq
  <2> HIDE DEF a, p
  <2>3. QED
    BY <1>2, <1>6, <2>2 DEF RequiredLength, p
<1>7. QED
  BY <1>5, <1>6

(* Four bytes read are the four bytes of the number they make.             *)
LEMMA FourBytesRead ==
  ASSUME NEW a \in Octet, NEW b \in Octet, NEW c \in Octet, NEW d \in Octet
  PROVE  LET value == a + 256 * b + 65536 * (c + 256 * d)
         IN  /\ value \in Nat /\ TopByte(value) = d
             /\ value % 256 = a /\ (value \div 256) % 256 = b
             /\ (value \div 65536) % 256 = c
<1>1. /\ a \in Nat /\ a < 256 /\ b \in Nat /\ b < 256
      /\ c \in Nat /\ c < 256 /\ d \in Nat /\ d < 256
  BY OctetIs
<1>2. QED
  BY <1>1, SMT DEF TopByte

(* The period is the number that the four bytes behind the code make.      *)
LEMMA PeriodIs ==
  ASSUME NEW p \in Seq(Octet), Len(p) = 5
  PROVE  LET v == read_u32_le(p, 1)
         IN  /\ v = p[2] + 256 * p[3] + 65536 * (p[4] + 256 * p[5])
             /\ v \in Nat /\ TopByte(v) = p[5] /\ p[5] \in Octet
             /\ v % 256 = p[2] /\ (v \div 256) % 256 = p[3]
             /\ (v \div 65536) % 256 = p[4]
<1>1. /\ p[2] \in Octet /\ p[3] \in Octet /\ p[4] \in Octet /\ p[5] \in Octet
  BY ElementOfSeq
<1>2. read_u32_le(p, 1) = p[2] + 256 * p[3] + 65536 * (p[4] + 256 * p[5])
  BY DEF read_u32_le, read_u16_le, At
<1>3. QED
  BY <1>1, <1>2, FourBytesRead

(* A command that is accepted is read as it was given, without a period    *)
(* where it has none.                                                      *)
LEMMA CommandOut ==
  ASSUME NEW given, IsCommand(given)
  PROVE  /\ WellFramed(CommandFrame(given))
         /\ CommandFrame(given).message_type = "Command"
         /\ CommandPayloadStatus(CommandFrame(given)) = "Ok"
         /\ CommandIn(CommandFrame(given)) =
              IF given.command = "SetTelemetryPeriod" THEN given
              ELSE [given EXCEPT !.period_ms = 0]
<1> DEFINE frame == CommandFrame(given)
           p == CommandPayload(given)
           v == given.period_ms
<1>1. /\ given \in [sequence : Nat, command : DOMAIN CommandCode, period_ms : Nat]
      /\ given.sequence \in Nat /\ FitsU32(given.sequence)
      /\ given.command \in DOMAIN CommandCode
      /\ v \in Nat /\ TopByte(v) \in Octet
  BY DEF IsCommand, FitsU32, TopByte
<1>2. /\ p \in Seq(Octet) /\ Len(p) = RequiredLength(given.command)
      /\ p[1] = CommandCode[given.command]
      /\ given.command = "SetTelemetryPeriod" =>
           /\ p[2] = v % 256 /\ p[3] = (v \div 256) % 256
           /\ p[4] = (v \div 65536) % 256 /\ p[5] = TopByte(v)
  BY CommandPayloadIs
<1>3. Len(p) \in Nat /\ Len(p) <= 64 /\ Len(p) >= 1
  BY <1>2 DEF RequiredLength
<1>4. frame = MakeFrame("Command", given.sequence, p)
  BY DEF CommandFrame, CommandPayload
<1> HIDE DEF p
<1>5. /\ WellFramed(frame) /\ frame.message_type = "Command"
      /\ frame.sequence = given.sequence /\ frame.payload = p
      /\ frame.payload_length = Len(p)
  <2>1. "Command" \in MessageType
    BY DEF MessageType
  <2>2. QED
    BY <1>1, <1>2, <1>3, <1>4, <2>1, Made
<1> HIDE DEF frame
<1>6. /\ IsCode(CommandCode, frame.payload[1])
      /\ NameOf(CommandCode, frame.payload[1]) = given.command
  BY <1>1, <1>2, <1>5, Tables DEF OneToOne
<1>7. CommandPayloadStatus(frame) = "Ok"
  BY <1>2, <1>3, <1>5, <1>6 DEF CommandPayloadStatus
<1>8. CASE given.command = "SetTelemetryPeriod"
  <2>1. Len(p) = 5
    BY <1>2, <1>8 DEF RequiredLength
  <2>2. read_u32_le(p, 1) = v
    <3>1. read_u32_le(p, 1) = p[2] + 256 * p[3] + 65536 * (p[4] + 256 * p[5])
      BY <1>2, <2>1, PeriodIs
    <3>2. (v % 256) + 256 * ((v \div 256) % 256)
          + 65536 * (((v \div 65536) % 256) + 256 * TopByte(v)) = v
      BY <1>1, FourBytes
    <3> HIDE DEF v
    <3>3. QED
      BY <1>2, <1>8, <3>1, <3>2
  <2>3. CommandIn(frame) = [sequence |-> given.sequence, command |-> given.command,
                            period_ms |-> given.period_ms]
    BY <1>5, <1>6, <1>8, <2>2 DEF CommandIn
  <2>4. CommandIn(frame) = given
    BY <1>1, <2>3
  <2>5. QED
    BY <1>5, <1>7, <1>8, <2>4 DEF frame
<1>9. CASE given.command # "SetTelemetryPeriod"
  <2>1. CommandIn(frame) = [sequence |-> given.sequence, command |-> given.command,
                            period_ms |-> 0]
    BY <1>5, <1>6, <1>9 DEF CommandIn
  <2>2. CommandIn(frame) = [given EXCEPT !.period_ms = 0]
    BY <1>1, <2>1
  <2>3. QED
    BY <1>5, <1>7, <1>9, <2>2 DEF frame
<1>10. QED
  BY <1>8, <1>9

(* A frame accepted as a command is the frame of that command.             *)
LEMMA CommandBack ==
  ASSUME NEW frame, WellFramed(frame), frame.message_type = "Command",
         CommandPayloadStatus(frame) = "Ok"
  PROVE  /\ CommandFrame(CommandIn(frame)) = frame
         /\ CommandIn(frame).command \in DOMAIN CommandCode
         /\ CommandIn(frame).period_ms \in Nat
<1> DEFINE p == frame.payload
           given == CommandIn(frame)
           q == CommandPayload(given)
<1>1. /\ frame.sequence \in Nat /\ TopByte(frame.sequence) \in Octet
      /\ p \in Seq(Octet) /\ Len(p) = frame.payload_length
      /\ frame.payload_length \in Nat
  BY FramedFields
<1>2. /\ IsCode(CommandCode, p[1])
      /\ Len(p) = RequiredLength(NameOf(CommandCode, p[1]))
  BY <1>1 DEF CommandPayloadStatus
<1>3. /\ given.sequence = frame.sequence
      /\ given.command = NameOf(CommandCode, p[1])
      /\ given.period_ms = IF given.command = "SetTelemetryPeriod"
                           THEN read_u32_le(p, 1) ELSE 0
      /\ given = [sequence |-> given.sequence, command |-> given.command,
                  period_ms |-> given.period_ms]
  BY DEF CommandIn
<1>4. given.command \in DOMAIN CommandCode /\ CommandCode[given.command] = p[1]
  BY <1>2, <1>3, Tables DEF OneToOne
<1> HIDE DEF given, p
<1>5. given.command = "SetTelemetryPeriod" =>
        /\ Len(p) = 5 /\ given.period_ms = read_u32_le(p, 1)
        /\ given.period_ms \in Nat /\ TopByte(given.period_ms) \in Octet
        /\ TopByte(given.period_ms) = p[5]
        /\ given.period_ms % 256 = p[2] /\ (given.period_ms \div 256) % 256 = p[3]
        /\ (given.period_ms \div 65536) % 256 = p[4]
  <2> SUFFICES ASSUME given.command = "SetTelemetryPeriod"
               PROVE  /\ Len(p) = 5 /\ given.period_ms = read_u32_le(p, 1)
                      /\ given.period_ms \in Nat /\ TopByte(given.period_ms) \in Octet
                      /\ TopByte(given.period_ms) = p[5]
                      /\ given.period_ms % 256 = p[2]
                      /\ (given.period_ms \div 256) % 256 = p[3]
                      /\ (given.period_ms \div 65536) % 256 = p[4]
    OBVIOUS
  <2>1. Len(p) = 5 /\ given.period_ms = read_u32_le(p, 1)
    BY <1>2, <1>3 DEF RequiredLength
  <2>2. QED
    BY <1>1, <2>1, PeriodIs
<1>6. given.command # "SetTelemetryPeriod" => Len(p) = 1 /\ given.period_ms = 0
  BY <1>2, <1>3 DEF RequiredLength
<1>7. given.period_ms \in Nat /\ TopByte(given.period_ms) \in Octet
  <2>1. 0 \in Octet /\ TopByte(0) = 0
    BY OctetIs, SMT DEF TopByte
  <2>2. QED
    BY <1>5, <1>6, <2>1
<1>8. IsCommand(given)
  <2>1. given \in [sequence : Nat, command : DOMAIN CommandCode, period_ms : Nat]
    BY <1>1, <1>3, <1>4, <1>7
  <2>2. QED
    BY <1>1, <1>3, <1>7, <2>1 DEF IsCommand, FitsU32, TopByte
<1>9. /\ q \in Seq(Octet) /\ Len(q) = RequiredLength(given.command)
      /\ q[1] = CommandCode[given.command]
      /\ given.command = "SetTelemetryPeriod" =>
           /\ q[2] = given.period_ms % 256 /\ q[3] = (given.period_ms \div 256) % 256
           /\ q[4] = (given.period_ms \div 65536) % 256 /\ q[5] = TopByte(given.period_ms)
  BY <1>8, CommandPayloadIs
<1>10. q = p
  <2> HIDE DEF q
  <2>1. CASE given.command = "SetTelemetryPeriod"
    <3>1. /\ q[1] = p[1] /\ q[2] = p[2] /\ q[3] = p[3] /\ q[4] = p[4] /\ q[5] = p[5]
      BY <1>4, <1>5, <1>9, <2>1
    <3>2. Len(q) = 5 /\ Len(p) = 5
      BY <1>5, <1>9, <2>1 DEF RequiredLength
    <3>3. \A i \in 1 .. 5 : i = 1 \/ i = 2 \/ i = 3 \/ i = 4 \/ i = 5
      OBVIOUS
    <3>4. \A i \in 1 .. Len(q) : q[i] = p[i]
      BY <3>1, <3>2, <3>3
    <3>5. QED
      BY <1>1, <1>9, <3>2, <3>4, SeqEqual
  <2>2. CASE given.command # "SetTelemetryPeriod"
    <3>1. q[1] = p[1] /\ Len(q) = 1 /\ Len(p) = 1
      BY <1>4, <1>6, <1>9, <2>2 DEF RequiredLength
    <3>2. \A i \in 1 .. Len(q) : q[i] = p[i]
      BY <3>1
    <3>3. QED
      BY <1>1, <1>9, <3>1, <3>2, SeqEqual
  <2>3. QED
    BY <2>1, <2>2
<1>11. CommandFrame(given) = MakeFrame("Command", given.sequence, q)
  BY DEF CommandFrame, CommandPayload
<1>12. CommandFrame(given) = MakeFrame(frame.message_type, frame.sequence, frame.payload)
  BY <1>3, <1>10, <1>11 DEF p
<1>13. CommandFrame(given) = frame
  BY <1>12, Remade
<1>14. QED
  BY <1>4, <1>7, <1>13 DEF given
=============================================================================
