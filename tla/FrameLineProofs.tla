--------------------------- MODULE FrameLineProofs ---------------------------
(***************************************************************************)
(* What FrameLine's runs check on seven frames, for every frame a C++      *)
(* `Frame' can be: encode() and decode() agree on it, its buffers hold it, *)
(* a frame of the wrong size is judged by its size, and a frame with few   *)
(* bits flipped is refused.  The lemmas about the two functions are        *)
(* CodecProofs.                                                            *)
(***************************************************************************)
EXTENDS FrameLine, CodecProofs, FiniteSetTheorems

(* Nothing is under way, and nothing happened, before a frame is sent.     *)
Quiet == pc = "idle" => line = <<>> /\ flipped = {} /\ resized = 0

(* What is under way: as many bytes as encode() made and the line added or *)
(* took, and where they were in the frame they are the frame's, unless     *)
(* bits were flipped.                                                      *)
UnderWay ==
  /\ resized \in Int
  /\ pc \in {"line", "judged"} =>
       /\ EncodeStatusOf(sent) = "Ok"
       /\ Len(line) = 12 + sent.payload_length + resized
       /\ flipped = {} => Agrees(line, sent)

(* The status and the frame are decode()'s answer to the bytes received.   *)
Judgement ==
  pc = "judged" =>
    /\ status = DecodeStatusOf(line)
    /\ heard = IF status = "Ok" THEN DecodedFrame(line) ELSE NoFrame

IInv == TypeOK /\ Quiet /\ UnderWay /\ Judgement

-----------------------------------------------------------------------------
(* A frame that encode() accepts has the fields CodecProofs asks for.      *)
LEMMA SentEncodable ==
  ASSUME sent \in Frames, EncodeStatusOf(sent) = "Ok"
  PROVE  Encodable(sent) /\ sent.payload_length \in Nat /\ sent.payload_length <= 64
<1>1. /\ sent \in [version : Octet, message_type : STRING, payload_length : Nat,
                   sequence : Nat, payload : Seq(Octet)]
      /\ TopByte(sent.sequence) \in Octet
      /\ sent.payload_length <= maximum_payload_size
           => sent.payload_length <= Len(sent.payload)
  BY FramesAssumption DEF TopByte
<1>2. sent.payload_length \in Nat
  BY <1>1
<1>3. ~(sent.payload_length > maximum_payload_size)
  BY DEF EncodeStatusOf
<1>4. sent.payload_length <= maximum_payload_size
  BY <1>2, <1>3 DEF maximum_payload_size
<1>5. sent.message_type \in MessageType
  BY DEF EncodeStatusOf
<1>6. sent \in [version : Octet, message_type : MessageType, payload_length : Nat,
                sequence : Nat, payload : Seq(Octet)]
  BY <1>1, <1>5
<1>7. Encodable(sent)
  BY <1>1, <1>4, <1>6 DEF Encodable
<1>8. QED
  BY <1>2, <1>4, <1>7 DEF maximum_payload_size

(* A flipped bit of an octet leaves an octet.                              *)
LEMMA FlippedOctet ==
  ASSUME NEW byte, NEW bit \in Nat, bit <= 7
  PROVE  FlippedBit(byte, bit) \in Octet
<1>1. Bits(byte, 8) \subseteq 0 .. 7
  BY DEF Bits
<1>2. Xor(Bits(byte, 8), {bit}) \subseteq 0 .. 7
  BY <1>1 DEF Xor
<1>3. QED
  BY <1>2, OctetOfBits DEF FlippedBit

(* decode() answers with one of its statuses.                              *)
LEMMA StatusIs ==
  ASSUME NEW bytes
  PROVE  DecodeStatusOf(bytes) \in DecodeStatus
  BY DEF DecodeStatusOf, CrcStatus, DecodeStatus, EncodeStatus

(* The bytes as encode() made them agree with themselves.                  *)
LEMMA SentAgrees ==
  ASSUME sent \in Frames, EncodeStatusOf(sent) = "Ok"
  PROVE  /\ Encode(sent) \in Seq(Octet)
         /\ Len(Encode(sent)) = 12 + sent.payload_length
         /\ Agrees(Encode(sent), sent)
<1>1. Encodable(sent)
  BY SentEncodable
<1>2. QED
  BY <1>1, EncodedLayout DEF Agrees

-----------------------------------------------------------------------------
(* Initially nothing was sent.                                             *)
LEMMA InitIInv == Init => IInv
<1> SUFFICES ASSUME Init PROVE IInv
  OBVIOUS
<1>1. line \in Seq(Octet) /\ Len(line) = 0
  BY EmptySeq DEF Init
<1>2. TypeOK
  BY <1>1 DEF Init, TypeOK, EncodeStatus, maximum_frame_size
<1>3. Quiet /\ UnderWay /\ Judgement
  BY DEF Init, Quiet, UnderWay, Judgement
<1>4. QED
  BY <1>2, <1>3 DEF IInv

(* encode() hands over a whole frame, and it fits the buffer.              *)
LEMMA SendIInv == IInv /\ Send => IInv'
<1> SUFFICES ASSUME IInv, Send PROVE IInv'
  OBVIOUS
<1>1. /\ sent \in Frames /\ EncodeStatusOf(sent) = "Ok" /\ pc' = "line"
      /\ line' = Encode(sent) /\ resized = 0 /\ flipped = {}
      /\ UNCHANGED <<sent, flipped, resized, status, heard>>
  BY DEF IInv, TypeOK, Quiet, Send
<1>2. /\ line' \in Seq(Octet) /\ Len(line') = 12 + sent.payload_length
      /\ Agrees(line', sent)
  BY <1>1, SentAgrees
<1>3. sent.payload_length \in Nat /\ sent.payload_length <= 64
  BY <1>1, SentEncodable
<1>4. Len(line') <= maximum_frame_size
  BY <1>2, <1>3 DEF maximum_frame_size
<1>5. TypeOK'
  BY <1>1, <1>2, <1>4 DEF IInv, TypeOK
<1>6. UnderWay'
  BY <1>1, <1>2, <1>3 DEF UnderWay
<1>7. Quiet' /\ Judgement'
  BY <1>1 DEF Quiet, Judgement
<1>8. QED
  BY <1>5, <1>6, <1>7 DEF IInv

(* A flipped bit changes one byte and no length.                           *)
LEMMA FlipIInv ==
  ASSUME NEW position \in 0 .. (8 * Len(line) - 1), IInv, Flip(position)
  PROVE  IInv'
<1> DEFINE at == position \div 8 + 1
           bit == position % 8
           k == Len(line)
<1>1. /\ line \in Seq(Octet) /\ k \in Nat /\ resized = 0 /\ k <= maximum_frame_size
      /\ pc = "line" /\ resized \in Int
  BY LenProperties DEF IInv, TypeOK, Flip
<1>2. /\ line' = [line EXCEPT ![at] = FlippedBit(line[at], bit)]
      /\ flipped' = flipped \cup {position}
      /\ UNCHANGED <<pc, sent, resized, status, heard>>
  BY DEF Flip
<1>3. at \in 1 .. k /\ bit \in Nat /\ bit <= 7
  <2>1. position \in Nat /\ position <= 8 * k - 1
    BY <1>1
  <2> HIDE DEF k
  <2>2. QED
    BY <1>1, <2>1
<1>4. FlippedBit(line[at], bit) \in Octet
  BY <1>3, FlippedOctet
<1> HIDE DEF at, bit
<1>5. line' \in Seq(Octet) /\ Len(line') = k
  BY <1>1, <1>2, <1>3, <1>4, ExceptSeq
<1>6. TypeOK'
  BY <1>1, <1>2, <1>5 DEF IInv, TypeOK
<1>7. UnderWay'
  <2>1. flipped' # {}
    BY <1>2
  <2>2. QED
    BY <1>1, <1>2, <1>5, <2>1 DEF IInv, UnderWay
<1>8. Quiet' /\ Judgement'
  BY <1>1, <1>2 DEF Quiet, Judgement
<1>9. QED
  BY <1>6, <1>7, <1>8 DEF IInv

(* A cut leaves the bytes before it as they were.                          *)
LEMMA CutIInv == IInv /\ Cut => IInv'
<1> SUFFICES ASSUME IInv, Cut PROVE IInv'
  OBVIOUS
<1> DEFINE k == Len(line)
<1>1. /\ line \in Seq(Octet) /\ resized <= 0 /\ k <= maximum_frame_size
      /\ pc = "line" /\ line # <<>> /\ resized \in Int
  BY DEF IInv, TypeOK, UnderWay, Cut
<1>2. k \in Nat /\ k # 0
  BY <1>1, EmptySeq
<1>3. /\ line' = SubSeq(line, 1, k - 1) /\ resized' = resized - 1
      /\ UNCHANGED <<pc, sent, flipped, status, heard>>
  BY DEF Cut
<1>4. /\ line' \in Seq(Octet) /\ Len(line') = k - 1
      /\ \A i \in 1 .. (k - 1) : line'[i] = line[i]
  <2>1. \A i \in 1 .. (k - 1) : line[i] \in Octet
    BY <1>1, <1>2, ElementOfSeq
  <2> HIDE DEF k
  <2>2. /\ SubSeq(line, 1, k - 1) \in Seq(Octet)
        /\ Len(SubSeq(line, 1, k - 1)) = IF 1 <= k - 1 THEN (k - 1) - 1 + 1 ELSE 0
        /\ \A i \in 1 .. ((k - 1) - 1 + 1) :
             SubSeq(line, 1, k - 1)[i] = line[1 + i - 1]
    BY <1>2, <2>1, SubSeqProperties
  <2>3. (k - 1) - 1 + 1 = k - 1 /\ \A i \in Int : 1 + i - 1 = i
    BY <1>2
  <2>4. Len(SubSeq(line, 1, k - 1)) = k - 1
    BY <1>2, <2>2
  <2>5. QED
    BY <1>3, <2>2, <2>3, <2>4
<1>5. TypeOK'
  <2>1. Len(line') <= maximum_frame_size
    BY <1>1, <1>2, <1>4 DEF maximum_frame_size
  <2>2. QED
    BY <1>3, <1>4, <2>1 DEF IInv, TypeOK
<1>6. UnderWay'
  <2>1. /\ EncodeStatusOf(sent) = "Ok" /\ k = 12 + sent.payload_length + resized
        /\ flipped = {} => Agrees(line, sent)
    BY <1>1 DEF IInv, UnderWay
  <2>2. sent.payload_length \in Nat
    BY <2>1, SentEncodable DEF IInv, TypeOK
  <2>3. Len(line') = 12 + sent.payload_length + resized'
    BY <1>1, <1>2, <1>3, <1>4, <2>1, <2>2, SMTT(60)
  <2>4. ASSUME Agrees(line, sent) PROVE Agrees(line', sent)
    <3> SUFFICES ASSUME NEW i \in 1 .. (12 + sent.payload_length), i <= Len(line')
                 PROVE  line'[i] = Encode(sent)[i]
      BY <1>3 DEF Agrees
    <3> HIDE DEF k
    <3>1. i \in 1 .. (k - 1)
      BY <1>2, <1>4, <2>2
    <3>2. i <= k
      BY <1>2, <3>1
    <3>3. line[i] = Encode(sent)[i]
      BY <2>4, <3>2 DEF Agrees, k
    <3>4. QED
      BY <1>4, <3>1, <3>3
  <2>5. resized' \in Int
    BY <1>1, <1>3
  <2>6. QED
    BY <1>3, <2>1, <2>3, <2>4, <2>5 DEF UnderWay
<1>7. Quiet' /\ Judgement'
  BY <1>1, <1>3 DEF Quiet, Judgement
<1>8. QED
  BY <1>5, <1>6, <1>7 DEF IInv

(* A byte too many comes after the frame.                                  *)
LEMMA LengthenIInv ==
  ASSUME NEW byte \in {0, 165}, IInv, Lengthen(byte)
  PROVE  IInv'
<1> DEFINE k == Len(line)
<1>1. /\ line \in Seq(Octet) /\ resized = 0 /\ pc = "line" /\ k \in Nat
  BY LenProperties DEF IInv, TypeOK, Lengthen
<1>2. /\ line' = Append(line, byte) /\ resized' = 1
      /\ UNCHANGED <<pc, sent, flipped, status, heard>>
  BY <1>1 DEF Lengthen
<1>3. byte \in Octet
  BY OctetIs
<1>4. /\ line' \in Seq(Octet) /\ Len(line') = k + 1
      /\ \A i \in 1 .. k : line'[i] = line[i]
  BY <1>1, <1>2, <1>3, AppendProperties
<1>5. TypeOK'
  BY <1>2, <1>4 DEF IInv, TypeOK
<1>6. UnderWay'
  <2>1. /\ EncodeStatusOf(sent) = "Ok" /\ k = 12 + sent.payload_length + resized
        /\ flipped = {} => Agrees(line, sent)
    BY <1>1 DEF IInv, UnderWay
  <2>2. sent.payload_length \in Nat
    BY <2>1, SentEncodable DEF IInv, TypeOK
  <2>3. k = 12 + sent.payload_length
    BY <1>1, <2>1, <2>2
  <2>4. Len(line') = 12 + sent.payload_length + resized'
    BY <1>2, <1>4, <2>2, <2>3
  <2>5. ASSUME Agrees(line, sent) PROVE Agrees(line', sent)
    <3> SUFFICES ASSUME NEW i \in 1 .. (12 + sent.payload_length)
                 PROVE  line'[i] = Encode(sent)[i]
      BY <1>2 DEF Agrees
    <3>1. i \in 1 .. k
      BY <2>3
    <3> HIDE DEF k
    <3>2. i <= k
      BY <1>1, <3>1
    <3>3. line[i] = Encode(sent)[i]
      BY <2>5, <3>2 DEF Agrees, k
    <3>4. QED
      BY <1>4, <3>1, <3>3
  <2>6. QED
    BY <1>2, <2>1, <2>4, <2>5 DEF UnderWay
<1>7. Quiet' /\ Judgement'
  BY <1>1, <1>2 DEF Quiet, Judgement
<1>8. QED
  BY <1>5, <1>6, <1>7 DEF IInv

(* decode() is asked about the bytes as they are.                          *)
LEMMA ReceiveIInv == IInv /\ Receive => IInv'
<1> SUFFICES ASSUME IInv, Receive PROVE IInv'
  OBVIOUS
<1>1. /\ line \in Seq(Octet) /\ pc = "line" /\ pc' = "judged"
      /\ status' = DecodeStatusOf(line)
      /\ heard' = IF status' = "Ok" THEN DecodedFrame(line) ELSE NoFrame
      /\ UNCHANGED <<sent, line, flipped, resized>>
  BY DEF IInv, TypeOK, Receive
<1>2. status' \in DecodeStatus
  BY <1>1, StatusIs
<1>3. status' = "Ok" => /\ heard'.payload_length \in Nat
                        /\ heard'.payload_length <= maximum_payload_size
  BY <1>1, AcceptedLength DEF DecodedFrame
<1>4. heard' = NoFrame \/ heard'.payload_length \in 0 .. maximum_payload_size
  <2>1. maximum_payload_size \in Int
    BY DEF maximum_payload_size
  <2>2. CASE status' = "Ok"
    <3> DEFINE length == heard'.payload_length
    <3>1. length \in Nat /\ length <= maximum_payload_size
      BY <1>3, <2>2
    <3> HIDE DEF length
    <3>2. length \in 0 .. maximum_payload_size
      BY <2>1, <3>1
    <3>3. QED
      BY <3>2 DEF length
  <2>3. QED
    BY <1>1, <2>2
<1>5. TypeOK'
  BY <1>1, <1>2, <1>4 DEF IInv, TypeOK
<1>6. UnderWay'
  BY <1>1 DEF IInv, UnderWay
<1>7. Quiet' /\ Judgement'
  BY <1>1 DEF Quiet, Judgement
<1>8. QED
  BY <1>5, <1>6, <1>7 DEF IInv

(* Every step keeps the invariant.                                         *)
LEMMA NextIInv == IInv /\ [Next]_vars => IInv'
<1> SUFFICES ASSUME IInv, [Next]_vars PROVE IInv'
  OBVIOUS
<1>1. CASE Refuse
  <2>1. /\ pc = "idle" /\ pc' = "refused" /\ status' = EncodeStatusOf(sent)
        /\ UNCHANGED <<sent, line, flipped, resized, heard>>
    BY <1>1 DEF Refuse
  <2>2. status' \in EncodeStatus
    BY <2>1 DEF EncodeStatusOf, EncodeStatus
  <2>3. TypeOK'
    BY <2>1, <2>2 DEF IInv, TypeOK
  <2>4. UnderWay' /\ Quiet' /\ Judgement'
    BY <2>1 DEF IInv, UnderWay, Quiet, Judgement
  <2>5. QED
    BY <2>3, <2>4 DEF IInv
<1>2. CASE UNCHANGED vars
  <2>1. TypeOK'
    BY <1>2 DEF IInv, TypeOK, vars
  <2>2. UnderWay' /\ Quiet' /\ Judgement'
    BY <1>2 DEF IInv, UnderWay, Quiet, Judgement, Agrees, vars
  <2>3. QED
    BY <2>1, <2>2 DEF IInv
<1>3. QED
  BY <1>1, <1>2, SendIInv, FlipIInv, CutIInv, LengthenIInv, ReceiveIInv DEF Next

(* The invariant holds of every behaviour.                                 *)
THEOREM Invariance == Spec => []IInv
<1>1. QED
  BY InitIInv, NextIInv, PTL DEF Spec

-----------------------------------------------------------------------------
(* Every buffer stays in its array and every field in its width, whatever  *)
(* the line does to a frame.                                               *)
THEOREM TypeCorrect == Spec => []TypeOK
<1>1. IInv => TypeOK
  BY DEF IInv
<1>2. QED
  BY <1>1, Invariance, PTL

(* encode() and decode() agree on every frame, field for field.            *)
THEOREM EndsAgree == Spec => []RoundTrip
<1>1. IInv => RoundTrip
  <2> SUFFICES ASSUME IInv, pc = "judged", flipped = {}, resized = 0
               PROVE  /\ status = "Ok"
                      /\ heard = [sent EXCEPT !.payload = SubSeq(@, 1, sent.payload_length)]
    BY DEF RoundTrip, Intact
  <2>1. /\ sent \in Frames /\ line \in Seq(Octet) /\ EncodeStatusOf(sent) = "Ok"
        /\ Len(line) = 12 + sent.payload_length + resized /\ Agrees(line, sent)
        /\ status = DecodeStatusOf(line)
        /\ heard = IF status = "Ok" THEN DecodedFrame(line) ELSE NoFrame
    BY DEF IInv, TypeOK, UnderWay, Judgement
  <2>2. Encodable(sent) /\ sent.payload_length \in Nat
    BY <2>1, SentEncodable
  <2>3. Len(line) = 12 + sent.payload_length
    BY <2>1, <2>2
  <2>4. QED
    BY <2>1, <2>2, <2>3, DecodeOfEncode
<1>2. QED
  BY <1>1, Invariance, PTL

(* Wherever a frame is cut it is Truncated, and a frame with a byte too    *)
(* many is a LengthMismatch.                                               *)
THEOREM SizeFirst == Spec => []SizeJudgedFirst
<1>1. IInv => SizeJudgedFirst
  <2> SUFFICES ASSUME IInv, pc = "judged", flipped = {}
               PROVE  /\ resized < 0 => status = "Truncated"
                      /\ resized > 0 => status = "LengthMismatch"
    BY DEF SizeJudgedFirst
  <2>1. /\ sent \in Frames /\ line \in Seq(Octet) /\ EncodeStatusOf(sent) = "Ok"
        /\ resized \in Int
        /\ Len(line) = 12 + sent.payload_length + resized /\ Agrees(line, sent)
        /\ status = DecodeStatusOf(line)
    BY DEF IInv, TypeOK, UnderWay, Judgement
  <2>2. Encodable(sent) /\ sent.payload_length \in Nat
    BY <2>1, SentEncodable
  <2>3. /\ resized < 0 => Len(line) < 12 + sent.payload_length
        /\ resized > 0 => Len(line) > 12 + sent.payload_length
    BY <2>1, <2>2
  <2>4. QED
    BY <2>1, <2>2, <2>3, SizeDecides
<1>2. QED
  BY <1>1, Invariance, PTL

-----------------------------------------------------------------------------
(* Which damage the checksum notices.  The register is linear over         *)
(* exclusive or: what flipped bits add to it does not depend on the bytes, *)
(* each further byte shifts that difference eight times, and a frame is    *)
(* accepted only if the flipped bits of the stored checksum are that       *)
(* difference.                                                             *)

(* Exclusive or, and the shift.                                            *)

(* Exclusive or is an Abelian group in which everything is its own inverse.*)
LEMMA XorIs ==
  /\ \A a, b : Xor(a, b) = Xor(b, a)
  /\ \A a : Xor(a, {}) = a /\ Xor(a, a) = {}
  /\ \A a, b, c : Xor(Xor(a, b), c) = Xor(a, Xor(b, c))
<1>1. \A a, b : Xor(a, b) = Xor(b, a)
  BY Zenon DEF Xor
<1>2. \A a : Xor(a, {}) = a /\ Xor(a, a) = {}
  BY Zenon DEF Xor
<1>3. \A a, b, c : Xor(Xor(a, b), c) = Xor(a, Xor(b, c))
  BY SMT DEF Xor
<1>4. QED
  BY <1>1, <1>2, <1>3

(* Exclusive or keeps the width, and is nothing only of equal registers.   *)
LEMMA XorKeepsWidth ==
  ASSUME NEW a \in Register, NEW b \in Register
  PROVE  /\ Xor(a, b) \in Register
         /\ Xor(a, b) = {} <=> a = b
<1>1. Xor(a, b) \in Register
  BY DEF Register, Xor
<1>2. Xor(a, b) = {} <=> a = b
  BY Zenon DEF Xor
<1>3. QED
  BY <1>1, <1>2

(* The bits of a register after a shift.                                   *)
LEMMA ShiftedBits ==
  ASSUME NEW crc \in Register
  PROVE  /\ 0 \in ShiftOut(crc) <=> 15 \in crc
         /\ \A i \in 1 .. 15 : i \in ShiftOut(crc) <=>
              IF i = 5 \/ i = 12 THEN ~(i - 1 \in crc <=> 15 \in crc) ELSE i - 1 \in crc
<1> DEFINE up == {i + 1 : i \in crc \ {15}}
<1>1. 0 \notin up /\ \A i \in 1 .. 15 : i \in up <=> i - 1 \in crc
  BY DEF Register
<1>2. ShiftOut(crc) = IF 15 \in crc THEN Xor(up, polynomial) ELSE up
  BY DEF ShiftOut
<1> HIDE DEF up
<1>3. QED
  BY <1>1, <1>2 DEF Xor, polynomial

(* One of two is true.                                                     *)
Differ(p, q) == ~(p <=> q)

(* The bits b of a register after one shift of a.                          *)
Once(a, b) ==
  /\ 0 \in b <=> 15 \in a
  /\ 1 \in b <=> 0 \in a
  /\ 2 \in b <=> 1 \in a
  /\ 3 \in b <=> 2 \in a
  /\ 4 \in b <=> 3 \in a
  /\ 5 \in b <=> Differ(4 \in a, 15 \in a)
  /\ 6 \in b <=> 5 \in a
  /\ 7 \in b <=> 6 \in a
  /\ 8 \in b <=> 7 \in a
  /\ 9 \in b <=> 8 \in a
  /\ 10 \in b <=> 9 \in a
  /\ 11 \in b <=> 10 \in a
  /\ 12 \in b <=> Differ(11 \in a, 15 \in a)
  /\ 13 \in b <=> 12 \in a
  /\ 14 \in b <=> 13 \in a
  /\ 15 \in b <=> 14 \in a

(* The bits b of a register after eight shifts of a.                       *)
Eight(a, b) ==
  /\ 0 \in b <=> Differ(8 \in a, 12 \in a)
  /\ 1 \in b <=> Differ(9 \in a, 13 \in a)
  /\ 2 \in b <=> Differ(10 \in a, 14 \in a)
  /\ 3 \in b <=> Differ(11 \in a, 15 \in a)
  /\ 4 \in b <=> 12 \in a
  /\ 5 \in b <=> Differ(Differ(8 \in a, 12 \in a), 13 \in a)
  /\ 6 \in b <=> Differ(Differ(9 \in a, 13 \in a), 14 \in a)
  /\ 7 \in b <=> Differ(Differ(10 \in a, 14 \in a), 15 \in a)
  /\ 8 \in b <=> Differ(Differ(0 \in a, 11 \in a), 15 \in a)
  /\ 9 \in b <=> Differ(1 \in a, 12 \in a)
  /\ 10 \in b <=> Differ(2 \in a, 13 \in a)
  /\ 11 \in b <=> Differ(3 \in a, 14 \in a)
  /\ 12 \in b <=> Differ(Differ(Differ(4 \in a, 8 \in a), 12 \in a), 15 \in a)
  /\ 13 \in b <=> Differ(Differ(5 \in a, 9 \in a), 13 \in a)
  /\ 14 \in b <=> Differ(Differ(6 \in a, 10 \in a), 14 \in a)
  /\ 15 \in b <=> Differ(Differ(7 \in a, 11 \in a), 15 \in a)

(* A shift moves the bits up; the one that falls out is added at three     *)
(* places.                                                                 *)
LEMMA OneShift ==
  ASSUME NEW a \in Register
  PROVE  Once(a, ShiftOut(a))
  BY ShiftedBits DEF Once, Differ

(* Register b is what eight shifts make of a.                              *)
Turned(a, b) == a \in Register /\ b \in Register /\ Eight(a, b)

(* Eight shifts, one after the other.                                      *)
LEMMA EightShifts ==
  ASSUME NEW f \in [0 .. 8 -> Register], \A n \in 1 .. 8 : f[n] = ShiftOut(f[n - 1])
  PROVE  Turned(f[0], f[8])
<1>1. ASSUME NEW n \in 1 .. 8 PROVE Once(f[n - 1], f[n])
  <2>1. n - 1 \in 0 .. 8
    OBVIOUS
  <2>2. QED
    BY <2>1, OneShift
<1>2. /\ Once(f[0], f[1]) /\ Once(f[1], f[2]) /\ Once(f[2], f[3]) /\ Once(f[3], f[4])
      /\ Once(f[4], f[5]) /\ Once(f[5], f[6]) /\ Once(f[6], f[7]) /\ Once(f[7], f[8])
  BY <1>1
<1>3. Eight(f[0], f[8])
  BY <1>2 DEF Once, Eight, Differ
<1>4. QED
  BY <1>3 DEF Turned

(* They are linear.                                                        *)
LEMMA TurnedXor ==
  ASSUME NEW a, NEW b, NEW x, NEW y, Turned(a, x), Turned(b, y)
  PROVE  Turned(Xor(a, b), Xor(x, y))
<1>1. \A i : /\ i \in Xor(a, b) <=> Differ(i \in a, i \in b)
             /\ i \in Xor(x, y) <=> Differ(i \in x, i \in y)
  BY DEF Xor, Differ
<1>2. Eight(Xor(a, b), Xor(x, y))
  BY <1>1 DEF Turned, Eight, Differ
<1>3. QED
  BY <1>2, XorKeepsWidth DEF Turned

(* And injective: they leave nothing of nothing, and something of anything *)
(* else.                                                                   *)
LEMMA TurnedNothing ==
  ASSUME NEW a, NEW b, Turned(a, b)
  PROVE  a = {} <=> b = {}
<1>1. /\ a = {} <=> \A i \in 0 .. 15 : i \notin a
      /\ b = {} <=> \A i \in 0 .. 15 : i \notin b
  BY DEF Turned, Register
<1>2. (\A i \in 0 .. 15 : i \notin a) <=>
        /\ 0 \notin a /\ 1 \notin a /\ 2 \notin a /\ 3 \notin a
        /\ 4 \notin a /\ 5 \notin a /\ 6 \notin a /\ 7 \notin a
        /\ 8 \notin a /\ 9 \notin a /\ 10 \notin a /\ 11 \notin a
        /\ 12 \notin a /\ 13 \notin a /\ 14 \notin a /\ 15 \notin a
  OBVIOUS
<1>3. (\A i \in 0 .. 15 : i \notin b) <=>
        /\ 0 \notin b /\ 1 \notin b /\ 2 \notin b /\ 3 \notin b
        /\ 4 \notin b /\ 5 \notin b /\ 6 \notin b /\ 7 \notin b
        /\ 8 \notin b /\ 9 \notin b /\ 10 \notin b /\ 11 \notin b
        /\ 12 \notin b /\ 13 \notin b /\ 14 \notin b /\ 15 \notin b
  OBVIOUS
<1>4. QED
  BY <1>1, <1>2, <1>3 DEF Turned, Eight, Differ

(* The parity of four bits from k on.                                      *)
OddFour(bits, k) ==
  Differ(Differ(k \in bits, k + 1 \in bits), Differ(k + 2 \in bits, k + 3 \in bits))

(* The number of 1 bits is odd.                                            *)
Odd(bits) ==
  Differ(Differ(OddFour(bits, 0), OddFour(bits, 4)), Differ(OddFour(bits, 8), OddFour(bits, 12)))

(* Shifting keeps the parity: with the bit that falls out, three come in.  *)
LEMMA TurnedParity ==
  ASSUME NEW a, NEW b, Turned(a, b)
  PROVE  Odd(a) <=> Odd(b)
  BY DEF Turned, Eight, Odd, OddFour, Differ

(* Exclusive or adds parities.                                             *)
LEMMA XorParity ==
  ASSUME NEW a, NEW b
  PROVE  Odd(Xor(a, b)) <=> Differ(Odd(a), Odd(b))
<1>1. \A i : i \in Xor(a, b) <=> Differ(i \in a, i \in b)
  BY DEF Xor, Differ
<1>2. QED
  BY <1>1 DEF Odd, OddFour, Differ

(* A set of bits in the eight high places of a register.                   *)
High(bits) == {i + 8 : i \in bits}

(* Which eight bits it is makes no difference to the parity.               *)
LEMMA HighParity ==
  ASSUME NEW a, a \subseteq 0 .. 7
  PROVE  Odd(High(a)) <=> Odd(a)
<1>1. \A i \in 0 .. 7 : i + 8 \in High(a) <=> i \in a
  BY DEF High
<1>2. \A i \in 0 .. 7 : i \notin High(a) /\ i + 8 \notin a
  BY DEF High
<1>3. QED
  BY <1>1, <1>2 DEF Odd, OddFour, Differ

(* The bit 0 after n shifts: the powers of x modulo the polynomial.        *)
IsPowers(P) ==
  /\ P[0] = {0}
  /\ \A n \in 0 .. 640 : P[n] \in Register
  /\ \A n \in 1 .. 640 : P[n] = ShiftOut(P[n - 1])

(* There are such powers.                                                  *)
LEMMA PowersExist == \E P : IsPowers(P)
<1> DEFINE shift == [c \in Register |-> ShiftOut(c)]
           step == [n \in 1 .. 640 |-> shift]
<1>1. shift \in [Register -> Register]
  BY ShiftKeepsWidth
<1>2. step \in [1 .. 640 -> [Register -> Register]]
  BY <1>1
<1>3. {0} \in Register /\ 640 \in Nat
  BY DEF Register
<1>4. \A n \in 1 .. 640 : step[n] = shift
  OBVIOUS
<1> DEFINE base == {0}
           N == 640
<1>5. base \in Register /\ N \in Nat /\ step \in [1 .. N -> [Register -> Register]]
  BY <1>2, <1>3
<1> HIDE DEF step, shift, base, N
<1>6. PICK P : IsRun(P, Register, base, step, N)
  BY <1>5, LoopRuns
<1>7. IsRun(P, Register, {0}, step, 640)
  BY <1>6 DEF base, N
<1>8. P \in [0 .. 640 -> Register] /\ P[0] = {0}
  BY <1>7 DEF IsRun
<1>9. \A n \in 1 .. 640 : P[n] = step[n][P[n - 1]]
  BY <1>7 DEF IsRun
<1>10. \A n \in 0 .. 640 : P[n] \in Register
  BY <1>8
<1>11. ASSUME NEW n \in 1 .. 640 PROVE P[n] = ShiftOut(P[n - 1])
  <2>1. n - 1 \in 0 .. 640
    OBVIOUS
  <2>2. P[n - 1] \in Register
    BY <1>10, <2>1
  <2>3. shift[P[n - 1]] = ShiftOut(P[n - 1])
    BY <2>2 DEF shift
  <2>4. P[n] = shift[P[n - 1]]
    BY <1>4, <1>9
  <2>5. QED
    BY <2>3, <2>4
<1>12. P[0] = {0}
  BY <1>8
<1>13. QED
  BY <1>10, <1>11, <1>12, Zenon DEF IsPowers

(* Eight further.                                                          *)
LEMMA EightFurther ==
  ASSUME NEW P, IsPowers(P), NEW n \in 0 .. 632
  PROVE  Turned(P[n], P[n + 8])
<1> DEFINE f == [m \in 0 .. 8 |-> P[n + m]]
<1>1. \A m \in 0 .. 8 : n + m \in 0 .. 640
  OBVIOUS
<1>2. f \in [0 .. 8 -> Register]
  <2>1. \A i \in 0 .. 640 : P[i] \in Register
    BY Zenon DEF IsPowers
  <2>2. \A m \in 0 .. 8 : P[n + m] \in Register
    BY <1>1, <2>1, ZenonT(60)
  <2>3. QED
    BY <2>2
<1>3. ASSUME NEW m \in 1 .. 8 PROVE f[m] = ShiftOut(f[m - 1])
  <2>1. n + m \in 1 .. 640 /\ (n + m) - 1 = n + (m - 1) /\ m - 1 \in 0 .. 8
    OBVIOUS
  <2>2. P[n + m] = ShiftOut(P[(n + m) - 1])
    BY <2>1, Zenon DEF IsPowers
  <2>3. QED
    BY <2>1, <2>2
<1>4. f[0] = P[n] /\ f[8] = P[n + 8]
  OBVIOUS
<1> HIDE DEF f
<1>5. QED
  BY <1>2, <1>3, <1>4, EightShifts

(* The first sixteen powers are one bit each.                              *)
LEMMA FirstPowers ==
  ASSUME NEW P, IsPowers(P)
  PROVE  \A n \in 0 .. 15 : P[n] = {n}
<1> DEFINE S == {n \in Nat : n <= 15 => P[n] = {n}}
<1>1. 0 \in S
  BY DEF IsPowers
<1>2. ASSUME NEW n \in Nat, n \in S PROVE n + 1 \in S
  <2>1. SUFFICES ASSUME n + 1 <= 15 PROVE P[n + 1] = {n + 1}
    OBVIOUS
  <2>2. P[n] = {n} /\ n + 1 \in 1 .. 640 /\ (n + 1) - 1 = n
    BY <1>2, <2>1
  <2>3. P[n + 1] = ShiftOut({n})
    BY <2>2 DEF IsPowers
  <2>4. {i + 1 : i \in {n} \ {15}} = {n + 1} /\ 15 \notin {n}
    BY <2>1
  <2>5. QED
    BY <2>3, <2>4 DEF ShiftOut
<1> HIDE DEF S
<1>3. \A n \in Nat : n \in S
  BY <1>1, <1>2, SetInduction
<1>4. QED
  BY <1>3 DEF S

(* Two of the bits of every sixteenth power, up to the 592nd.              *)
TwoBits(Q) ==
  /\ 0 \in Q[2] /\ 5 \in Q[2] /\ 4 \in Q[4] /\ 5 \in Q[4]
  /\ 0 \in Q[6] /\ 4 \in Q[6] /\ 0 \in Q[8] /\ 5 \in Q[8]
  /\ 0 \in Q[10] /\ 1 \in Q[10] /\ 0 \in Q[12] /\ 3 \in Q[12]
  /\ 0 \in Q[14] /\ 1 \in Q[14] /\ 2 \in Q[16] /\ 3 \in Q[16]
  /\ 1 \in Q[18] /\ 5 \in Q[18] /\ 0 \in Q[20] /\ 1 \in Q[20]
  /\ 1 \in Q[22] /\ 2 \in Q[22] /\ 0 \in Q[24] /\ 1 \in Q[24]
  /\ 2 \in Q[26] /\ 4 \in Q[26] /\ 1 \in Q[28] /\ 2 \in Q[28]
  /\ 1 \in Q[30] /\ 2 \in Q[30] /\ 0 \in Q[32] /\ 3 \in Q[32]
  /\ 2 \in Q[34] /\ 3 \in Q[34] /\ 0 \in Q[36] /\ 2 \in Q[36]
  /\ 0 \in Q[38] /\ 1 \in Q[38] /\ 1 \in Q[40] /\ 3 \in Q[40]
  /\ 5 \in Q[42] /\ 6 \in Q[42] /\ 1 \in Q[44] /\ 3 \in Q[44]
  /\ 0 \in Q[46] /\ 1 \in Q[46] /\ 1 \in Q[48] /\ 5 \in Q[48]
  /\ 2 \in Q[50] /\ 5 \in Q[50] /\ 0 \in Q[52] /\ 1 \in Q[52]
  /\ 2 \in Q[54] /\ 3 \in Q[54] /\ 0 \in Q[56] /\ 2 \in Q[56]
  /\ 0 \in Q[58] /\ 2 \in Q[58] /\ 1 \in Q[60] /\ 2 \in Q[60]
  /\ 4 \in Q[62] /\ 5 \in Q[62] /\ 2 \in Q[64] /\ 3 \in Q[64]
  /\ 0 \in Q[66] /\ 1 \in Q[66] /\ 3 \in Q[68] /\ 6 \in Q[68]
  /\ 0 \in Q[70] /\ 3 \in Q[70] /\ 1 \in Q[72] /\ 4 \in Q[72]
  /\ 5 \in Q[74] /\ 10 \in Q[74]

(* Every sixteenth power has more than one bit.                            *)
LEMMA TwoBitsAtLeast ==
  ASSUME NEW Q, Q[0] = {0}, \A k \in 0 .. 73 : Eight(Q[k], Q[k + 1])
  PROVE  TwoBits(Q)
  BY SMTT(60) DEF TwoBits, Eight, Differ

(* Powers that are the same were the same all the way back, and stay so.   *)
LEMMA SamePowers ==
  ASSUME NEW P, IsPowers(P), NEW a \in Nat, NEW m \in Nat, a + m <= 640, P[a] = P[a + m]
  PROVE  \A k \in Nat : k + m <= 640 => P[k] = P[k + m]
<1> DEFINE f == [n \in Nat |-> P[n]]
           g == [n \in Nat |-> P[n + m]]
<1>1. \A n \in Nat : f[n] = P[n] /\ g[n] = P[n + m]
  OBVIOUS
<1> HIDE DEF f, g
<1>2. \A n \in 0 .. 640 : P[n] \in Register
  BY DEF IsPowers
<1>3. ASSUME NEW n \in Nat, n # 0, n + m <= 640
      PROVE  /\ f[n] = ShiftOut(f[n - 1]) /\ f[n - 1] \in Register
             /\ g[n] = ShiftOut(g[n - 1]) /\ g[n - 1] \in Register
  <2>1. /\ n - 1 \in Nat /\ n - 1 \in 0 .. 640 /\ n \in 1 .. 640
        /\ (n - 1) + m = (n + m) - 1 /\ (n + m) - 1 \in 0 .. 640 /\ n + m \in 1 .. 640
    BY <1>3
  <2>2. P[n] = ShiftOut(P[n - 1]) /\ P[n + m] = ShiftOut(P[(n + m) - 1])
    BY <2>1, ZenonT(60) DEF IsPowers
  <2>3. QED
    BY <1>1, <1>2, <2>1, <2>2, ZenonT(60)
<1>4. f[0] = g[0]
  <2>1. SUFFICES ASSUME f[0] # g[0] PROVE FALSE
    OBVIOUS
  <2>2. ASSUME NEW n \in (0 + 1) .. a, f[n - 1] # g[n - 1] PROVE f[n] # g[n]
    <3>1. n \in Nat /\ n # 0 /\ n + m <= 640
      OBVIOUS
    <3>2. QED
      BY <1>3, <2>2, <3>1, ShiftInjective
  <2>3. 0 \in 0 .. a
    OBVIOUS
  <2>4. f[a] # g[a]
    BY <2>1, <2>2, <2>3, StayApart
  <2>5. QED
    BY <1>1, <2>4
<1>5. ASSUME NEW k \in Nat, k + m <= 640 PROVE P[k] = P[k + m]
  <2>1. ASSUME NEW n \in 1 .. k, f[n - 1] = g[n - 1] PROVE f[n] = g[n]
    <3>1. n \in Nat /\ n # 0 /\ n + m <= 640
      BY <1>5
    <3>2. QED
      BY <1>3, <2>1, <3>1
  <2>2. f[k] = g[k]
    BY <1>4, <2>1, StayTogether
  <2>3. QED
    BY <1>1, <2>2
<1>6. QED
  BY <1>5

(* One bit of a register.                                                  *)
Single(bits) == \E c \in 0 .. 15 : bits = {c}

(* No power from the 16th on is one bit.                                   *)
LEMMA NoSinglePower ==
  ASSUME NEW P, IsPowers(P), NEW n \in 16 .. 591
  PROVE  ~Single(P[n])
<1>1. SUFFICES ASSUME NEW c \in 0 .. 15, P[n] = {c} PROVE FALSE
  BY DEF Single
<1> DEFINE m == n - c
           k == 16 * ((m + 15) \div 16) - m
           j == (m + 15) \div 16
<1>2. m \in Nat /\ m >= 1 /\ m <= 591 /\ c + m = n
  OBVIOUS
<1>3. P[c] = P[c + m]
  BY <1>1, <1>2, FirstPowers
<1> HIDE DEF m
<1>4. j \in 1 .. 37 /\ k \in 0 .. 15 /\ k + m = 16 * j
  BY <1>2
<1> HIDE DEF j, k
<1>5. P[k] = P[k + m]
  <2>1. c \in Nat /\ m \in Nat /\ c + m <= 640 /\ k \in Nat /\ k + m <= 640
    BY <1>2, <1>4
  <2>2. \A i \in Nat : i + m <= 640 => P[i] = P[i + m]
    BY <1>3, <2>1, SamePowers
  <2>3. QED
    BY <2>1, <2>2
<1>6. P[16 * j] = {k}
  BY <1>4, <1>5, FirstPowers
<1> DEFINE Q == [i \in 0 .. 74 |-> P[8 * i]]
<1>7. Q[0] = {0} /\ \A i \in 0 .. 73 : Eight(Q[i], Q[i + 1])
  <2>1. 8 * 0 = 0 /\ 0 \in 0 .. 74
    OBVIOUS
  <2>2. Q[0] = {0}
    BY <2>1 DEF IsPowers
  <2>3. ASSUME NEW i \in 0 .. 73 PROVE Eight(Q[i], Q[i + 1])
    <3> DEFINE x == 8 * i
    <3>1. x \in 0 .. 632 /\ 8 * (i + 1) = x + 8 /\ i \in 0 .. 74 /\ i + 1 \in 0 .. 74
      OBVIOUS
    <3> HIDE DEF x
    <3>2. Turned(P[x], P[x + 8])
      BY <3>1, EightFurther, ZenonT(60)
    <3> USE DEF x
    <3>3. QED
      BY <3>1, <3>2 DEF Turned
  <2>4. QED
    BY <2>2, <2>3
<1>8. 2 * j \in 0 .. 74 /\ Q[2 * j] = {k}
  <2>1. 2 * j \in 0 .. 74 /\ 8 * (2 * j) = 16 * j
    BY <1>4
  <2>2. QED
    BY <1>6, <2>1
<1> HIDE DEF Q
<1>9. TwoBits(Q)
  BY <1>7, TwoBitsAtLeast
<1>10. \A i \in 1 .. 37 : \E u, v \in Q[2 * i] : u # v
  BY <1>9 DEF TwoBits
<1>11. QED
  BY <1>4, <1>8, <1>10

-----------------------------------------------------------------------------
(* The difference that flipped bits make.                                  *)

(* A byte with some of its bits flipped.                                   *)
WithFlipped(byte, hit) == Value(Xor(Bits(byte, 8), hit))

(* The eight high places, and only those.                                  *)
LEMMA HighBits ==
  ASSUME NEW bits, bits \subseteq 0 .. 7
  PROVE  /\ \A i : i \in High(bits) => i \in 8 .. 15
         /\ \A i \in 8 .. 15 : i \in High(bits) <=> i - 8 \in bits
         /\ \A i \in 0 .. 7 : i + 8 \in High(bits) <=> i \in bits
<1>1. \A i \in bits : i \in 0 .. 7
  OBVIOUS
<1>2. \A i : i \in High(bits) <=> \E j \in bits : i = j + 8
  BY Zenon DEF High
<1>3. QED
  BY <1>1, <1>2

(* Flipped bits of a byte are flipped bits where it enters the register.   *)
LEMMA EnteringFlipped ==
  ASSUME NEW byte, NEW hit, hit \subseteq 0 .. 7
  PROVE  /\ WithFlipped(byte, hit) \in Octet
         /\ Entering(WithFlipped(byte, hit)) = Xor(Entering(byte), High(hit))
<1> DEFINE b == Bits(byte, 8)
           x == Xor(b, hit)
<1>1. b \subseteq 0 .. 7
  BY DEF Bits
<1>2. x \subseteq 0 .. 7 /\ \A i : i \in x <=> ~(i \in b <=> i \in hit)
  BY <1>1 DEF Xor
<1>3. WithFlipped(byte, hit) = Value(x)
  BY DEF WithFlipped
<1>4. Entering(byte) = High(b)
  BY DEF Entering, High
<1> HIDE DEF b, x
<1>5. Value(x) \in Octet /\ Entering(Value(x)) = High(x)
  BY <1>2, OctetOfBits, BitsOfValue DEF Entering, High
<1>6. High(x) = Xor(High(b), High(hit))
  <2>1. /\ \A i : i \in High(x) => i \in 8 .. 15
        /\ \A i \in 8 .. 15 : i \in High(x) <=> i - 8 \in x
    BY <1>2, HighBits
  <2>2. /\ \A i : i \in High(b) => i \in 8 .. 15
        /\ \A i \in 8 .. 15 : i \in High(b) <=> i - 8 \in b
    BY <1>1, HighBits
  <2>3. /\ \A i : i \in High(hit) => i \in 8 .. 15
        /\ \A i \in 8 .. 15 : i \in High(hit) <=> i - 8 \in hit
    BY HighBits
  <2>4. \A i \in 8 .. 15 : i \in High(x) <=> ~(i \in High(b) <=> i \in High(hit))
    BY <1>2, <2>1, <2>2, <2>3
  <2>5. QED
    BY <2>1, <2>4, <2>2, <2>3 DEF Xor
<1>7. QED
  BY <1>3, <1>4, <1>5, <1>6

(* The difference d of the registers of two loops over N bytes each that   *)
(* differ in the bits h.                                                   *)
IsDifference(d, h, N) ==
  /\ d \in [0 .. N -> Register] /\ d[0] = {}
  /\ \A n \in 1 .. N : Turned(Xor(d[n - 1], High(h[n])), d[n])

(* One byte that enters two registers, in one of them with flipped bits.   *)
LEMMA AbsorbDifference ==
  ASSUME NEW a \in Register, NEW b \in Register, NEW byte \in Octet,
         NEW hit, hit \subseteq 0 .. 7
  PROVE  Turned(Xor(Xor(a, b), High(hit)),
                Xor(Absorb[a][byte], Absorb[b][WithFlipped(byte, hit)]))
<1> DEFINE flip == WithFlipped(byte, hit)
<1>1. flip \in Octet /\ Entering(flip) = Xor(Entering(byte), High(hit))
  BY EnteringFlipped
<1> HIDE DEF flip
<1>2. PICK f : /\ f \in [0 .. 8 -> Register]
               /\ f[0] = Xor(a, Entering(byte))
               /\ \A n \in 1 .. 8 : f[n] = ShiftOut(f[n - 1])
               /\ Absorb[a][byte] = f[8]
  BY AbsorbTurns
<1>3. PICK g : /\ g \in [0 .. 8 -> Register]
               /\ g[0] = Xor(b, Entering(flip))
               /\ \A n \in 1 .. 8 : g[n] = ShiftOut(g[n - 1])
               /\ Absorb[b][flip] = g[8]
  BY <1>1, AbsorbTurns
<1>4. Turned(f[0], f[8]) /\ Turned(g[0], g[8])
  BY <1>2, <1>3, EightShifts
<1>5. Turned(Xor(f[0], g[0]), Xor(f[8], g[8]))
  BY <1>4, TurnedXor
<1>6. Xor(f[0], g[0]) = Xor(Xor(a, b), High(hit))
  <2> DEFINE x == Entering(byte)
             y == High(hit)
  <2>1. f[0] = Xor(a, x) /\ g[0] = Xor(b, Xor(x, y))
    BY <1>1, <1>2, <1>3
  <2> HIDE DEF x, y
  <2>2. Xor(Xor(a, x), Xor(b, Xor(x, y))) = Xor(Xor(a, b), y)
    BY SMT DEF Xor
  <2>3. QED
    BY <2>1, <2>2 DEF y
<1>7. QED
  BY <1>2, <1>3, <1>5, <1>6 DEF flip

(* The difference of the checksums of bytes with and without flipped bits. *)
LEMMA ChecksumDifference ==
  ASSUME NEW s \in Seq(Octet), NEW t \in Seq(Octet), NEW N \in Nat,
         Len(s) = N, Len(t) = N, NEW h,
         \A i \in 1 .. N : h[i] \subseteq 0 .. 7 /\ t[i] = WithFlipped(s[i], h[i])
  PROVE  \E d : IsDifference(d, h, N) /\ d[N] = Xor(Checksum(s), Checksum(t))
<1>1. PICK f : Passes(f, s, N)
  BY ChecksumTurns
<1>2. PICK g : Passes(g, t, N)
  BY ChecksumTurns
<1>3. \A n \in 0 .. N : f[n] \in Register /\ g[n] \in Register
  BY <1>1, <1>2 DEF Passes
<1> DEFINE d == [n \in 0 .. N |-> Xor(f[n], g[n])]
<1>4. d \in [0 .. N -> Register]
  BY <1>3, XorKeepsWidth
<1>5. \A n \in 0 .. N : d[n] = Xor(f[n], g[n])
  OBVIOUS
<1> HIDE DEF d
<1>6. d[0] = {}
  <2>1. f[0] = g[0] /\ 0 \in 0 .. N
    BY <1>1, <1>2 DEF Passes
  <2>2. QED
    BY <1>5, <2>1, XorIs
<1>7. ASSUME NEW n \in 1 .. N PROVE Turned(Xor(d[n - 1], High(h[n])), d[n])
  <2>1. n - 1 \in 0 .. N /\ n \in 0 .. N
    OBVIOUS
  <2>2. s[n] \in Octet
    BY ElementOfSeq
  <2>3. /\ f[n] = Absorb[f[n - 1]][s[n]]
        /\ g[n] = Absorb[g[n - 1]][WithFlipped(s[n], h[n])]
    BY <1>1, <1>2 DEF Passes
  <2>4. Turned(Xor(Xor(f[n - 1], g[n - 1]), High(h[n])), Xor(f[n], g[n]))
    BY <1>3, <2>1, <2>2, <2>3, AbsorbDifference
  <2>5. QED
    BY <1>5, <2>1, <2>4
<1>8. d[N] = Xor(Checksum(s), Checksum(t))
  BY <1>1, <1>2, <1>5 DEF Passes
<1>9. QED
  BY <1>4, <1>6, <1>7, <1>8 DEF IsDifference

(* The number of a low and a high byte.                                    *)
Wide(low, high) == low + 256 * high

(* The bits that a byte may have.                                          *)
ByteBits == SUBSET (0 .. 7)

(* The register whose two bytes have these bits.                           *)
Joint(low, high) == low \cup High(high)

(* The number of a register is made of those of its two bytes.             *)
LEMMA Halves ==
  ASSUME NEW low, low \subseteq 0 .. 7, NEW high, high \subseteq 0 .. 7,
         NEW bits, bits = Joint(low, high)
  PROVE  bits \in Register /\ Value(bits) = Wide(Value(low), Value(high))
<1>1. /\ bits \subseteq 0 .. 15
      /\ \A i \in 0 .. 7 : (i \in bits <=> i \in low) /\ (i + 8 \in bits <=> i \in high)
      /\ \A i \in 8 .. 15 : i \notin low /\ i \notin high
  <2>1. /\ \A i : i \in High(high) => i \in 8 .. 15
        /\ \A i \in 0 .. 7 : i + 8 \in High(high) <=> i \in high
    BY HighBits
  <2>2. \A i \in 0 .. 7 : i \notin 8 .. 15 /\ i + 8 \notin 0 .. 7
    OBVIOUS
  <2>3. \A i \in 8 .. 15 : i \notin 0 .. 7 /\ i \in 0 .. 15
    OBVIOUS
  <2>4. \A i \in 0 .. 7 : i \in 0 .. 15
    OBVIOUS
  <2>5. QED
    BY <2>1, <2>2, <2>3, <2>4 DEF Joint
<1>2. \A i \in 0 .. 7 : Bit(bits, i) = Bit(low, i) /\ Bit(bits, i + 8) = Bit(high, i)
  BY <1>1 DEF Bit
<1>3. /\ Bit(bits, 0) = Bit(low, 0) /\ Bit(bits, 0 + 1) = Bit(low, 0 + 1)
      /\ Bit(bits, 0 + 2) = Bit(low, 0 + 2) /\ Bit(bits, 0 + 3) = Bit(low, 0 + 3)
      /\ Bit(bits, 4) = Bit(low, 4) /\ Bit(bits, 4 + 1) = Bit(low, 4 + 1)
      /\ Bit(bits, 4 + 2) = Bit(low, 4 + 2) /\ Bit(bits, 4 + 3) = Bit(low, 4 + 3)
      /\ Bit(bits, 8) = Bit(high, 0) /\ Bit(bits, 8 + 1) = Bit(high, 0 + 1)
      /\ Bit(bits, 8 + 2) = Bit(high, 0 + 2) /\ Bit(bits, 8 + 3) = Bit(high, 0 + 3)
      /\ Bit(bits, 12) = Bit(high, 4) /\ Bit(bits, 12 + 1) = Bit(high, 4 + 1)
      /\ Bit(bits, 12 + 2) = Bit(high, 4 + 2) /\ Bit(bits, 12 + 3) = Bit(high, 4 + 3)
  BY <1>2
<1>4. \A i \in 8 .. 15 : Bit(low, i) = 0 /\ Bit(high, i) = 0
  BY <1>1 DEF Bit
<1>5. /\ Nibble(bits, 0) = Nibble(low, 0) /\ Nibble(bits, 4) = Nibble(low, 4)
      /\ Nibble(bits, 8) = Nibble(high, 0) /\ Nibble(bits, 12) = Nibble(high, 4)
  BY <1>3, Zenon DEF Nibble
<1>6. /\ Nibble(low, 8) = 0 /\ Nibble(low, 12) = 0
      /\ Nibble(high, 8) = 0 /\ Nibble(high, 12) = 0
  BY <1>4 DEF Nibble
<1>7. /\ Nibble(low, 0) \in Nat /\ Nibble(low, 4) \in Nat
      /\ Nibble(high, 0) \in Nat /\ Nibble(high, 4) \in Nat
  BY NibbleRange
<1>8. Value(bits) = Wide(Value(low), Value(high))
  BY <1>5, <1>6, <1>7 DEF Value, Wide
<1>9. QED
  BY <1>1, <1>8 DEF Register

(* The two bytes of a register.                                            *)
LEMMA RegisterHalves ==
  ASSUME NEW c \in Register
  PROVE  \E a, b : /\ a \subseteq 0 .. 7 /\ b \subseteq 0 .. 7 /\ c = Joint(a, b)
                   /\ Value(c) % 256 = Value(a) /\ Value(c) \div 256 = Value(b)
<1> DEFINE a == c \cap (0 .. 7)
           b == {i \in 0 .. 7 : i + 8 \in c}
<1>1. c = Joint(a, b)
  <2>1. /\ a \subseteq 0 .. 7 /\ \A i \in 0 .. 7 : i \in a <=> i \in c
        /\ b \subseteq 0 .. 7 /\ \A i \in 0 .. 7 : i \in b <=> i + 8 \in c
    OBVIOUS
  <2> HIDE DEF a, b
  <2>2. /\ \A i : i \in High(b) => i \in 8 .. 15
        /\ \A i \in 8 .. 15 : i \in High(b) <=> i - 8 \in b
    BY <2>1, HighBits
  <2>3. \A i \in 8 .. 15 : i \notin a /\ i - 8 \in 0 .. 7 /\ (i - 8) + 8 = i
    BY <2>1
  <2>4. \A i \in 0 .. 15 : i \in 0 .. 7 \/ i \in 8 .. 15
    OBVIOUS
  <2>5. c \subseteq 0 .. 15 /\ a \cup High(b) \subseteq 0 .. 15
    <3>1. a \subseteq 0 .. 15 /\ High(b) \subseteq 0 .. 15
      BY <2>1, <2>2
    <3>2. c \subseteq 0 .. 15
      BY DEF Register
    <3>3. QED
      BY <3>1, <3>2
  <2>6. \A i \in 0 .. 15 : i \in c <=> i \in a \cup High(b)
    <3>1. ASSUME NEW i \in 0 .. 7 PROVE i \in c <=> i \in a \cup High(b)
      <4>1. i \notin 8 .. 15
        OBVIOUS
      <4>2. QED
        BY <2>1, <2>2, <4>1
    <3>2. ASSUME NEW i \in 8 .. 15 PROVE i \in c <=> i \in a \cup High(b)
      BY <2>1, <2>2, <2>3
    <3>3. QED
      BY <2>4, <3>1, <3>2
  <2>7. QED
    BY <2>5, <2>6 DEF Joint
<1>2. a \subseteq 0 .. 7 /\ b \subseteq 0 .. 7
  OBVIOUS
<1> HIDE DEF a, b
<1>3. Value(c) % 256 = Value(a) /\ Value(c) \div 256 = Value(b)
  <2>1. Value(c) = Value(a) + 256 * Value(b)
    BY <1>1, <1>2, Halves, ZenonT(60) DEF Wide
  <2>2. Value(a) \in Nat /\ Value(a) < 256 /\ Value(b) \in Nat
    BY <1>2, OctetOfBits, OctetIs
  <2>3. ASSUME NEW u \in Nat, NEW v \in Nat, u < 256
        PROVE  (u + 256 * v) % 256 = u /\ (u + 256 * v) \div 256 = v
    <3> DEFINE w == u + 256 * v
    <3>1. w \in Nat /\ w = u + 256 * v
      OBVIOUS
    <3> HIDE DEF w
    <3>2. /\ w % 256 \in 0 .. 255 /\ w \div 256 \in Nat
          /\ w = (w % 256) + 256 * (w \div 256)
      BY <3>1
    <3> DEFINE y1 == w % 256
               z1 == w \div 256
    <3> HIDE DEF y1, z1
    <3>3. y1 \in 0 .. 255 /\ z1 \in Nat /\ u + 256 * v = y1 + 256 * z1
      BY <3>1, <3>2 DEF y1, z1
    <3>4. y1 = u /\ z1 = v
      BY <2>3, <3>3
    <3>5. QED
      BY <3>1, <3>4 DEF y1, z1, w
  <2>4. QED
    BY <2>1, <2>2, <2>3
<1>4. QED
  BY <1>1, <1>2, <1>3

(* The register whose number is that of two bytes.                         *)
LEMMA RegisterOfHalves ==
  ASSUME NEW r \in Register, NEW a, a \subseteq 0 .. 7, NEW b, b \subseteq 0 .. 7,
         Value(r) = Wide(Value(a), Value(b))
  PROVE  r = Joint(a, b)
<1> DEFINE c == Joint(a, b)
<1>1. c = Joint(a, b)
  OBVIOUS
<1> HIDE DEF c
<1>2. c \in Register /\ Value(c) = Value(r)
  BY <1>1, Halves
<1>3. c = r
  BY <1>2, ValueInjective
<1>4. QED
  BY <1>1, <1>3

(* A stored checksum that is read with flipped bits.                       *)
LEMMA StoredDifference ==
  ASSUME NEW c \in Register, NEW r \in Register,
         NEW low \in ByteBits, NEW high \in ByteBits,
         Value(r) = Wide(WithFlipped(Value(c) % 256, low),
                         WithFlipped(Value(c) \div 256, high))
  PROVE  Xor(c, r) = Joint(low, high)
<1>1. low \subseteq 0 .. 7 /\ high \subseteq 0 .. 7
  BY DEF ByteBits
<1>2. PICK a, b : /\ a \subseteq 0 .. 7 /\ b \subseteq 0 .. 7 /\ c = Joint(a, b)
                  /\ Value(c) % 256 = Value(a) /\ Value(c) \div 256 = Value(b)
  BY RegisterHalves, ZenonT(60)
<1> DEFINE x == Xor(a, low)
           y == Xor(b, high)
<1>3. x \subseteq 0 .. 7 /\ y \subseteq 0 .. 7
  BY <1>2, <1>1 DEF Xor
<1>4. WithFlipped(Value(a), low) = Value(x) /\ WithFlipped(Value(b), high) = Value(y)
  BY <1>2, <1>1, BitsOfValue, ZenonT(60) DEF WithFlipped
<1>5. /\ \A i : i \in x <=> ~(i \in a <=> i \in low)
      /\ \A i : i \in y <=> ~(i \in b <=> i \in high)
  BY DEF Xor
<1> HIDE DEF x, y
<1>6. Value(r) = Wide(Value(x), Value(y))
  BY <1>2, <1>4, ZenonT(60)
<1>7. r = Joint(x, y)
  BY <1>3, <1>6, RegisterOfHalves, ZenonT(60)
<1>8. QED
  <2>1. \A s : s \subseteq 0 .. 7 => \A i : i \in High(s) <=> i \in 8 .. 15 /\ i - 8 \in s
    BY HighBits, Zenon
  <2>2. /\ \A i : i \in c <=> i \in a \/ (i \in 8 .. 15 /\ i - 8 \in b)
        /\ \A i : i \in r <=> i \in x \/ (i \in 8 .. 15 /\ i - 8 \in y)
        /\ \A i : i \in low \cup High(high) <=> i \in low \/ (i \in 8 .. 15 /\ i - 8 \in high)
    <3>1. /\ \A i : i \in High(b) <=> i \in 8 .. 15 /\ i - 8 \in b
          /\ \A i : i \in High(y) <=> i \in 8 .. 15 /\ i - 8 \in y
          /\ \A i : i \in High(high) <=> i \in 8 .. 15 /\ i - 8 \in high
      BY <1>2, <1>3, <1>1, <2>1, Zenon
    <3>2. \A i : i \in c <=> i \in a \/ i \in High(b)
      BY <1>2, Zenon DEF Joint
    <3>3. \A i : i \in r <=> i \in x \/ i \in High(y)
      BY <1>7, Zenon DEF Joint
    <3>4. QED
      BY <3>1, <3>2, <3>3, Zenon
  <2>3. /\ \A i : i \in x <=> ~(i \in a <=> i \in low)
        /\ \A i : i \in y <=> ~(i \in b <=> i \in high)
        /\ \A i : i \in Xor(c, r) <=> ~(i \in c <=> i \in r)
    BY <1>5 DEF Xor
  <2>4. \A i : i \in 8 .. 15 => i \notin a /\ i \notin low /\ i \notin x
    BY <1>2, <1>3, <1>1
  <2>5. \A i : i \in Xor(c, r) <=> i \in low \cup High(high)
    BY <2>2, <2>3, <2>4
  <2>6. QED
    BY <2>5 DEF Joint

(* Flipping nothing leaves an octet, flipping something makes another one. *)
LEMMA FlippingMatters ==
  ASSUME NEW byte \in Octet, NEW hit, hit \subseteq 0 .. 7
  PROVE  WithFlipped(byte, hit) = byte <=> hit = {}
<1> DEFINE b == Bits(byte, 8)
<1>1. b \subseteq 0 .. 7
  BY DEF Bits
<1>2. Value(b) = byte
  BY ValueOfBits
<1>3. ASSUME hit = {} PROVE WithFlipped(byte, hit) = byte
  <2>1. Xor(b, {}) = b
    BY Zenon DEF Xor
  <2>2. QED
    BY <1>2, <1>3, <2>1 DEF WithFlipped
<1>4. ASSUME WithFlipped(byte, hit) = byte PROVE hit = {}
  <2> HIDE DEF b
  <2>1. Value(Xor(b, hit)) = Value(b)
    BY <1>2, <1>4 DEF WithFlipped, b
  <2>2. Xor(b, hit) \subseteq 0 .. 7
    BY <1>1 DEF Xor
  <2>3. Xor(b, hit) \in Register /\ b \in Register
    BY <1>1, <2>2 DEF Register
  <2>4. Xor(b, hit) = b
    BY <2>1, <2>3, ValueInjective
  <2>5. QED
    BY <2>4, Zenon DEF Xor
<1>5. QED
  BY <1>3, <1>4

(* The part of the flipped bits e that hits the N bytes under the checksum.*)
Covered(e, N) == [i \in 1 .. N |-> e[2 + i]]

(* The bytes are those of the encoded frame with the bits e flipped.       *)
DamagedBy(bytes, frame, e) ==
  /\ Encodable(frame) /\ bytes \in Seq(Octet)
  /\ Len(bytes) = 12 + frame.payload_length
  /\ \A i \in 1 .. (12 + frame.payload_length) :
       e[i] \in ByteBits /\ bytes[i] = WithFlipped(Encode(frame)[i], e[i])

(* A frame that decode() accepts although the bits e of its bytes were     *)
(* flipped: none of them hits the synchronisation, and those that hit the  *)
(* stored checksum are the difference that the others make.                *)
LEMMA AcceptedDifference ==
  ASSUME NEW frame, NEW bytes, NEW e, DamagedBy(bytes, frame, e),
         DecodeStatusOf(bytes) = "Ok"
  PROVE  LET n == frame.payload_length
         IN  /\ e[1] = {} /\ e[2] = {}
             /\ \E d : /\ IsDifference(d, Covered(e, 8 + n), 8 + n)
                       /\ d[8 + n] = Joint(e[11 + n], e[12 + n])
<1> DEFINE n == frame.payload_length
           E == Encode(frame)
           P == Protected(frame)
           c == Checksum(P)
           body == SubSeq(bytes, 3, 10 + n)
           r == Checksum(body)
           N == 8 + n
           h == Covered(e, N)
<1>1. /\ Encodable(frame) /\ bytes \in Seq(Octet) /\ Len(bytes) = 12 + n
       /\ \A i \in 1 .. (12 + n) :
            e[i] \in ByteBits /\ bytes[i] = WithFlipped(E[i], e[i])
  BY DEF DamagedBy
<1>2. n \in Nat /\ n <= 64 /\ Len(bytes) = 12 + n
  BY <1>1, Accepted
<1>3. /\ E \in Seq(Octet) /\ Len(E) = 12 + n /\ E[1] = 165 /\ E[2] = 90
      /\ \A i \in 1 .. (8 + n) : E[2 + i] = P[i]
      /\ E[11 + n] = Value(c) % 256 /\ E[12 + n] = Value(c) \div 256
  BY <1>1, EncodedLayout DEF crc16_ccitt_false
<1>4. P \in Seq(Octet) /\ Len(P) = 8 + n
  BY <1>1, ProtectedLayout
<1>5. /\ At(bytes, 0) = 165 /\ At(bytes, 1) = 90
      /\ Len(bytes) = 12 + read_u16_le(bytes, 4)
      /\ ActualCrc(bytes) = ExpectedCrc(bytes)
  BY DEF DecodeStatusOf, CrcStatus, ExpectedSize, minimum_frame_size
<1>6. read_u16_le(bytes, 4) = n
  <2>1. bytes[5] \in Octet /\ bytes[6] \in Octet
    BY <1>2, <1>1, ElementOfSeq
  <2>2. read_u16_le(bytes, 4) = bytes[5] + 256 * bytes[6]
    BY DEF read_u16_le, At
  <2>3. bytes[5] \in Nat /\ bytes[6] \in Nat
    BY <2>1, OctetIs
  <2>4. read_u16_le(bytes, 4) \in Nat
    BY <2>2, <2>3
  <2> HIDE DEF n
  <2>5. QED
    BY <1>2, <1>5, <2>4
<1>7. \A i \in 1 .. (12 + n) : e[i] \subseteq 0 .. 7 /\ bytes[i] = WithFlipped(E[i], e[i])
  BY <1>1 DEF ByteBits
<1> HIDE DEF n, E, P, c
<1>8. e[1] = {} /\ e[2] = {}
  <2>1. 1 \in 1 .. (12 + n) /\ 2 \in 1 .. (12 + n)
    BY <1>2
  <2>2. E[1] \in Octet /\ E[2] \in Octet
    BY <1>3 DEF Octet
  <2>3. WithFlipped(E[1], e[1]) = E[1] /\ WithFlipped(E[2], e[2]) = E[2]
    BY <1>3, <1>5, <1>7, <2>1 DEF At
  <2>4. QED
    BY <1>7, <2>1, <2>2, <2>3, FlippingMatters
<1>9. /\ body \in Seq(Octet) /\ Len(body) = 8 + n
      /\ \A i \in 1 .. (8 + n) : body[i] = bytes[2 + i]
  <2>1. \A i \in 3 .. (10 + n) : bytes[i] \in Octet
    BY <1>2, <1>1, ElementOfSeq
  <2>2. /\ body \in Seq(Octet)
        /\ Len(body) = IF 3 <= 10 + n THEN (10 + n) - 3 + 1 ELSE 0
        /\ \A i \in 1 .. ((10 + n) - 3 + 1) : body[i] = bytes[3 + i - 1]
    BY <1>2, <1>1, <2>1, SubSeqProperties
  <2>3. (10 + n) - 3 + 1 = 8 + n /\ 3 <= 10 + n /\ \A i \in 1 .. (8 + n) : 3 + i - 1 = 2 + i
    BY <1>2
  <2> HIDE DEF body
  <2>4. QED
    BY <2>2, <2>3
<1>10. Value(r) = Wide(bytes[11 + n], bytes[12 + n])
  <2>1. ActualCrc(bytes) = Value(r)
    BY <1>6 DEF ActualCrc, crc16_ccitt_false
  <2>2. ExpectedCrc(bytes) = bytes[(10 + n) + 1] + 256 * bytes[((10 + n) + 1) + 1]
    BY <1>6 DEF ExpectedCrc, read_u16_le, At
  <2>3. (10 + n) + 1 = 11 + n /\ ((10 + n) + 1) + 1 = 12 + n
    BY <1>2
  <2>4. QED
    BY <1>5, <2>1, <2>2, <2>3, ZenonT(60) DEF Wide
<1> HIDE DEF body
<1>11. N \in Nat /\ \A i \in 1 .. N : /\ h[i] = e[2 + i]
                                     /\ h[i] \subseteq 0 .. 7
                                     /\ body[i] = WithFlipped(P[i], h[i])
  <2>1. N \in Nat
    BY <1>2
  <2>2. ASSUME NEW i \in 1 .. N
        PROVE  h[i] = e[2 + i] /\ h[i] \subseteq 0 .. 7 /\ body[i] = WithFlipped(P[i], h[i])
    <3>1. 2 + i \in 1 .. (12 + n)
      BY <1>2
    <3>2. h[i] = e[2 + i]
      BY DEF Covered
    <3>3. E[2 + i] = P[i] /\ body[i] = bytes[2 + i]
      BY <1>3, <1>9
    <3>4. QED
      BY <1>7, <3>1, <3>2, <3>3
  <2>3. QED
    BY <2>1, <2>2
<1> HIDE DEF h
<1>12. PICK d : IsDifference(d, h, N) /\ d[N] = Xor(c, r)
  <2>1. P \in Seq(Octet) /\ body \in Seq(Octet) /\ Len(P) = N /\ Len(body) = N
    BY <1>4, <1>9
  <2>2. N \in Nat /\ \A i \in 1 .. N : h[i] \subseteq 0 .. 7 /\ body[i] = WithFlipped(P[i], h[i])
    BY <1>11
  <2> HIDE DEF N, r
  <2>3. \E d : IsDifference(d, h, N) /\ d[N] = Xor(Checksum(P), Checksum(body))
    BY <2>1, <2>2, ChecksumDifference
  <2>4. QED
    BY <2>3 DEF c, r
<1>13. c \in Register /\ r \in Register
  <2>1. \A s \in Seq(Octet) : Checksum(s) \in Register
    <3> SUFFICES ASSUME NEW s \in Seq(Octet) PROVE Checksum(s) \in Register
      OBVIOUS
    <3>1. Len(s) \in Nat
      BY LenProperties
    <3>2. PICK f : Passes(f, s, Len(s))
      BY <3>1, ChecksumTurns
    <3>3. Len(s) \in 0 .. Len(s)
      BY <3>1
    <3>4. QED
      BY <3>2, <3>3 DEF Passes
  <2>2. QED
    BY <1>4, <1>9, <2>1 DEF c
<1> HIDE DEF r
<1>14. Xor(c, r) = Joint(e[11 + n], e[12 + n])
  <2>1. 11 + n \in 1 .. (12 + n) /\ 12 + n \in 1 .. (12 + n)
    BY <1>2
  <2>2. /\ e[11 + n] \subseteq 0 .. 7 /\ e[12 + n] \subseteq 0 .. 7
        /\ bytes[11 + n] = WithFlipped(Value(c) % 256, e[11 + n])
        /\ bytes[12 + n] = WithFlipped(Value(c) \div 256, e[12 + n])
    BY <1>3, <1>7, <2>1
  <2>3. Value(r) = Wide(WithFlipped(Value(c) % 256, e[11 + n]),
                        WithFlipped(Value(c) \div 256, e[12 + n]))
    BY <1>10, <2>2
  <2> DEFINE low == e[11 + n]
             high == e[12 + n]
  <2>4. /\ low \in ByteBits /\ high \in ByteBits
        /\ Value(r) = Wide(WithFlipped(Value(c) % 256, low),
                           WithFlipped(Value(c) \div 256, high))
    BY <2>2, <2>3 DEF ByteBits
  <2> HIDE DEF low, high
  <2>5. Xor(c, r) = Joint(low, high)
    BY <1>13, <2>4, StoredDifference
  <2>6. QED
    BY <2>5 DEF low, high
<1>15. QED
  BY <1>8, <1>12, <1>14 DEF h, N, n

-----------------------------------------------------------------------------
(* What becomes of a difference.                                           *)

(* Nothing enters, and nothing is left of nothing.                         *)
LEMMA HighIs ==
  /\ High({}) = {}
  /\ \A b : High({b}) = {b + 8}
  /\ \A bits : High(bits) = {} => bits = {}
  BY Zenon DEF High

(* What eight shifts make of a register is determined.                     *)
LEMMA TurnedSame ==
  ASSUME NEW a, NEW b, NEW c, Turned(a, b), Turned(a, c)
  PROVE  b = c
<1>1. Turned(Xor(a, a), Xor(b, c))
  BY TurnedXor
<1>2. Xor(b, c) = {}
  BY <1>1, TurnedNothing, XorIs
<1>3. QED
  BY <1>2, XorKeepsWidth DEF Turned

(* One byte further without flipped bits.                                  *)
LEMMA DifferenceGoesOn ==
  ASSUME NEW N \in Nat, NEW h, NEW d, IsDifference(d, h, N), NEW n \in 1 .. N, h[n] = {}
  PROVE  Turned(d[n - 1], d[n])
<1>1. Turned(Xor(d[n - 1], High({})), d[n])
  BY DEF IsDifference
<1>2. Xor(d[n - 1], High({})) = d[n - 1]
  BY HighIs, XorIs
<1>3. QED
  BY <1>1, <1>2

(* Before the first flipped bit there is no difference.                    *)
LEMMA NoDifferenceYet ==
  ASSUME NEW N \in Nat, NEW h, NEW d, IsDifference(d, h, N), NEW k \in 0 .. N,
         \A n \in 1 .. k : h[n] = {}
  PROVE  d[k] = {}
<1> DEFINE g == [n \in 0 .. N |-> {}]
<1>1. \A n \in 0 .. N : g[n] = {}
  OBVIOUS
<1> HIDE DEF g
<1>2. k \in Nat /\ 0 \in 0 .. N /\ k \in 0 .. N
  OBVIOUS
<1>3. d[0] = g[0]
  BY <1>1, <1>2 DEF IsDifference
<1>4. ASSUME NEW n \in 1 .. k, d[n - 1] = g[n - 1] PROVE d[n] = g[n]
  <2>1. n \in 1 .. N /\ n \in 0 .. N /\ n - 1 \in 0 .. N
    OBVIOUS
  <2>2. Turned(d[n - 1], d[n])
    BY <2>1, DifferenceGoesOn
  <2>3. d[n] = {}
    BY <1>1, <1>4, <2>1, <2>2, TurnedNothing
  <2>4. QED
    BY <1>1, <2>1, <2>3
<1>5. d[k] = g[k]
  BY <1>2, <1>3, <1>4, StayTogether
<1>6. QED
  BY <1>1, <1>2, <1>5

(* A difference does not vanish by itself.                                 *)
LEMMA DifferenceStays ==
  ASSUME NEW N \in Nat, NEW h, NEW d, IsDifference(d, h, N), NEW k \in 0 .. N, d[k] # {},
         \A n \in (k + 1) .. N : h[n] = {}
  PROVE  d[N] # {}
<1> DEFINE g == [n \in 0 .. N |-> {}]
<1>1. \A n \in 0 .. N : g[n] = {}
  OBVIOUS
<1> HIDE DEF g
<1>2. N \in 0 .. N
  OBVIOUS
<1>3. d[k] # g[k]
  BY <1>1
<1>4. ASSUME NEW n \in (k + 1) .. N, d[n - 1] # g[n - 1] PROVE d[n] # g[n]
  <2>1. n \in 1 .. N /\ n \in 0 .. N /\ n - 1 \in 0 .. N
    OBVIOUS
  <2>2. Turned(d[n - 1], d[n])
    BY <2>1, DifferenceGoesOn
  <2>3. d[n] # {}
    BY <1>1, <1>4, <2>1, <2>2, TurnedNothing
  <2>4. QED
    BY <1>1, <2>1, <2>3
<1>5. d[N] # g[N]
  BY <1>3, <1>4, StayApart
<1>6. QED
  BY <1>1, <1>2, <1>5

(* The first flipped bits make a difference.                               *)
LEMMA DifferenceStarts ==
  ASSUME NEW N \in Nat, NEW h, NEW d, IsDifference(d, h, N), NEW k \in 1 .. N,
         \A n \in 1 .. (k - 1) : h[n] = {}
  PROVE  Turned(High(h[k]), d[k]) /\ (h[k] # {} => d[k] # {})
<1>1. k - 1 \in 0 .. N
  OBVIOUS
<1>2. d[k - 1] = {}
  BY <1>1, NoDifferenceYet
<1>3. Turned(Xor({}, High(h[k])), d[k])
  BY <1>2 DEF IsDifference
<1>4. Xor({}, High(h[k])) = High(h[k])
  BY XorIs
<1>5. QED
  BY <1>3, <1>4, TurnedNothing, HighIs

(* A power stays a power, eight further with each byte.                    *)
LEMMA PowersGoOn ==
  ASSUME NEW N \in Nat, NEW h, NEW d, IsDifference(d, h, N), NEW P, IsPowers(P),
         NEW k \in 0 .. N, NEW m \in k .. N, NEW x \in Nat, d[k] = P[x],
         x + 8 * (m - k) <= 640, \A n \in (k + 1) .. m : h[n] = {}
  PROVE  d[m] = P[x + 8 * (m - k)]
<1> DEFINE f == [n \in Nat |-> d[k + n]]
           g == [n \in Nat |-> P[x + 8 * n]]
           t == m - k
<1>1. \A n \in Nat : f[n] = d[k + n] /\ g[n] = P[x + 8 * n]
  OBVIOUS
<1>2. t \in Nat /\ k + t = m /\ x + 8 * t <= 640 /\ k \in Nat /\ m <= N
  OBVIOUS
<1> HIDE DEF f, g, t
<1>3. f[0] = g[0]
  BY <1>1, <1>2
<1>4. ASSUME NEW n \in 1 .. t, f[n - 1] = g[n - 1] PROVE f[n] = g[n]
  <2>1. /\ n \in Nat /\ n - 1 \in Nat /\ k + (n - 1) = (k + n) - 1
        /\ k + n \in 1 .. N /\ k + n \in (k + 1) .. m
    BY <1>2
  <2> DEFINE z == x + 8 * (n - 1)
  <2>2. z \in 0 .. 632 /\ z + 8 = x + 8 * n
    BY <1>2, <2>1
  <2> HIDE DEF z
  <2>3. Turned(d[(k + n) - 1], d[k + n])
    BY <2>1, DifferenceGoesOn
  <2>4. Turned(P[z], P[x + 8 * n])
    BY <2>2, EightFurther, ZenonT(60)
  <2>5. d[(k + n) - 1] = P[z]
    BY <1>1, <1>4, <2>1 DEF z
  <2>6. d[k + n] = P[x + 8 * n]
    BY <2>3, <2>4, <2>5, TurnedSame
  <2>7. QED
    BY <1>1, <2>1, <2>6
<1>5. f[t] = g[t]
  BY <1>2, <1>3, <1>4, StayTogether
<1>6. QED
  BY <1>1, <1>2, <1>5 DEF t

-----------------------------------------------------------------------------
(* The damage that is noticed.                                             *)

(* Damage within one byte.                                                 *)
LEMMA OneByteRejected ==
  ASSUME NEW frame, NEW bytes, NEW e, DamagedBy(bytes, frame, e),
         NEW k \in 1 .. (12 + frame.payload_length), e[k] # {},
         \A i \in 1 .. (12 + frame.payload_length) : i # k => e[i] = {}
  PROVE  DecodeStatusOf(bytes) # "Ok"
<1> DEFINE n == frame.payload_length
           N == 8 + n
           h == Covered(e, N)
<1> SUFFICES ASSUME DecodeStatusOf(bytes) = "Ok" PROVE FALSE
  OBVIOUS
<1>1. n \in Nat
  BY Accepted DEF DamagedBy
<1>2. e[1] = {} /\ e[2] = {}
  BY AcceptedDifference
<1>3. PICK d : IsDifference(d, h, N) /\ d[N] = Joint(e[11 + n], e[12 + n])
  BY AcceptedDifference
<1>4. k \in 1 .. (12 + n) /\ \A i \in 1 .. (12 + n) : i # k => e[i] = {}
  OBVIOUS
<1>5. \A i \in 1 .. N : h[i] = e[2 + i]
  BY DEF Covered
<1> HIDE DEF n, h
<1>6. N \in Nat /\ N \in 0 .. N
  BY <1>1
<1>7. CASE k <= 10 + n
  <2> DEFINE m == k - 2
  <2>1. m \in 1 .. N /\ m \in 0 .. N /\ 2 + m = k
    BY <1>1, <1>2, <1>4, <1>7
  <2> HIDE DEF m
  <2>2. \A i \in 1 .. N : 2 + i \in 1 .. (12 + n) /\ (i # m => 2 + i # k)
    BY <1>1, <2>1
  <2>3. \A i \in 1 .. N : i # m => h[i] = {}
    BY <1>4, <1>5, <2>2
  <2>4. h[m] # {}
    BY <1>5, <2>1
  <2>5. \A i \in 1 .. (m - 1) : i \in 1 .. N /\ i # m
    BY <1>6, <2>1
  <2>6. \A i \in (m + 1) .. N : i \in 1 .. N /\ i # m
    BY <1>6, <2>1
  <2> HIDE DEF N
  <2>7. d[m] # {}
    BY <1>3, <1>6, <2>1, <2>3, <2>4, <2>5, DifferenceStarts
  <2>8. d[N] # {}
    BY <1>3, <1>6, <2>1, <2>3, <2>6, <2>7, DifferenceStays
  <2>9. e[11 + n] = {} /\ e[12 + n] = {}
    BY <1>1, <1>4, <1>7
  <2>10. Joint({}, {}) = {}
    BY HighIs DEF Joint
  <2>11. QED
    BY <1>3, <2>8, <2>9, <2>10
<1>8. CASE k = 11 + n \/ k = 12 + n
  <2>1. \A i \in 1 .. N : h[i] = {}
    <3>1. \A i \in 1 .. N : 2 + i \in 1 .. (12 + n) /\ 2 + i # k
      BY <1>1, <1>8
    <3>2. QED
      BY <1>4, <1>5, <3>1
  <2> HIDE DEF N
  <2>2. d[N] = {}
    BY <1>3, <1>6, <2>1, NoDifferenceYet
  <2>3. e[11 + n] = {} /\ e[12 + n] = {}
    BY <1>3, <2>2, HighIs DEF Joint
  <2>4. QED
    BY <1>8, <2>3
<1>9. QED
  BY <1>1, <1>4, <1>7, <1>8

(* Two flipped bits in different bytes.                                    *)
LEMMA TwoBitsRejected ==
  ASSUME NEW frame, NEW bytes, NEW e, DamagedBy(bytes, frame, e),
         NEW k \in 1 .. (12 + frame.payload_length), NEW x \in 0 .. 7, e[k] = {x},
         NEW l \in 1 .. (12 + frame.payload_length), NEW y \in 0 .. 7, e[l] = {y}, k < l,
         \A i \in 1 .. (12 + frame.payload_length) : i # k /\ i # l => e[i] = {}
  PROVE  DecodeStatusOf(bytes) # "Ok"
<1> DEFINE n == frame.payload_length
           N == 8 + n
           h == Covered(e, N)
           low == e[11 + n]
           high == e[12 + n]
<1> SUFFICES ASSUME DecodeStatusOf(bytes) = "Ok" PROVE FALSE
  OBVIOUS
<1>1. n \in Nat /\ n <= 64
  BY Accepted DEF DamagedBy
<1>2. e[1] = {} /\ e[2] = {}
  BY AcceptedDifference
<1>3. PICK d : IsDifference(d, h, N) /\ d[N] = Joint(low, high)
  BY AcceptedDifference
<1>4. /\ k \in 1 .. (12 + n) /\ l \in 1 .. (12 + n)
      /\ \A i \in 1 .. (12 + n) : i # k /\ i # l => e[i] = {}
  OBVIOUS
<1>5. \A i \in 1 .. N : h[i] = e[2 + i]
  BY DEF Covered
<1>6. N \in Nat /\ N \in 0 .. N /\ N <= 72
  BY <1>1
<1>7. PICK P : IsPowers(P)
  BY PowersExist
<1> HIDE DEF n, h
<1>8. CASE k > 10 + n
  <2>1. k = 11 + n /\ l = 12 + n
    BY <1>1, <1>4, <1>8
  <2>2. \A i \in 1 .. N : h[i] = {}
    <3>1. \A i \in 1 .. N : 2 + i \in 1 .. (12 + n) /\ 2 + i # k /\ 2 + i # l
      BY <1>1, <2>1
    <3>2. QED
      BY <1>4, <1>5, <3>1
  <2> HIDE DEF N
  <2>3. d[N] = {}
    BY <1>3, <1>6, <2>2, NoDifferenceYet
  <2>4. low = {}
    BY <1>3, <2>3 DEF Joint
  <2>5. QED
    BY <2>1, <2>4
<1>9. CASE k <= 10 + n
  <2> DEFINE m == k - 2
  <2>1. m \in 1 .. N /\ m \in 0 .. N /\ 2 + m = k
    BY <1>1, <1>2, <1>4, <1>9
  <2> HIDE DEF m
  <2>2. \A i \in 1 .. N : i # m /\ 2 + i # l => h[i] = {}
    <3>1. \A i \in 1 .. N : 2 + i \in 1 .. (12 + n) /\ (i # m => 2 + i # k)
      BY <1>1, <2>1
    <3>2. QED
      BY <1>4, <1>5, <3>1
  <2>3. d[m] = P[16 + x]
    <3>1. h[m] = {x}
      BY <1>5, <2>1
    <3>2. \A i \in 1 .. (m - 1) : i \in 1 .. N /\ i # m /\ 2 + i # l
      BY <1>1, <1>4, <2>1
    <3>3. \A i \in 1 .. (m - 1) : h[i] = {}
      BY <2>2, <3>2
    <3> HIDE DEF N
    <3>4. Turned(High({x}), d[m])
      BY <1>3, <1>6, <2>1, <3>1, <3>3, DifferenceStarts
    <3>5. x + 8 \in 0 .. 15 /\ x + 8 \in 0 .. 632 /\ (x + 8) + 8 = 16 + x
      OBVIOUS
    <3>6. High({x}) = P[x + 8]
      <4>1. High({x}) = {x + 8}
        BY HighIs, Zenon
      <4>2. P[x + 8] = {x + 8}
        BY <1>7, <3>5, FirstPowers
      <4>3. QED
        BY <4>1, <4>2
    <3>7. Turned(P[x + 8], P[16 + x])
      BY <1>7, <3>5, EightFurther
    <3>8. QED
      BY <3>4, <3>6, <3>7, TurnedSame
  <2>4. CASE l <= 10 + n
    <3> DEFINE q == l - 2
    <3>1. /\ q \in 1 .. N /\ q \in 0 .. N /\ 2 + q = l
          /\ q - 1 \in m .. N /\ q - 1 \in 0 .. N
      BY <1>1, <1>2, <1>4, <2>1, <2>4
    <3> HIDE DEF q
    <3>2. \A i \in (m + 1) .. (q - 1) : h[i] = {}
      <4>1. \A i \in (m + 1) .. (q - 1) : i \in 1 .. N /\ i # m /\ 2 + i # l
        BY <1>6, <2>1, <3>1
      <4>2. QED
        BY <2>2, <4>1
    <3> DEFINE z == (16 + x) + 8 * ((q - 1) - m)
    <3>3. z \in 16 .. 591 /\ 16 + x \in Nat /\ z <= 640
      BY <1>6, <2>1, <3>1
    <3>4. d[q - 1] = P[z]
      <4> HIDE DEF N
      <4>1. QED
        BY <1>3, <1>6, <1>7, <2>1, <2>3, <3>1, <3>2, <3>3, PowersGoOn
    <3> HIDE DEF z
    <3>5. Turned(Xor(P[z], {y + 8}), d[q])
      <4>1. h[q] = {y}
        BY <1>5, <3>1
      <4>2. Turned(Xor(d[q - 1], High(h[q])), d[q])
        BY <1>3, <3>1 DEF IsDifference
      <4>3. QED
        BY <3>4, <4>1, <4>2, HighIs
    <3>6. Xor(P[z], {y + 8}) # {}
      <4>1. ~Single(P[z])
        BY <1>7, <3>3, NoSinglePower
      <4> DEFINE s == {y + 8}
      <4>2. Single(s)
        BY DEF Single
      <4> HIDE DEF s
      <4>3. P[z] # s
        BY <4>1, <4>2
      <4>4. Xor(P[z], s) # {}
        BY <4>3, Zenon DEF Xor
      <4>5. QED
        BY <4>4 DEF s
    <3>7. d[q] # {}
      BY <3>5, <3>6, TurnedNothing
    <3>8. \A i \in (q + 1) .. N : h[i] = {}
      <4>1. \A i \in (q + 1) .. N : i \in 1 .. N /\ i # m /\ 2 + i # l
        BY <2>1, <3>1
      <4>2. QED
        BY <2>2, <4>1
    <3>9. low = {} /\ high = {}
      BY <1>1, <1>4, <1>9, <2>4
    <3> HIDE DEF N
    <3>10. d[N] # {}
      BY <1>3, <1>6, <3>1, <3>7, <3>8, DifferenceStays
    <3>11. Joint({}, {}) = {}
      BY HighIs DEF Joint
    <3>12. QED
      BY <1>3, <3>9, <3>10, <3>11
  <2>5. CASE l > 10 + n
    <3>1. l = 11 + n \/ l = 12 + n
      BY <1>1, <1>4, <2>5
    <3>2. \A i \in (m + 1) .. N : h[i] = {}
      <4>1. \A i \in (m + 1) .. N : i \in 1 .. N /\ i # m /\ 2 + i # l
        BY <1>1, <2>1, <2>5
      <4>2. QED
        BY <2>2, <4>1
    <3> DEFINE z == (16 + x) + 8 * (N - m)
    <3>3. z \in 16 .. 591 /\ 16 + x \in Nat /\ z <= 640 /\ N \in m .. N
      BY <1>6, <2>1, SMTT(60)
    <3>4. d[N] = P[z]
      <4> HIDE DEF N
      <4>1. QED
        BY <1>3, <1>6, <1>7, <2>1, <2>3, <3>2, <3>3, PowersGoOn
    <3> HIDE DEF z
    <3>5. Single(Joint(low, high))
      <4>1. CASE l = 11 + n
        <5>1. low = {y} /\ high = {}
          BY <1>1, <1>4, <1>9, <4>1
        <5>2. Joint({y}, {}) = {y}
          BY HighIs DEF Joint
        <5>3. Single({y})
          BY DEF Single
        <5>4. QED
          BY <5>1, <5>2, <5>3
      <4>2. CASE l = 12 + n
        <5>1. low = {} /\ high = {y}
          BY <1>1, <1>4, <1>9, <4>2
        <5>2. Joint({}, {y}) = {y + 8}
          <6>1. High({y}) = {y + 8}
            BY HighIs, Zenon
          <6>2. QED
            BY <6>1 DEF Joint
        <5>3. Single({y + 8})
          BY DEF Single
        <5>4. QED
          BY <5>1, <5>2, <5>3
      <4>3. QED
        BY <3>1, <4>1, <4>2
    <3>6. ~Single(P[z])
      BY <1>7, <3>3, NoSinglePower, ZenonT(60)
    <3> HIDE DEF low, high, N
    <3>7. QED
      BY <1>3, <3>4, <3>5, <3>6
  <2>6. QED
    BY <1>1, <1>4, <2>4, <2>5
<1>10. QED
  BY <1>1, <1>4, <1>8, <1>9

(* The parities of the two bytes of a register.                            *)
LEMMA JointParity ==
  ASSUME NEW low \in ByteBits, NEW high \in ByteBits
  PROVE  Odd(Joint(low, high)) <=> Differ(Odd(low), Odd(high))
<1> DEFINE bits == Joint(low, high)
<1>1. /\ \A i : i \in High(high) => i \in 8 .. 15
      /\ \A i \in 0 .. 7 : i + 8 \in High(high) <=> i \in high
  BY HighBits DEF ByteBits
<1>2. /\ \A i \in 0 .. 7 : i \notin 8 .. 15
      /\ \A i \in 0 .. 7 : i + 8 \notin low /\ i + 8 \notin high
  BY DEF ByteBits
<1>3. \A i \in 0 .. 7 : /\ i \in bits <=> i \in low
                        /\ i + 8 \in bits <=> i \in high
  BY <1>1, <1>2 DEF Joint
<1> HIDE DEF bits
<1>4. QED
  BY <1>2, <1>3 DEF bits, Odd, OddFour, Differ

(* One bit more.                                                           *)
LEMMA OneBitMore ==
  ASSUME NEW bits, NEW bit \in 0 .. 7, bit \notin bits
  PROVE  Odd(bits \cup {bit}) <=> ~Odd(bits)
<1> DEFINE one == {bit}
<1>1. \A i : i \in one <=> i = bit
  OBVIOUS
<1>2. Xor(bits, one) = bits \cup {bit}
  BY DEF Xor
<1> HIDE DEF one
<1>3. Odd(one)
  BY <1>1 DEF Odd, OddFour, Differ
<1>4. QED
  BY <1>2, <1>3, XorParity DEF Differ

(* No bit.                                                                 *)
LEMMA EvenNothing == ~Odd({})
  BY DEF Odd, OddFour, Differ

(* The parity R of the bits flipped so far, byte by byte.                  *)
IsParity(R, e, N) ==
  /\ R \in [0 .. N -> BOOLEAN] /\ R[0] = FALSE
  /\ \A i \in 1 .. N : R[i] <=> Differ(R[i - 1], Odd(e[i]))

(* An odd number of flipped bits.                                          *)
LEMMA OddRejected ==
  ASSUME NEW frame, NEW bytes, NEW e, DamagedBy(bytes, frame, e),
         NEW R, IsParity(R, e, 12 + frame.payload_length), R[12 + frame.payload_length]
  PROVE  DecodeStatusOf(bytes) # "Ok"
<1> DEFINE n == frame.payload_length
           N == 8 + n
           h == Covered(e, N)
           low == e[11 + n]
           high == e[12 + n]
<1> SUFFICES ASSUME DecodeStatusOf(bytes) = "Ok" PROVE FALSE
  OBVIOUS
<1>1. n \in Nat
  BY Accepted DEF DamagedBy
<1>2. e[1] = {} /\ e[2] = {}
  BY AcceptedDifference
<1>3. PICK d : IsDifference(d, h, N) /\ d[N] = Joint(low, high)
  BY AcceptedDifference
<1>4. /\ \A i \in 1 .. (12 + n) : e[i] \in ByteBits
      /\ \A i \in 1 .. (12 + n) : R[i] <=> Differ(R[i - 1], Odd(e[i]))
      /\ R[0] = FALSE /\ R[12 + n]
  BY DEF DamagedBy, IsParity
<1>5. \A i \in 1 .. N : h[i] = e[2 + i]
  BY DEF Covered
<1> HIDE DEF n, h
<1>6. N \in Nat
  BY <1>1
<1> DEFINE f == [m \in Nat |-> IF Odd(d[m]) THEN 1 ELSE 0]
           g == [m \in Nat |-> IF R[2 + m] THEN 1 ELSE 0]
<1>7. \A m \in Nat : f[m] = g[m] <=> (Odd(d[m]) <=> R[2 + m])
  OBVIOUS
<1> HIDE DEF f, g
<1>8. f[0] = g[0]
  <2>1. 1 \in 1 .. (12 + n) /\ 2 \in 1 .. (12 + n)
    BY <1>1
  <2>2. ~R[1]
    BY <1>2, <1>4, <2>1, EvenNothing DEF Differ
  <2>3. ~R[2 + 0]
    BY <1>2, <1>4, <2>1, <2>2, EvenNothing DEF Differ
  <2>4. ~Odd(d[0])
    BY <1>3, EvenNothing DEF IsDifference
  <2>5. QED
    BY <1>7, <2>3, <2>4
<1>9. ASSUME NEW m \in 1 .. N, f[m - 1] = g[m - 1] PROVE f[m] = g[m]
  <2>1. /\ m \in Nat /\ m - 1 \in Nat /\ 2 + m \in 1 .. (12 + n)
        /\ (2 + m) - 1 = 2 + (m - 1)
    BY <1>1
  <2>2. Turned(Xor(d[m - 1], High(h[m])), d[m])
    BY <1>3 DEF IsDifference
  <2>3. Odd(Xor(d[m - 1], High(h[m]))) <=> Odd(d[m])
    BY <2>2, TurnedParity
  <2>4. Odd(Xor(d[m - 1], High(h[m]))) <=> Differ(Odd(d[m - 1]), Odd(High(h[m])))
    BY XorParity
  <2>5. h[m] = e[2 + m] /\ h[m] \subseteq 0 .. 7
    BY <1>4, <1>5, <2>1 DEF ByteBits
  <2>6. Odd(High(h[m])) <=> Odd(e[2 + m])
    BY <2>5, HighParity
  <2>7. R[2 + m] <=> Differ(R[2 + (m - 1)], Odd(e[2 + m]))
    BY <1>4, <2>1
  <2>8. Odd(d[m - 1]) <=> R[2 + (m - 1)]
    BY <1>7, <1>9, <2>1
  <2>9. Odd(d[m]) <=> R[2 + m]
    BY <2>3, <2>4, <2>6, <2>7, <2>8 DEF Differ
  <2>10. QED
    BY <1>7, <2>1, <2>9
<1>10. f[N] = g[N]
  <2> HIDE DEF N
  <2>1. QED
    BY <1>6, <1>8, <1>9, StayTogether
<1>11. Odd(Joint(low, high)) <=> R[2 + N]
  BY <1>3, <1>6, <1>7, <1>10
<1>12. /\ 11 + n \in 1 .. (12 + n) /\ (11 + n) - 1 = 2 + N
       /\ 12 + n \in 1 .. (12 + n) /\ (12 + n) - 1 = 11 + n
  BY <1>1
<1>13. Odd(Joint(low, high)) <=> Differ(Odd(low), Odd(high))
  BY <1>4, <1>12, JointParity
<1>14. /\ R[11 + n] <=> Differ(R[2 + N], Odd(low))
       /\ R[12 + n] <=> Differ(R[11 + n], Odd(high))
  BY <1>4, <1>12
<1>15. QED
  BY <1>4, <1>11, <1>13, <1>14 DEF Differ

-----------------------------------------------------------------------------
(* Damage.                                                                 *)

(* The bits of the i-th byte that were flipped.                            *)
Hit(i) == {p % 8 : p \in {q \in flipped : q \div 8 + 1 = i}}

(* As long as the line neither cut nor lengthened the frame, each byte is  *)
(* the one that was sent with the bits flipped that hit it.                *)
Damage ==
  pc \in {"line", "judged"} /\ resized = 0 =>
    /\ flipped \subseteq 0 .. (8 * Len(line) - 1)
    /\ \A i \in 1 .. Len(line) : line[i] = WithFlipped(Encode(sent)[i], Hit(i))

(* A position is a byte and a bit in it.                                   *)
LEMMA PositionIs ==
  ASSUME NEW p \in Nat
  PROVE  p \div 8 \in Nat /\ p % 8 \in 0 .. 7 /\ p = 8 * (p \div 8) + (p % 8)
  OBVIOUS

(* One more flipped bit.                                                   *)
LEMMA FlipOneMore ==
  ASSUME NEW byte, NEW hit, hit \subseteq 0 .. 7, NEW bit \in 0 .. 7, bit \notin hit
  PROVE  FlippedBit(WithFlipped(byte, hit), bit) = WithFlipped(byte, hit \cup {bit})
<1> DEFINE b == Bits(byte, 8)
<1>1. b \subseteq 0 .. 7
  BY DEF Bits
<1> HIDE DEF b
<1>2. Xor(b, hit) \subseteq 0 .. 7
  BY <1>1 DEF Xor
<1>3. Bits(Value(Xor(b, hit)), 8) = Xor(b, hit)
  BY <1>2, BitsOfValue
<1>4. Xor(Xor(b, hit), {bit}) = Xor(b, hit \cup {bit})
  BY Zenon DEF Xor
<1>5. QED
  BY <1>3, <1>4 DEF FlippedBit, WithFlipped, b

(* A flipped bit is one that was not flipped before, and it hits one byte. *)
LEMMA FlipHits ==
  ASSUME NEW position \in 0 .. (8 * Len(line) - 1), IInv, Damage, Flip(position)
  PROVE  LET at  == position \div 8 + 1
             bit == position % 8
         IN  /\ at \in 1 .. Len(line) /\ bit \in 0 .. 7
             /\ position \notin flipped
             /\ bit \notin Hit(at) /\ Hit(at)' = Hit(at) \cup {bit}
             /\ \A i : i # at => Hit(i)' = Hit(i)
             /\ line' \in Seq(Octet) /\ Len(line') = Len(line)
             /\ line'[at] = FlippedBit(line[at], bit)
             /\ \A i \in 1 .. Len(line) : i # at => line'[i] = line[i]
<1> DEFINE at == position \div 8 + 1
           bit == position % 8
           k == Len(line)
           q == position \div 8
<1>1. line \in Seq(Octet) /\ k \in Nat /\ pc = "line" /\ resized = 0
  BY LenProperties DEF IInv, TypeOK, Flip
<1>2. /\ line' = [line EXCEPT ![at] = FlippedBit(line[at], bit)]
      /\ flipped' = flipped \cup {position}
      /\ \A earlier \in flipped : earlier < position
  BY DEF Flip
<1>3. flipped \subseteq 0 .. (8 * k - 1)
  BY <1>1 DEF Damage
<1> HIDE DEF k
<1>4. position \in Nat /\ position <= 8 * k - 1 /\ flipped \subseteq Nat
  BY <1>1, <1>3 DEF k
<1>5. bit \in 0 .. 7 /\ position \div 8 \in Nat /\ position = 8 * (position \div 8) + bit
  BY <1>4, PositionIs
<1>6. at = q + 1 /\ q \in Nat /\ position = 8 * q + bit
  BY <1>5
<1>7. position \div 8 + 1 = at /\ position % 8 = bit
  OBVIOUS
<1>8. /\ Hit(at)' = {p % 8 : p \in {r \in flipped' : r \div 8 + 1 = at}}
      /\ \A i : Hit(i)' = {p % 8 : p \in {r \in flipped' : r \div 8 + 1 = i}}
  BY DEF Hit
<1> HIDE DEF at, bit, q
<1>9. at \in 1 .. k
  BY <1>1, <1>4, <1>5, <1>6
<1>10. position \notin flipped
  BY <1>2, <1>4
<1>11. bit \notin Hit(at)
  <2>1. ASSUME NEW p \in flipped, p \div 8 + 1 = at, p % 8 = bit PROVE FALSE
    <3>1. p \in Nat /\ p < position
      BY <1>2, <1>4
    <3>2. p \div 8 \in Nat /\ p = 8 * (p \div 8) + (p % 8)
      BY <3>1, PositionIs
    <3>3. p = 8 * q + bit
      BY <1>6, <2>1, <3>2
    <3>4. QED
      BY <1>6, <3>1, <3>3
  <2>2. QED
    BY <2>1 DEF Hit
<1>12. Hit(at)' = Hit(at) \cup {bit}
  <2>1. {r \in flipped' : r \div 8 + 1 = at} = {r \in flipped : r \div 8 + 1 = at} \cup {position}
    BY <1>2, <1>7
  <2>2. QED
    BY <1>7, <1>8, <2>1 DEF Hit
<1>13. \A i : i # at => Hit(i)' = Hit(i)
  <2>1. \A i : i # at => position \div 8 + 1 # i
    BY <1>7
  <2>2. QED
    BY <1>2, <1>8, <2>1 DEF Hit
<1>14. FlippedBit(line[at], bit) \in Octet
  BY <1>5, FlippedOctet
<1>15. line' \in Seq(Octet) /\ Len(line') = k
  BY <1>1, <1>2, <1>9, <1>14, ExceptSeq DEF k
<1>16. DOMAIN line = 1 .. k
  BY <1>1, LenProperties DEF k
<1>17. /\ line'[at] = FlippedBit(line[at], bit)
       /\ \A i \in 1 .. k : i # at => line'[i] = line[i]
  BY <1>2, <1>9, <1>16
<1>18. QED
  BY <1>5, <1>9, <1>10, <1>11, <1>12, <1>13, <1>15, <1>17 DEF at, bit, k

(* Every step keeps track of the damage.                                   *)
LEMMA DamageKept == IInv /\ Damage /\ [Next]_vars => Damage'
<1> SUFFICES ASSUME IInv, Damage, [Next]_vars PROVE Damage'
  OBVIOUS
<1>1. ASSUME Send PROVE Damage'
  <2>1. /\ line' = Encode(sent) /\ sent' = sent /\ flipped' = {}
        /\ sent \in Frames /\ EncodeStatusOf(sent) = "Ok"
    BY <1>1 DEF IInv, TypeOK, Quiet, Send
  <2>2. line' \in Seq(Octet)
    BY <2>1, SentAgrees
  <2>3. ASSUME NEW i \in 1 .. Len(line')
        PROVE  line'[i] = WithFlipped(Encode(sent)[i], Hit(i)')
    <3>1. Hit(i)' = {}
      BY <2>1 DEF Hit
    <3>2. line'[i] \in Octet
      BY <2>2, <2>3, ElementOfSeq
    <3>3. WithFlipped(line'[i], {}) = line'[i]
      BY <3>2, FlippingMatters
    <3>4. QED
      BY <2>1, <3>1, <3>3
  <2>4. QED
    BY <2>1, <2>3 DEF Damage
<1>2. ASSUME NEW position \in 0 .. (8 * Len(line) - 1), Flip(position) PROVE Damage'
  <2> DEFINE at == position \div 8 + 1
             bit == position % 8
             k == Len(line)
  <2>1. /\ at \in 1 .. k /\ bit \in 0 .. 7
        /\ bit \notin Hit(at) /\ Hit(at)' = Hit(at) \cup {bit}
        /\ \A i : i # at => Hit(i)' = Hit(i)
        /\ Len(line') = k
        /\ line'[at] = FlippedBit(line[at], bit)
        /\ \A i \in 1 .. k : i # at => line'[i] = line[i]
    BY <1>2, FlipHits
  <2> HIDE DEF at, bit
  <2>2. /\ pc = "line" /\ resized = 0
        /\ flipped' = flipped \cup {position} /\ sent' = sent
    BY <1>2 DEF Flip
  <2>3. /\ flipped \subseteq 0 .. (8 * k - 1)
        /\ \A i \in 1 .. k : line[i] = WithFlipped(Encode(sent)[i], Hit(i))
    BY <2>2 DEF Damage
  <2>4. flipped' \subseteq 0 .. (8 * k - 1)
    BY <1>2, <2>2, <2>3
  <2>5. line'[at] = WithFlipped(Encode(sent)[at], Hit(at)')
    <3>1. flipped \subseteq Nat
      BY <2>3
    <3> DEFINE byte == Encode(sent)[at]
               hit == Hit(at)
    <3>2. hit \subseteq 0 .. 7 /\ bit \in 0 .. 7 /\ bit \notin hit
      BY <2>1, <3>1, PositionIs, SMTT(30) DEF Hit
    <3>3. line[at] = WithFlipped(byte, hit)
      BY <2>1, <2>3
    <3> HIDE DEF byte, hit
    <3>4. FlippedBit(WithFlipped(byte, hit), bit) = WithFlipped(byte, hit \cup {bit})
      BY <3>2, FlipOneMore
    <3>5. QED
      BY <2>1, <3>3, <3>4 DEF byte, hit
  <2>6. ASSUME NEW i \in 1 .. k PROVE line'[i] = WithFlipped(Encode(sent)[i], Hit(i)')
    BY <2>1, <2>3, <2>5
  <2>7. QED
    BY <2>1, <2>2, <2>4, <2>6 DEF Damage
<1>3. ASSUME Cut \/ \E byte \in {0, 165} : Lengthen(byte) PROVE Damage'
  <2>1. resized \in Int
    BY DEF IInv, UnderWay
  <2>2. resized' # 0
    BY <1>3, <2>1 DEF Cut, Lengthen
  <2>3. QED
    BY <2>2 DEF Damage
<1>4. CASE Refuse
  BY <1>4 DEF Refuse, Damage
<1>5. CASE Receive \/ UNCHANGED vars
  <2>1. /\ pc' \in {"line", "judged"} => pc \in {"line", "judged"}
        /\ UNCHANGED <<sent, line, flipped, resized>>
    BY <1>5 DEF Receive, vars
  <2>2. QED
    BY <2>1 DEF Damage, Hit
<1>6. QED
  BY <1>1, <1>2, <1>3, <1>4, <1>5 DEF Next

(* The bits that were flipped, byte by byte.                               *)
Hits == [i \in 1 .. Len(line) |-> Hit(i)]

(* The number of bits flipped is odd if and only if the parities of the    *)
(* bytes say so.                                                           *)
Counted ==
  pc \in {"line", "judged"} /\ resized = 0 =>
    /\ IsFiniteSet(flipped)
    /\ \E R : /\ IsParity(R, Hits, Len(line))
              /\ R[Len(line)] <=> Cardinality(flipped) % 2 = 1

(* One byte with another parity turns the parity from there on.            *)
LEMMA ParityTurns ==
  ASSUME NEW N \in Nat, NEW e, NEW R, IsParity(R, e, N), NEW at \in 1 .. N,
         NEW g, Odd(g[at]) <=> ~Odd(e[at]), \A i \in 1 .. N : i # at => g[i] = e[i]
  PROVE  \E S : IsParity(S, g, N) /\ (S[N] <=> ~R[N])
<1> DEFINE S == [i \in 0 .. N |-> IF i >= at THEN ~R[i] ELSE R[i]]
<1>1. /\ R \in [0 .. N -> BOOLEAN] /\ R[0] = FALSE
      /\ \A i \in 1 .. N : R[i] <=> Differ(R[i - 1], Odd(e[i]))
  BY DEF IsParity
<1>2. S \in [0 .. N -> BOOLEAN]
  BY <1>1
<1>3. \A i \in 0 .. N : /\ i >= at => (S[i] <=> ~R[i])
                        /\ ~(i >= at) => S[i] = R[i]
  BY Zenon
<1> HIDE DEF S
<1>4. S[0] = FALSE /\ (S[N] <=> ~R[N])
  <2>1. 0 \in 0 .. N /\ ~(0 >= at) /\ N \in 0 .. N /\ N >= at
    OBVIOUS
  <2>2. QED
    BY <1>1, <1>3, <2>1, Zenon
<1>5. ASSUME NEW i \in 1 .. N PROVE S[i] <=> Differ(S[i - 1], Odd(g[i]))
  <2>1. i \in 0 .. N /\ i - 1 \in 0 .. N
    OBVIOUS
  <2>2. R[i] <=> Differ(R[i - 1], Odd(e[i]))
    BY <1>1
  <2>3. CASE i = at
    <3>1. i >= at /\ ~(i - 1 >= at)
      BY <2>3
    <3>2. (S[i] <=> ~R[i]) /\ S[i - 1] = R[i - 1]
      BY <1>3, <2>1, <3>1, Zenon
    <3>3. Odd(g[i]) <=> ~Odd(e[i])
      BY <2>3, Zenon
    <3>4. QED
      BY <2>2, <3>2, <3>3, Zenon DEF Differ
  <2>4. CASE i # at
    <3>1. (i >= at <=> i - 1 >= at) /\ g[i] = e[i]
      BY <2>4
    <3>2. \/ S[i] = R[i] /\ S[i - 1] = R[i - 1]
          \/ (S[i] <=> ~R[i]) /\ (S[i - 1] <=> ~R[i - 1])
      BY <1>3, <2>1, <3>1, Zenon
    <3>3. QED
      BY <2>2, <3>1, <3>2, Zenon DEF Differ
  <2>5. QED
    BY <2>3, <2>4
<1>6. IsParity(S, g, N)
  BY <1>2, <1>4, <1>5 DEF IsParity
<1>7. QED
  BY <1>4, <1>6

(* Every step keeps the count.                                             *)
LEMMA CountedKept == IInv /\ Damage /\ Counted /\ [Next]_vars => Counted'
<1> SUFFICES ASSUME IInv, Damage, Counted, [Next]_vars PROVE Counted'
  OBVIOUS
<1>1. ASSUME Send PROVE Counted'
  <2> DEFINE k == Len(line')
             R == [i \in 0 .. k |-> FALSE]
  <2>1. line' = Encode(sent) /\ flipped' = {} /\ sent \in Frames /\ EncodeStatusOf(sent) = "Ok"
    BY <1>1 DEF IInv, TypeOK, Quiet, Send
  <2>2. k \in Nat
    BY <2>1, SentAgrees, LenProperties
  <2>3. Hits' = [i \in 1 .. k |-> Hit(i)']
    BY DEF Hits
  <2>4. \A i : Hit(i)' = {}
    BY <2>1 DEF Hit
  <2> HIDE DEF k
  <2>5. \A i \in 1 .. k : Hits'[i] = {}
    BY <2>3, <2>4
  <2>6. IsParity(R, Hits', k) /\ ~R[k]
    <3>1. \A i \in 1 .. k : i \in 0 .. k /\ i - 1 \in 0 .. k
      BY <2>2
    <3>2. \A i \in 0 .. k : R[i] = FALSE
      OBVIOUS
    <3>3. \A i \in 1 .. k : R[i] <=> Differ(R[i - 1], Odd(Hits'[i]))
      BY <2>5, <3>1, <3>2, EvenNothing DEF Differ
    <3>4. R \in [0 .. k -> BOOLEAN] /\ 0 \in 0 .. k /\ k \in 0 .. k
      BY <2>2
    <3> HIDE DEF R
    <3>5. QED
      BY <3>2, <3>3, <3>4 DEF IsParity
  <2>7. IsFiniteSet(flipped') /\ Cardinality(flipped') % 2 # 1
    BY <2>1, FS_EmptySet
  <2> HIDE DEF R
  <2>8. QED
    BY <2>6, <2>7 DEF Counted, k
<1>2. ASSUME NEW position \in 0 .. (8 * Len(line) - 1), Flip(position) PROVE Counted'
  <2> DEFINE at == position \div 8 + 1
             bit == position % 8
             k == Len(line)
             e == Hits
             g == Hits'
  <2>1. /\ at \in 1 .. k /\ bit \in 0 .. 7 /\ position \notin flipped
        /\ bit \notin Hit(at) /\ Hit(at)' = Hit(at) \cup {bit}
        /\ \A i : i # at => Hit(i)' = Hit(i)
        /\ Len(line') = k
    BY <1>2, FlipHits
  <2> HIDE DEF at, bit
  <2>2. /\ pc = "line" /\ resized = 0 /\ flipped' = flipped \cup {position}
    BY <1>2 DEF Flip
  <2>3. k \in Nat
    BY LenProperties DEF IInv, TypeOK
  <2>4. /\ \A i \in 1 .. k : e[i] = Hit(i)
        /\ \A i \in 1 .. k : g[i] = Hit(i)'
    BY <2>1 DEF Hits
  <2>5. /\ IsFiniteSet(flipped)
        /\ \E R : IsParity(R, e, k) /\ (R[k] <=> Cardinality(flipped) % 2 = 1)
    BY <2>2 DEF Counted
  <2>6. PICK R : IsParity(R, e, k) /\ (R[k] <=> Cardinality(flipped) % 2 = 1)
    BY <2>5
  <2>7. /\ Odd(g[at]) <=> ~Odd(e[at])
        /\ \A i \in 1 .. k : i # at => g[i] = e[i]
    <3> DEFINE before == Hit(at)
               after == before \cup {bit}
    <3>1. e[at] = before /\ g[at] = after
      BY <2>1, <2>4
    <3>2. bit \in 0 .. 7 /\ bit \notin before
      BY <2>1
    <3> HIDE DEF before
    <3>3. Odd(after) <=> ~Odd(before)
      BY <3>2, OneBitMore, Zenon
    <3> HIDE DEF after
    <3>4. Odd(g[at]) <=> ~Odd(e[at])
      BY <3>1, <3>3
    <3>5. QED
      BY <2>1, <2>4, <3>4
  <2> HIDE DEF e, g, k
  <2>8. PICK S : IsParity(S, g, k) /\ (S[k] <=> ~R[k])
    BY <2>1, <2>3, <2>6, <2>7, ParityTurns
  <2>9. IsFiniteSet(flipped') /\ Cardinality(flipped') = Cardinality(flipped) + 1
        /\ Cardinality(flipped) \in Nat
    BY <2>1, <2>2, <2>5, FS_AddElement, FS_CardinalityType
  <2>10. Cardinality(flipped') % 2 = 1 <=> ~(Cardinality(flipped) % 2 = 1)
    <3>1. \A c \in Nat : (c + 1) % 2 = 1 <=> ~(c % 2 = 1)
      OBVIOUS
    <3>2. QED
      BY <2>9, <3>1
  <2>11. Len(line') = k
    BY <2>1
  <2>12. QED
    BY <2>6, <2>8, <2>9, <2>10, <2>11 DEF Counted, g
<1>3. ASSUME Cut \/ \E byte \in {0, 165} : Lengthen(byte) PROVE Counted'
  <2>1. resized \in Int
    BY DEF IInv, UnderWay
  <2>2. resized' # 0
    BY <1>3, <2>1 DEF Cut, Lengthen
  <2>3. QED
    BY <2>2 DEF Counted
<1>4. CASE Refuse
  BY <1>4 DEF Refuse, Counted
<1>5. CASE Receive \/ UNCHANGED vars
  <2>1. /\ pc' \in {"line", "judged"} => pc \in {"line", "judged"}
        /\ UNCHANGED <<line, flipped, resized>>
    BY <1>5 DEF Receive, vars
  <2>2. QED
    BY <2>1 DEF Counted, Hits, Hit
<1>6. QED
  BY <1>1, <1>2, <1>3, <1>4, <1>5 DEF Next

(* What decode() judged is the encoded frame with the bits flipped that    *)
(* the line flipped.                                                       *)
LEMMA JudgedDamage ==
  ASSUME IInv, Damage, pc = "judged", resized = 0
  PROVE  /\ DamagedBy(line, sent, Hits) /\ status = DecodeStatusOf(line)
         /\ Len(line) = 12 + sent.payload_length /\ flipped \subseteq Nat
         /\ \A p \in flipped : p \div 8 + 1 \in 1 .. Len(line)
<1> DEFINE n == sent.payload_length
<1>1. /\ sent \in Frames /\ line \in Seq(Octet) /\ EncodeStatusOf(sent) = "Ok"
      /\ Len(line) = 12 + n + resized /\ status = DecodeStatusOf(line)
  BY DEF IInv, TypeOK, UnderWay, Judgement
<1>2. Encodable(sent) /\ n \in Nat
  BY <1>1, SentEncodable
<1>3. /\ flipped \subseteq 0 .. (8 * Len(line) - 1)
      /\ \A i \in 1 .. Len(line) : line[i] = WithFlipped(Encode(sent)[i], Hit(i))
  BY DEF Damage
<1> HIDE DEF n
<1>4. Len(line) = 12 + n
  BY <1>1, <1>2
<1>5. flipped \subseteq Nat
  BY <1>2, <1>3, <1>4
<1>6. \A i : Hit(i) \in ByteBits
  BY <1>5, PositionIs DEF Hit, ByteBits
<1>7. ASSUME NEW p \in flipped PROVE p \div 8 + 1 \in 1 .. Len(line)
  <2> DEFINE q == p \div 8
             r == p % 8
  <2>1. p \in Nat /\ p <= 8 * (12 + n) - 1
    BY <1>2, <1>3, <1>4, <1>5
  <2>2. q \in Nat /\ r \in 0 .. 7 /\ p = 8 * q + r
    BY <2>1, PositionIs
  <2> HIDE DEF q, r
  <2>3. q + 1 \in 1 .. (12 + n)
    BY <1>2, <2>1, <2>2
  <2>4. QED
    BY <1>4, <2>3 DEF q
<1>8. \A i \in 1 .. Len(line) : Hits[i] = Hit(i)
  BY DEF Hits
<1>9. DamagedBy(line, sent, Hits)
  BY <1>1, <1>2, <1>3, <1>4, <1>6, <1>8 DEF DamagedBy, n
<1>10. QED
  BY <1>1, <1>4, <1>5, <1>7, <1>9 DEF n

(* Damage within one byte, however many of its bits are flipped, of any    *)
(* two bits, and of any odd number of bits is noticed in every frame,      *)
(* wherever it is: the header's checks and the checksum leave no gap       *)
(* between what they cover.                                                *)
SmallDamageDetected ==
  pc = "judged" /\ resized = 0 /\ flipped # {}
  /\ \/ \A p, q \in flipped : p \div 8 = q \div 8
     \/ Cardinality(flipped) = 2
     \/ Cardinality(flipped) % 2 = 1
    => status # "Ok"

(* Damage within one byte, of two bits, and of an odd number of bits is    *)
(* never taken for a frame, in any frame and wherever the bits are.        *)
THEOREM SmallDamage == Spec => []SmallDamageDetected
<1>1. Init => Damage /\ Counted
  BY DEF Init, Damage, Counted
<1>2. IInv /\ Damage /\ Counted => SmallDamageDetected
  <2> SUFFICES ASSUME IInv, Damage, Counted, pc = "judged", resized = 0, flipped # {},
                      \/ \A p, q \in flipped : p \div 8 = q \div 8
                      \/ Cardinality(flipped) = 2
                      \/ Cardinality(flipped) % 2 = 1
               PROVE  status # "Ok"
    BY DEF SmallDamageDetected
  <2> DEFINE N == 12 + sent.payload_length
             byte(p) == p \div 8 + 1
  <2>1. /\ DamagedBy(line, sent, Hits) /\ status = DecodeStatusOf(line)
        /\ Len(line) = N /\ flipped \subseteq Nat
        /\ \A p \in flipped : byte(p) \in 1 .. Len(line)
    BY JudgedDamage
  <2>2. /\ IsFiniteSet(flipped)
        /\ \E R : IsParity(R, Hits, Len(line)) /\ (R[Len(line)] <=> Cardinality(flipped) % 2 = 1)
    BY DEF Counted
  <2>3. \A i \in 1 .. N : Hits[i] = {p % 8 : p \in {q \in flipped : byte(q) = i}}
    BY <2>1 DEF Hits, Hit
  <2>4. ASSUME \A p, q \in flipped : p \div 8 = q \div 8 PROVE status # "Ok"
    <3>1. PICK p : p \in flipped
      OBVIOUS
    <3> DEFINE k == byte(p)
    <3>2. k \in 1 .. N /\ \A q \in flipped : byte(q) = k
      BY <2>1, <2>4, <3>1
    <3>3. p % 8 \in Hits[k]
      BY <2>3, <3>1, <3>2
    <3> HIDE DEF k, byte
    <3>4. Hits[k] # {} /\ \A i \in 1 .. N : i # k => Hits[i] = {}
      BY <2>3, <3>2, <3>3
    <3>5. DecodeStatusOf(line) # "Ok"
      BY <2>1, <3>2, <3>4, OneByteRejected
    <3>6. QED
      BY <2>1, <3>5
  <2>5. ASSUME NEW p \in flipped, NEW q \in flipped, flipped = {p, q}, byte(p) < byte(q)
        PROVE  status # "Ok"
    <3> DEFINE k == byte(p)
               l == byte(q)
               x == p % 8
               y == q % 8
    <3>1. x \in 0 .. 7 /\ y \in 0 .. 7
      BY <2>1, PositionIs
    <3>2. k \in 1 .. N /\ l \in 1 .. N /\ k < l /\ k # l
      BY <2>1, <2>5
    <3>3. \A i \in 1 .. N : /\ i = k => {r \in flipped : byte(r) = i} = {p}
                            /\ i = l => {r \in flipped : byte(r) = i} = {q}
                            /\ i # k /\ i # l => {r \in flipped : byte(r) = i} = {}
      BY <2>5, <3>2
    <3> HIDE DEF byte, k, l
    <3>4. /\ Hits[k] = {x} /\ Hits[l] = {y}
          /\ \A i \in 1 .. N : i # k /\ i # l => Hits[i] = {}
      BY <2>3, <3>2, <3>3
    <3> HIDE DEF x, y
    <3>5. DecodeStatusOf(line) # "Ok"
      BY <2>1, <3>1, <3>2, <3>4, TwoBitsRejected
    <3>6. QED
      BY <2>1, <3>5
  <2>6. ASSUME Cardinality(flipped) = 2 PROVE status # "Ok"
    <3>1. PICK p : p \in flipped
      OBVIOUS
    <3>2. IsFiniteSet(flipped \ {p}) /\ Cardinality(flipped \ {p}) = 1
      BY <2>2, <2>6, <3>1, FS_RemoveElement
    <3>3. PICK q : flipped \ {p} = {q}
      BY <3>2, FS_Singleton
    <3>4. flipped = {p, q} /\ q \in flipped
      BY <3>1, <3>3
    <3>5. p \in Nat /\ q \in Nat /\ byte(p) \in Int /\ byte(q) \in Int
      BY <2>1, <3>1, <3>4
    <3>6. CASE byte(p) = byte(q)
      <4>1. p \div 8 = q \div 8
        BY <3>5, <3>6
      <4>2. \A r, s \in flipped : r \div 8 = s \div 8
        BY <3>4, <4>1
      <4>3. QED
        BY <2>4, <4>2
    <3>7. CASE byte(p) # byte(q)
      <4>1. byte(p) < byte(q) \/ byte(q) < byte(p)
        BY <3>5, <3>7
      <4>2. flipped = {q, p}
        BY <3>4
      <4> HIDE DEF byte
      <4>3. QED
        BY <2>5, <3>1, <3>4, <4>1, <4>2
    <3>8. QED
      BY <3>6, <3>7
  <2>7. ASSUME Cardinality(flipped) % 2 = 1 PROVE status # "Ok"
    <3>1. PICK R : IsParity(R, Hits, N) /\ R[N]
      BY <2>1, <2>2, <2>7
    <3>2. DecodeStatusOf(line) # "Ok"
      BY <2>1, <3>1, OddRejected
    <3>3. QED
      BY <2>1, <3>2
  <2>8. QED
    BY <2>4, <2>6, <2>7
<1>3. QED
  BY <1>1, <1>2, Invariance, InitIInv, NextIInv, DamageKept, CountedKept, PTL DEF Spec
=============================================================================
