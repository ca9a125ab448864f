-------------------------- MODULE GroundLinkProofs --------------------------
(***************************************************************************)
(* What the command link owes its users, for all requests and any number   *)
(* of frames, sessions and lost bytes: commands are processed in the order *)
(* they were sent and at most once, and an intact one as soon as it is in, *)
(* unless left-over bytes of broken frames hold it back or swallow it.     *)
(*                                                                         *)
(* The argument looks at the line as a whole, the bytes received and those *)
(* under way as one sequence: polling moves nothing on it, sending extends *)
(* it, and an overrun takes one byte out.  What the decoder makes of it is *)
(* the invariant of FrameStreamDecoderProofs at the real geometry.         *)
(***************************************************************************)
EXTENDS GroundLink, CodecProofs

FlightProofs == INSTANCE FrameStreamDecoderProofs WITH
  Byte <- Octet, sync_first <- 165, sync_second <- 90, header_size <- 6,
  length_low <- 4, length_high <- 5, PayloadLength <- LengthField,
  Decode <- DecodeStatusOf, MaxStream <- maximum_frame_size * MaxFrames

-----------------------------------------------------------------------------
(* The frames of commands.                                                 *)

(* A command as a client's sequencer makes it.                             *)
Genuine(message) ==
  /\ IsCommand(message)
  /\ message.command # "SetTelemetryPeriod" => message.period_ms = 0

(* Its frame: from the second byte on no first sync byte up to the fifth,  *)
(* and the decoders return the message.                                    *)
IsFrame(f, message) ==
  /\ f \in Seq(Octet) /\ Len(f) \in Nat
  /\ Len(f) = 12 + RequiredLength(message.command) /\ 13 <= Len(f) /\ Len(f) <= 17
  /\ f[1] = 165 /\ f[2] = 90 /\ f[3] = 1 /\ f[4] = 16
  /\ f[5] = Len(f) - 12 /\ f[6] = 0
  /\ DecodeStatusOf(f) = "Ok" /\ DecodeCommandStatus(f) = "Ok"
  /\ DecodedCommand(f) = message

(* What encode_command() makes of it.                                      *)
LEMMA CommandFrameIs ==
  ASSUME NEW message, Genuine(message)
  PROVE  IsFrame(EncodeCommand(message), message)
<1> DEFINE frame == CommandFrame(message)
           f == Encode(frame)
           n == frame.payload_length
<1>1. /\ IsCommand(message)
      /\ message.command # "SetTelemetryPeriod" => message.period_ms = 0
      /\ message \in [sequence : Nat, command : DOMAIN CommandCode, period_ms : Nat]
  BY DEF Genuine, IsCommand
<1>2. /\ WellFramed(frame) /\ frame.message_type = "Command"
      /\ CommandPayloadStatus(frame) = "Ok"
      /\ CommandIn(frame) = IF message.command = "SetTelemetryPeriod" THEN message
                            ELSE [message EXCEPT !.period_ms = 0]
  BY <1>1, CommandOut
<1>3. CommandIn(frame) = message
  BY <1>1, <1>2
<1>4. n = RequiredLength(message.command) /\ (n = 1 \/ n = 5)
  <2>1. Len(CommandPayload(message)) = RequiredLength(message.command)
    BY <1>1, CommandPayloadIs
  <2>2. n = Len(CommandPayload(message))
    BY DEF CommandFrame, MakeFrame, CommandPayload
  <2>3. QED
    BY <2>1, <2>2 DEF RequiredLength
<1> HIDE DEF frame
<1>5. Encodable(frame) /\ frame.version = 1
  BY <1>2, FramedFields DEF WellFramed
<1>6. /\ f \in Seq(Octet) /\ Len(f) = 12 + n
      /\ f[1] = 165 /\ f[2] = 90
      /\ \A i \in 1 .. (8 + n) : f[2 + i] = Protected(frame)[i]
  BY <1>5, EncodedLayout
<1>7. /\ Protected(frame)[1] = 1 /\ Protected(frame)[2] = 16
      /\ Protected(frame)[3] = n % 256 /\ Protected(frame)[4] = n \div 256
  BY <1>2, <1>5, ProtectedLayout DEF encode_message_type
<1>8. f[3] = 1 /\ f[4] = 16 /\ f[5] = n /\ f[6] = 0
  <2>1. f[2 + 1] = 1 /\ f[2 + 2] = 16 /\ f[2 + 3] = n % 256 /\ f[2 + 4] = n \div 256
    BY <1>4, <1>6, <1>7
  <2>2. n % 256 = n /\ n \div 256 = 0
    BY <1>4
  <2> HIDE DEF f, n
  <2>3. QED
    BY <2>1, <2>2
<1>9. DecodeStatusOf(f) = "Ok" /\ DecodedFrame(f) = frame
  BY <1>2, <1>5, Transmitted
<1>10. DecodeCommandStatus(f) = "Ok" /\ DecodedCommand(f) = message
  <2> HIDE DEF f
  <2>1. QED
    BY <1>2, <1>3, <1>9, CommandRead
<1>11. f = EncodeCommand(message)
  BY DEF EncodeCommand, frame
<1> HIDE DEF f, n
<1>12. Len(f) \in Nat /\ 13 <= Len(f) /\ Len(f) <= 17 /\ f[5] = Len(f) - 12
  BY <1>4, <1>6, <1>8
<1>13. QED
  BY <1>4, <1>6, <1>8, <1>9, <1>10, <1>11, <1>12 DEF IsFrame

(* Whatever is accepted as a command has a payload.                        *)
LEMMA CommandHasPayload ==
  ASSUME NEW b \in Seq(Octet), DecodeCommandStatus(b) = "Ok"
  PROVE  Len(b) \in Nat /\ 13 <= Len(b)
<1>1. DecodeStatusOf(b) = "Ok" /\ CommandPayloadStatus(DecodedFrame(b)) = "Ok"
  BY DEF DecodeCommandStatus
<1> DEFINE n == read_u16_le(b, 4)
<1>2. DecodedFrame(b).payload_length = n
  BY DEF DecodedFrame
<1>3. ~(n < 1)
  BY <1>1, <1>2 DEF CommandPayloadStatus
<1>4. Len(b) = 12 + n
  BY <1>1 DEF DecodeStatusOf, ExpectedSize, minimum_frame_size
<1>5. n \in Nat
  BY <1>1, AcceptedLength
<1> HIDE DEF n
<1>6. QED
  BY <1>3, <1>4, <1>5

(* And it is read as a command.                                            *)
LEMMA CommandReadIs ==
  ASSUME NEW b \in Seq(Octet), DecodeCommandStatus(b) = "Ok"
  PROVE  DecodedCommand(b) \in CommandMessage
<1> DEFINE n == read_u16_le(b, 4)
           frame == DecodedFrame(b)
           p == SubSeq(b, 11, 10 + n)
           command == NameOf(CommandCode, p[1])
<1>1. DecodeStatusOf(b) = "Ok" /\ CommandPayloadStatus(frame) = "Ok"
  BY DEF DecodeCommandStatus
<1>2. frame.payload_length = n /\ frame.payload = p /\ frame.sequence = read_u32_le(b, 6)
  BY DEF DecodedFrame
<1>3. Len(b) = 12 + n
  BY <1>1 DEF DecodeStatusOf, ExpectedSize, minimum_frame_size
<1>4. n \in Nat
  BY <1>1, AcceptedLength
<1> HIDE DEF frame, n
<1>5. ~(n < 1) /\ IsCode(CommandCode, p[1]) /\ n = RequiredLength(command)
  BY <1>1, <1>2 DEF CommandPayloadStatus
<1>6. 13 <= Len(b)
  BY <1>3, <1>4, <1>5
<1>7. b[7] \in Octet /\ b[8] \in Octet /\ b[9] \in Octet /\ b[10] \in Octet
  BY <1>6, LenProperties, ElementOfSeq
<1>8. read_u32_le(b, 6) \in Nat
  <2> DEFINE w == b[7]
             x == b[8]
             y == b[9]
             z == b[10]
  <2>1. read_u32_le(b, 6) = w + 256 * x + 65536 * (y + 256 * z)
    BY DEF read_u32_le, read_u16_le, At
  <2>2. w \in Nat /\ x \in Nat /\ y \in Nat /\ z \in Nat
    BY <1>7, OctetIs
  <2> HIDE DEF w, x, y, z
  <2>3. QED
    BY <2>1, <2>2
<1>9. command \in DOMAIN CommandCode
  BY <1>5 DEF IsCode, NameOf
<1>10. p \in Seq(Octet) /\ Len(p) = n
  <2>1. \A i \in 1 .. Len(b) : b[i] \in Octet
    BY ElementOfSeq
  <2>2. \A i \in 11 .. (10 + n) : b[i] \in Octet
    BY <1>3, <1>4, <2>1
  <2>3. p \in Seq(Octet) /\ Len(p) = (10 + n) - 11 + 1
    BY <1>4, <1>5, <2>2, SubSeqProperties
  <2> HIDE DEF p
  <2>4. QED
    BY <1>4, <2>3
<1>11. DecodedCommand(b) =
         [sequence  |-> read_u32_le(b, 6), command |-> command,
          period_ms |-> IF command = "SetTelemetryPeriod" THEN read_u32_le(p, 1) ELSE 0]
  BY <1>2 DEF DecodedCommand, frame
<1> HIDE DEF p, command
<1>12. command = "SetTelemetryPeriod" => read_u32_le(p, 1) \in Nat
  <2>1. command = "SetTelemetryPeriod" => Len(p) = 5
    BY <1>5, <1>10 DEF RequiredLength
  <2>2. QED
    BY <1>10, <2>1, PeriodIs
<1>13. QED
  BY <1>8, <1>9, <1>11, <1>12 DEF CommandMessage

-----------------------------------------------------------------------------
(* The line: bytes with the number of the frame they belong to.            *)

Entry == [byte : Octet, number : Nat \ {0}]

Attempt == [message : CommandMessage, intact : BOOLEAN]

(* The bytes of the n-th of the frames A.                                  *)
FrameOf(A, n) == EncodeCommand(A[n].message)

InTurn(line, A) ==
  /\ \A i \in 1 .. Len(line) : line[i].number \in 1 .. Len(A)
  /\ \A i, j \in 1 .. Len(line) : i < j => line[i].number <= line[j].number

(* Byte i of the line is byte off[i] of its frame: what is left of a frame *)
(* is in its order.                                                        *)
Fits(line, A, off) ==
  /\ \A i \in 1 .. Len(line) :
       /\ off[i] \in 1 .. Len(FrameOf(A, line[i].number))
       /\ line[i].byte = FrameOf(A, line[i].number)[off[i]]
  /\ \A i, j \in 1 .. Len(line) :
       i < j /\ line[i].number = line[j].number => off[i] < off[j]

(* The n-th frame is on the line whole, from s on, and nowhere else.       *)
Stretch(line, A, n, s) ==
  /\ s \in Nat \ {0} /\ s + Len(FrameOf(A, n)) - 1 <= Len(line)
  /\ \A i \in 1 .. Len(FrameOf(A, n)) :
       line[s + i - 1] = [byte |-> FrameOf(A, n)[i], number |-> n]
  /\ \A i \in 1 .. Len(line) :
       line[i].number = n => s <= i /\ i <= s + Len(FrameOf(A, n)) - 1

IsLine(line, A) ==
  /\ line \in Seq(Entry) /\ A \in Seq(Attempt)
  /\ \A n \in 1 .. Len(A) : Genuine(A[n].message)
  /\ InTurn(line, A)
  /\ \E off \in [1 .. Len(line) -> Nat] : Fits(line, A, off)
  /\ \A n \in 1 .. Len(A) : A[n].intact => \E s : Stretch(line, A, n, s)

(* The first `count` bytes of a message's frame are added to the line.     *)
Sending(line, A, message, count, whole, line2, A2) ==
  /\ message \in CommandMessage /\ Genuine(message)
  /\ count \in 1 .. Len(EncodeCommand(message))
  /\ whole \in BOOLEAN /\ (whole => count = Len(EncodeCommand(message)))
  /\ A2 = Append(A, [message |-> message, intact |-> whole])
  /\ line2 \in Seq(Entry) /\ Len(line2) = Len(line) + count
  /\ \A i \in 1 .. Len(line) : line2[i] = line[i]
  /\ \A j \in 1 .. count :
       line2[Len(line) + j] = [byte |-> EncodeCommand(message)[j], number |-> Len(A) + 1]

(* A frame sent, or the first bytes of one, at the end of the line.        *)
LEMMA FrameSent ==
  ASSUME NEW line, NEW A, IsLine(line, A), NEW message, NEW count, NEW whole,
         NEW line2, NEW A2, Sending(line, A, message, count, whole, line2, A2)
  PROVE  IsLine(line2, A2)
<1> DEFINE f == EncodeCommand(message)
           K == Len(line)
           N == Len(A)
           last == [message |-> message, intact |-> whole]
<1>1. /\ line \in Seq(Entry) /\ A \in Seq(Attempt) /\ InTurn(line, A)
      /\ \A n \in 1 .. N : Genuine(A[n].message)
      /\ \A n \in 1 .. N : A[n].intact => \E s : Stretch(line, A, n, s)
      /\ message \in CommandMessage /\ Genuine(message) /\ whole \in BOOLEAN
  BY DEF IsLine, Sending
<1>2. K \in Nat /\ N \in Nat
  BY <1>1
<1>3. Len(f) \in Nat /\ f \in Seq(Octet) /\ count \in Nat /\ count >= 1 /\ count <= Len(f)
  <2>1. f \in Seq(Octet) /\ Len(f) \in Nat
    BY <1>1, CommandFrameIs DEF IsFrame
  <2>2. count \in 1 .. Len(f)
    BY DEF Sending
  <2> HIDE DEF f
  <2>3. QED
    BY <2>1, <2>2
<1> HIDE DEF f
<1>4. last \in Attempt
  BY <1>1 DEF Attempt
<1>5. /\ A2 \in Seq(Attempt) /\ Len(A2) = N + 1 /\ A2[N + 1] = last
      /\ \A n \in 1 .. N : A2[n] = A[n]
  <2> HIDE DEF last
  <2>1. A2 = Append(A, last)
    BY DEF last, Sending
  <2>2. QED
    BY <1>1, <1>4, <2>1, AppendProperties
<1>6. FrameOf(A2, N + 1) = f /\ \A n \in 1 .. N : FrameOf(A2, n) = FrameOf(A, n)
  BY <1>5 DEF FrameOf, f
<1>7. A2[N + 1].message = message /\ (A2[N + 1].intact => count = Len(f))
  <2>1. last.message = message /\ last.intact = whole
    OBVIOUS
  <2> HIDE DEF last
  <2>2. A2[N + 1].message = message /\ A2[N + 1].intact = whole
    BY <1>5, <2>1
  <2>3. QED
    BY <2>2 DEF f, Sending
<1> HIDE DEF last, N, K
<1>8. /\ \A n \in 1 .. (N + 1) : n \in 1 .. N \/ n = N + 1
      /\ \A n \in 1 .. N : n \in 1 .. (N + 1) /\ n # N + 1
      /\ N + 1 \in 1 .. (N + 1)
  BY <1>2
<1>9. \A i \in 1 .. (K + count) :
        i \in 1 .. K \/ (i - K \in 1 .. count /\ i > K /\ K + (i - K) = i)
  BY <1>2, <1>3
<1>10. Len(line2) = K + count /\ \A i \in 1 .. K : line2[i] = line[i]
  BY DEF K, Sending
<1>11. ASSUME NEW i \in 1 .. (K + count), i \notin 1 .. K
       PROVE  /\ line2[i].number = N + 1 /\ line2[i].byte = f[i - K]
              /\ line2[i] = [byte |-> f[i - K], number |-> N + 1]
  <2>1. i - K \in 1 .. count /\ K + (i - K) = i
    BY <1>9, <1>11
  <2>2. line2[K + (i - K)] = [byte |-> f[i - K], number |-> N + 1]
    BY <2>1 DEF K, N, f, Sending
  <2>3. QED
    BY <2>1, <2>2
<1>12. /\ \A i \in 1 .. K : line[i].number \in 1 .. N
       /\ \A i, j \in 1 .. K : i < j => line[i].number <= line[j].number
  BY <1>1 DEF InTurn, K, N
<1>13. InTurn(line2, A2)
  <2>1. ASSUME NEW i \in 1 .. (K + count) PROVE line2[i].number \in 1 .. (N + 1)
    <3>1. CASE i \in 1 .. K
      <4>1. line2[i].number = line[i].number /\ line[i].number \in 1 .. N
        BY <1>10, <1>12, <3>1
      <4>2. QED
        BY <1>8, <4>1
    <3>2. CASE i \notin 1 .. K
      <4>1. line2[i].number = N + 1
        BY <1>11, <3>2
      <4>2. QED
        BY <1>8, <4>1
    <3>3. QED
      BY <3>1, <3>2
  <2>2. ASSUME NEW i \in 1 .. (K + count), NEW j \in 1 .. (K + count), i < j
        PROVE  line2[i].number <= line2[j].number
    <3>1. CASE j \in 1 .. K
      <4>1. i \in 1 .. K
        BY <1>2, <1>3, <2>2, <3>1
      <4>2. QED
        BY <1>10, <1>12, <2>2, <3>1, <4>1
    <3>2. CASE j \notin 1 .. K
      <4>1. line2[j].number = N + 1
        BY <1>11, <3>2
      <4>2. line2[i].number \in 1 .. (N + 1)
        BY <2>1
      <4>3. QED
        BY <1>2, <4>1, <4>2
    <3>3. QED
      BY <3>1, <3>2
  <2>3. QED
    BY <1>5, <1>10, <2>1, <2>2 DEF InTurn, N
<1>14. \E off \in [1 .. Len(line2) -> Nat] : Fits(line2, A2, off)
  <2>1. PICK off \in [1 .. K -> Nat] : Fits(line, A, off)
    BY DEF IsLine, K
  <2> DEFINE off2 == [i \in 1 .. (K + count) |-> IF i \in 1 .. K THEN off[i] ELSE i - K]
  <2>2. off2 \in [1 .. Len(line2) -> Nat]
    <3>1. ASSUME NEW i \in 1 .. (K + count)
          PROVE  (IF i \in 1 .. K THEN off[i] ELSE i - K) \in Nat
      BY <1>9, <3>1
    <3>2. QED
      BY <1>10, <3>1
  <2>3. ASSUME NEW i \in 1 .. (K + count)
        PROVE  /\ off2[i] \in 1 .. Len(FrameOf(A2, line2[i].number))
               /\ line2[i].byte = FrameOf(A2, line2[i].number)[off2[i]]
    <3>1. CASE i \in 1 .. K
      <4>1. off2[i] = off[i] /\ line2[i] = line[i]
        BY <1>10, <3>1
      <4>2. FrameOf(A2, line[i].number) = FrameOf(A, line[i].number)
        BY <1>6, <1>12, <3>1
      <4>3. /\ off[i] \in 1 .. Len(FrameOf(A, line[i].number))
            /\ line[i].byte = FrameOf(A, line[i].number)[off[i]]
        BY <2>1, <3>1 DEF Fits, K
      <4>4. QED
        BY <4>1, <4>2, <4>3
    <3>2. CASE i \notin 1 .. K
      <4>1. off2[i] = i - K /\ i - K \in 1 .. count
        BY <1>9, <3>2
      <4>2. line2[i].number = N + 1 /\ line2[i].byte = f[i - K]
        BY <1>11, <3>2
      <4>3. i - K \in 1 .. Len(f)
        BY <1>3, <4>1
      <4> HIDE DEF off2
      <4>4. QED
        BY <1>6, <4>1, <4>2, <4>3
    <3>3. QED
      BY <3>1, <3>2
  <2>4. ASSUME NEW i \in 1 .. (K + count), NEW j \in 1 .. (K + count), i < j,
               line2[i].number = line2[j].number
        PROVE  off2[i] < off2[j]
    <3>1. CASE j \in 1 .. K
      <4>1. i \in 1 .. K
        BY <1>2, <1>3, <2>4, <3>1
      <4>2. line[i].number = line[j].number
        BY <1>10, <2>4, <3>1, <4>1
      <4>3. off[i] < off[j]
        BY <2>1, <2>4, <3>1, <4>1, <4>2 DEF Fits, K
      <4>4. QED
        BY <3>1, <4>1, <4>3
    <3>2. CASE j \notin 1 .. K
      <4>1. line2[i].number = N + 1
        BY <1>11, <2>4, <3>2
      <4>2. i \notin 1 .. K
        BY <1>2, <1>10, <1>12, <4>1
      <4>3. off2[i] = i - K /\ off2[j] = j - K
        BY <3>2, <4>2
      <4> HIDE DEF off2
      <4>4. QED
        BY <1>2, <1>3, <2>4, <4>3
    <3>3. QED
      BY <3>1, <3>2
  <2> HIDE DEF off2
  <2>5. Fits(line2, A2, off2)
    BY <1>10, <2>3, <2>4 DEF Fits
  <2>6. QED
    BY <2>2, <2>5
<1>15. ASSUME NEW n \in 1 .. (N + 1), A2[n].intact
       PROVE  \E s : Stretch(line2, A2, n, s)
  <2>1. CASE n \in 1 .. N
    <3>1. A[n].intact /\ FrameOf(A2, n) = FrameOf(A, n)
      BY <1>5, <1>6, <1>15, <2>1 DEF N
    <3>2. PICK s : Stretch(line, A, n, s)
      BY <1>1, <2>1, <3>1 DEF N
    <3> DEFINE g == FrameOf(A, n)
    <3>3. /\ s \in Nat \ {0} /\ s + Len(g) - 1 <= K
          /\ \A i \in 1 .. Len(g) : line[s + i - 1] = [byte |-> g[i], number |-> n]
          /\ \A i \in 1 .. K : line[i].number = n => s <= i /\ i <= s + Len(g) - 1
      BY <3>2 DEF Stretch, K
    <3>4. Len(g) \in Nat
      BY <1>1, <2>1, CommandFrameIs DEF IsFrame, FrameOf, N
    <3> HIDE DEF g
    <3>5. ASSUME NEW i \in 1 .. Len(g) PROVE line2[s + i - 1] = [byte |-> g[i], number |-> n]
      <4>1. s + i - 1 \in 1 .. K
        BY <1>2, <3>3, <3>4
      <4>2. QED
        BY <1>10, <3>3, <4>1
    <3>6. ASSUME NEW i \in 1 .. (K + count), line2[i].number = n
          PROVE  s <= i /\ i <= s + Len(g) - 1
      <4>1. n # N + 1
        BY <1>8, <2>1
      <4>2. i \in 1 .. K
        BY <1>11, <3>6, <4>1
      <4>3. QED
        BY <1>10, <3>3, <3>6, <4>2
    <3>7. s + Len(g) - 1 <= K + count
      BY <1>2, <1>3, <3>3, <3>4
    <3>8. Stretch(line2, A2, n, s)
      BY <1>10, <3>1, <3>3, <3>5, <3>6, <3>7 DEF Stretch, g
    <3>9. QED
      BY <3>8
  <2>2. CASE n = N + 1
    <3>1. count = Len(f) /\ FrameOf(A2, n) = f
      BY <1>6, <1>7, <1>15, <2>2
    <3> DEFINE s == K + 1
    <3>2. s \in Nat \ {0} /\ s + Len(f) - 1 = K + count
      BY <1>2, <1>3, <3>1
    <3>3. ASSUME NEW i \in 1 .. Len(f) PROVE line2[s + i - 1] = [byte |-> f[i], number |-> n]
      <4>1. s + i - 1 = K + i /\ i \in 1 .. count
        BY <1>2, <1>3, <3>1
      <4>2. line2[K + i] = [byte |-> f[i], number |-> N + 1]
        BY <4>1 DEF K, N, f, Sending
      <4>3. QED
        BY <2>2, <4>1, <4>2
    <3>4. ASSUME NEW i \in 1 .. (K + count), line2[i].number = n
          PROVE  s <= i /\ i <= s + Len(f) - 1
      <4>1. i \notin 1 .. K
        BY <1>2, <1>10, <1>12, <2>2, <3>4
      <4>2. QED
        BY <1>2, <1>3, <1>9, <3>2, <4>1
    <3> HIDE DEF s
    <3>5. s + Len(f) - 1 <= K + count
      BY <1>2, <1>3, <3>2
    <3>6. Stretch(line2, A2, n, s)
      BY <1>10, <3>1, <3>2, <3>3, <3>4, <3>5 DEF Stretch
    <3>7. QED
      BY <3>6
  <2>3. QED
    BY <1>8, <2>1, <2>2
<1>16. ASSUME NEW n \in 1 .. (N + 1) PROVE Genuine(A2[n].message)
  <2>1. CASE n \in 1 .. N
    BY <1>1, <1>5, <2>1 DEF N
  <2>2. CASE n = N + 1
    BY <1>1, <1>7, <2>2
  <2>3. QED
    BY <1>8, <2>1, <2>2
<1>17. QED
  <2>1. line2 \in Seq(Entry)
    BY DEF Sending
  <2>2. QED
    BY <1>5, <1>13, <1>14, <1>15, <1>16, <2>1 DEF IsLine, N

(* The frames, when the one with number b is broken.                       *)
Broken(A, A2, b) ==
  /\ A2 \in Seq(Attempt) /\ Len(A2) = Len(A)
  /\ \A n \in 1 .. Len(A) : A2[n].message = A[n].message
  /\ \A n \in 1 .. Len(A) : A2[n].intact => A[n].intact /\ n # b

(* A lost byte breaks the frame it belonged to and no other.               *)
LEMMA BrokenBy ==
  ASSUME NEW A \in Seq(Attempt), NEW b \in 1 .. Len(A)
  PROVE  Broken(A, [A EXCEPT ![b].intact = FALSE], b)
<1> DEFINE e == [A[b] EXCEPT !.intact = FALSE]
           A2 == [A EXCEPT ![b] = e]
<1>1. A[b] \in Attempt
  BY ElementOfSeq
<1>2. e \in Attempt /\ e.message = A[b].message /\ ~e.intact
  BY <1>1 DEF Attempt
<1>3. A2 = [A EXCEPT ![b].intact = FALSE]
  OBVIOUS
<1> HIDE DEF e
<1>4. /\ A2 \in Seq(Attempt) /\ Len(A2) = Len(A)
      /\ \A n \in 1 .. Len(A) : A2[n] = IF n = b THEN e ELSE A[n]
  BY <1>2, ExceptSeq
<1> HIDE DEF A2
<1>5. Broken(A, A2, b)
  BY <1>2, <1>4 DEF Broken
<1>6. QED
  BY <1>3, <1>5

(* A byte taken out of the line: its frame is broken, the others are as    *)
(* they were.                                                              *)
LEMMA ByteLost ==
  ASSUME NEW line, NEW A, IsLine(line, A), NEW h \in 1 .. Len(line),
         NEW line2 \in Seq(Entry), Len(line2) = Len(line) - 1,
         \A i \in 1 .. Len(line2) : line2[i] = line[IF i < h THEN i ELSE i + 1],
         NEW A2, Broken(A, A2, line[h].number)
  PROVE  IsLine(line2, A2)
<1> DEFINE K == Len(line)
           N == Len(A)
           b == line[h].number
           Src(i) == IF i < h THEN i ELSE i + 1
<1>1. /\ line \in Seq(Entry) /\ A \in Seq(Attempt) /\ InTurn(line, A)
      /\ \A n \in 1 .. N : Genuine(A[n].message)
      /\ \A n \in 1 .. N : A[n].intact => \E s : Stretch(line, A, n, s)
  BY DEF IsLine
<1>2. K \in Nat /\ N \in Nat /\ h \in Nat /\ h >= 1 /\ h <= K
  BY <1>1
<1>3. b \in 1 .. N
  BY <1>1 DEF InTurn
<1>4. /\ A2 \in Seq(Attempt) /\ Len(A2) = N
      /\ \A n \in 1 .. N : A2[n].message = A[n].message
      /\ \A n \in 1 .. N : A2[n].intact => A[n].intact /\ n # b
  BY DEF Broken
<1>5. \A n \in 1 .. N : FrameOf(A2, n) = FrameOf(A, n)
  BY <1>4 DEF FrameOf
<1>6. /\ \A i \in 1 .. (K - 1) : Src(i) \in 1 .. K
      /\ \A i, j \in 1 .. (K - 1) : i < j => Src(i) < Src(j)
      /\ Len(line2) = K - 1
      /\ \A i \in 1 .. (K - 1) : line2[i] = line[Src(i)]
  BY <1>2
<1> HIDE DEF Src, K, N, b
<1>7. InTurn(line2, A2)
  <2>1. /\ \A i \in 1 .. K : line[i].number \in 1 .. N
        /\ \A i, j \in 1 .. K : i < j => line[i].number <= line[j].number
    BY <1>1 DEF InTurn, K, N
  <2>2. ASSUME NEW i \in 1 .. (K - 1) PROVE line2[i].number \in 1 .. N
    BY <1>6, <2>1
  <2>3. ASSUME NEW i \in 1 .. (K - 1), NEW j \in 1 .. (K - 1), i < j
        PROVE  line2[i].number <= line2[j].number
    <3>1. /\ Src(i) \in 1 .. K /\ Src(j) \in 1 .. K /\ Src(i) < Src(j)
          /\ line2[i] = line[Src(i)] /\ line2[j] = line[Src(j)]
      BY <1>6, <2>3
    <3>2. QED
      BY <2>1, <3>1
  <2>4. Len(line2) = K - 1 /\ Len(A2) = N
    BY <1>1, <1>4, <1>6 DEF K, N
  <2>5. QED
    BY <2>2, <2>3, <2>4 DEF InTurn
<1>8. \E off \in [1 .. Len(line2) -> Nat] : Fits(line2, A2, off)
  <2>1. PICK off \in [1 .. K -> Nat] : Fits(line, A, off)
    BY DEF IsLine, K
  <2> DEFINE off2 == [i \in 1 .. (K - 1) |-> off[Src(i)]]
  <2>2. off2 \in [1 .. Len(line2) -> Nat]
    BY <1>6, <2>1
  <2>3. \A i \in 1 .. (K - 1) : off2[i] = off[Src(i)]
    OBVIOUS
  <2> HIDE DEF off2
  <2>4. ASSUME NEW i \in 1 .. (K - 1)
        PROVE  /\ off2[i] \in 1 .. Len(FrameOf(A2, line2[i].number))
               /\ line2[i].byte = FrameOf(A2, line2[i].number)[off2[i]]
    <3>1. Src(i) \in 1 .. K /\ line2[i] = line[Src(i)] /\ off2[i] = off[Src(i)]
      BY <1>6, <2>3
    <3>2. /\ off[Src(i)] \in 1 .. Len(FrameOf(A, line[Src(i)].number))
          /\ line[Src(i)].byte = FrameOf(A, line[Src(i)].number)[off[Src(i)]]
      BY <2>1, <3>1 DEF Fits, K
    <3>3. FrameOf(A2, line[Src(i)].number) = FrameOf(A, line[Src(i)].number)
      BY <1>1, <1>5, <3>1 DEF InTurn, K, N
    <3>4. QED
      BY <3>1, <3>2, <3>3
  <2>5. ASSUME NEW i \in 1 .. (K - 1), NEW j \in 1 .. (K - 1), i < j,
               line2[i].number = line2[j].number
        PROVE  off2[i] < off2[j]
    <3>1. /\ Src(i) \in 1 .. K /\ Src(j) \in 1 .. K /\ Src(i) < Src(j)
          /\ line[Src(i)].number = line[Src(j)].number
      BY <1>6, <2>5
    <3>2. off[Src(i)] < off[Src(j)]
      BY <2>1, <3>1 DEF Fits, K
    <3>3. QED
      BY <2>3, <3>2
  <2>6. Fits(line2, A2, off2)
    BY <1>6, <2>4, <2>5 DEF Fits
  <2>7. QED
    BY <2>2, <2>6
<1>9. ASSUME NEW n \in 1 .. N, A2[n].intact
      PROVE  \E s : Stretch(line2, A2, n, s)
  <2>1. A[n].intact /\ n # b /\ FrameOf(A2, n) = FrameOf(A, n)
    BY <1>4, <1>5, <1>9
  <2>2. PICK s : Stretch(line, A, n, s)
    BY <1>1, <2>1 DEF N
  <2> DEFINE g == FrameOf(A, n)
             L == Len(g)
  <2>3. /\ s \in Nat /\ s >= 1 /\ s + L - 1 <= K
        /\ \A i \in 1 .. L : line[s + i - 1] = [byte |-> g[i], number |-> n]
        /\ \A i \in 1 .. K : line[i].number = n => s <= i /\ i <= s + L - 1
    BY <2>2 DEF Stretch, K, L, g
  <2>4. L \in Nat /\ L >= 13
    BY <1>1, CommandFrameIs DEF IsFrame, FrameOf, N
  <2> HIDE DEF g, L
  <2>5. h < s \/ h > s + L - 1
    <3>1. ASSUME s <= h, h <= s + L - 1 PROVE FALSE
      <4>1. s \in Nat /\ s >= 1
        BY <2>3
      <4>2. h - s + 1 \in 1 .. L /\ s + (h - s + 1) - 1 = h
        BY <1>2, <2>4, <3>1, <4>1
      <4>3. line[s + (h - s + 1) - 1] = [byte |-> g[h - s + 1], number |-> n]
        BY <2>3, <4>2
      <4>4. line[h].number = n
        BY <4>2, <4>3
      <4>5. QED
        BY <2>1, <4>4 DEF b
    <3>2. QED
      BY <1>2, <2>3, <2>4, <3>1
  <2>6. s \in Nat /\ s >= 1 /\ s + L - 1 <= K
    BY <2>3
  <2> DEFINE t == IF h < s THEN s - 1 ELSE s
  <2>7. t \in Nat \ {0} /\ t + L - 1 <= K - 1
    BY <1>2, <2>6, <2>4, <2>5
  <2>8. \A i \in 1 .. L : t + i - 1 \in 1 .. (K - 1) /\ Src(t + i - 1) = s + i - 1
    BY <1>2, <2>6, <2>4, <2>5 DEF Src
  <2>9. \A i \in 1 .. (K - 1) :
          s <= Src(i) /\ Src(i) <= s + L - 1 => t <= i /\ i <= t + L - 1
    BY <1>2, <2>6, <2>4, <2>5 DEF Src
  <2> HIDE DEF t
  <2>10. \A i \in 1 .. L : line2[t + i - 1] = [byte |-> g[i], number |-> n]
    BY <1>6, <2>3, <2>8
  <2>11. \A i \in 1 .. (K - 1) : line2[i].number = n => t <= i /\ i <= t + L - 1
    BY <1>6, <2>3, <2>9
  <2>12. Stretch(line2, A2, n, t)
    BY <1>6, <2>1, <2>7, <2>10, <2>11 DEF Stretch, g, L
  <2>13. QED
    BY <2>12
<1>10. \A n \in 1 .. N : Genuine(A2[n].message)
  BY <1>1, <1>4 DEF N
<1>11. QED
  BY <1>4, <1>7, <1>8, <1>9, <1>10 DEF IsLine, N

-----------------------------------------------------------------------------
(* The decoder at the real geometry.                                       *)

(* The theorems of the decoder hold for this one.                          *)
LEMMA RealGeometry ==
  /\ FlightProofs!SyncAssumption
  /\ FlightProofs!GeometryAssumption
  /\ FlightProofs!LengthAssumption
<1>1. FlightProofs!SyncAssumption
  BY OctetIs DEF FlightProofs!SyncAssumption
<1>2. FlightProofs!GeometryAssumption
  <2>1. MaxFrames \in Nat
    BY LinkAssumption
  <2>2. QED
    BY <2>1 DEF FlightProofs!GeometryAssumption, minimum_frame_size,
                maximum_payload_size, maximum_frame_size
<1>3. FlightProofs!LengthAssumption
  BY OctetIs DEF FlightProofs!LengthAssumption, LengthField
<1>4. QED
  BY <1>1, <1>2, <1>3

DecoderInv == FlightProofs!IInv /\ FlightProofs!Framed

(* The steps of the link that the decoder takes part in are its own.       *)
LEMMA StepIsNext ==
  ASSUME \/ \E byte \in Octet : Flight!HuntFirst(byte) \/ Flight!HuntSecond(byte)
                                                       \/ Flight!Store(byte)
         \/ Flight!ProcessBuffer
         \/ UNCHANGED decoder
  PROVE  [FlightProofs!Next]_(FlightProofs!vars)
<1>1. ASSUME NEW byte \in Octet, Flight!HuntFirst(byte) PROVE FlightProofs!HuntFirst(byte)
  BY <1>1 DEF Flight!HuntFirst, FlightProofs!HuntFirst, Flight!Receive, FlightProofs!Receive,
              Flight!Count, FlightProofs!Count
<1>2. ASSUME NEW byte \in Octet, Flight!HuntSecond(byte) PROVE FlightProofs!HuntSecond(byte)
  BY <1>2 DEF Flight!HuntSecond, FlightProofs!HuntSecond, Flight!Receive,
              FlightProofs!Receive, Flight!Count, FlightProofs!Count
<1>3. ASSUME NEW byte \in Octet, Flight!Store(byte) PROVE FlightProofs!Store(byte)
  BY <1>3 DEF Flight!Store, FlightProofs!Store, Flight!Receive, FlightProofs!Receive
<1>4. /\ \A s, p : Flight!OversizedAt(s, p) = FlightProofs!OversizedAt(s, p)
      /\ \A s, p : Flight!CompleteAt(s, p) = FlightProofs!CompleteAt(s, p)
      /\ \A s, p : Flight!CandidateAt(s, p) = FlightProofs!CandidateAt(s, p)
      /\ \A s, p : Flight!FrameSize(s, p) = FlightProofs!FrameSize(s, p)
      /\ \A s, p : Flight!SyncAt(s, p) = FlightProofs!SyncAt(s, p)
      /\ \A s, k : Flight!Drop(s, k) = FlightProofs!Drop(s, k)
      /\ \A s, j, k : Flight!IsFirstViable(s, j, k) = FlightProofs!IsFirstViable(s, j, k)
      /\ \A rest : Flight!LoopOrReturn(rest) = FlightProofs!LoopOrReturn(rest)
      /\ \A c, n : Flight!Count(c, n) = FlightProofs!Count(c, n)
  BY DEF Flight!OversizedAt, FlightProofs!OversizedAt, Flight!CompleteAt,
         FlightProofs!CompleteAt, Flight!HeaderAt, FlightProofs!HeaderAt, Flight!LengthAt,
         FlightProofs!LengthAt, Flight!FrameSize, FlightProofs!FrameSize,
         Flight!CandidateAt, FlightProofs!CandidateAt, Flight!SyncAt, FlightProofs!SyncAt,
         Flight!Drop, FlightProofs!Drop, Flight!IsFirstViable, FlightProofs!IsFirstViable,
         Flight!ViableOffset, FlightProofs!ViableOffset, Flight!LoopOrReturn,
         FlightProofs!LoopOrReturn, Flight!Count, FlightProofs!Count
<1>5. ASSUME Flight!AwaitMore PROVE FlightProofs!AwaitMore
  BY <1>4, <1>5 DEF Flight!AwaitMore, FlightProofs!AwaitMore
<1>6. ASSUME Flight!Reject PROVE FlightProofs!Reject
  BY <1>4, <1>6 DEF Flight!Reject, FlightProofs!Reject
<1>7. ASSUME Flight!Deliver PROVE FlightProofs!Deliver
  BY <1>4, <1>7 DEF Flight!Deliver, FlightProofs!Deliver
<1>8. QED
  BY <1>1, <1>2, <1>3, <1>5, <1>6, <1>7
  DEF Flight!ProcessBuffer, FlightProofs!ProcessBuffer, FlightProofs!Push,
      FlightProofs!Next, FlightProofs!vars, decoder

(* Each of them keeps the decoder's invariant.                             *)
LEMMA DecoderKeeps ==
  ASSUME DecoderInv,
         \/ \E byte \in Octet : Flight!HuntFirst(byte) \/ Flight!HuntSecond(byte)
                                                       \/ Flight!Store(byte)
         \/ Flight!ProcessBuffer
         \/ UNCHANGED decoder
  PROVE  DecoderInv'
<1>1. [FlightProofs!Next]_(FlightProofs!vars)
  BY StepIsNext
<1>2. FlightProofs!IInv'
  BY <1>1, RealGeometry, FlightProofs!NextIInv DEF DecoderInv
<1>3. FlightProofs!Framed'
  BY <1>1, RealGeometry, FlightProofs!NextFramed DEF DecoderInv
<1>4. QED
  BY <1>2, <1>3 DEF DecoderInv

-----------------------------------------------------------------------------
(* The invariant.                                                          *)

(* The bytes received and those under way.                                 *)
Line ==
  [i \in 1 .. (Len(received) + Len(uplink)) |->
     IF i <= Len(received) THEN [byte |-> received[i], number |-> numbers[i]]
     ELSE uplink[i - Len(received)]]

Books ==
  /\ next_sequence \in Nat /\ 1 <= next_sequence /\ next_sequence <= Len(attempts) + 1
  /\ Len(attempts) <= MaxFrames
  /\ uplink \in Seq(Entry)
  /\ numbers \in Seq(Nat \ {0}) /\ Len(numbers) = Len(received)
  /\ handled \in Seq([number : Nat \ {0}, message : CommandMessage])
  /\ lost \in 0 .. MaxLost

IsOrder(d) == DecodeCommandStatus(d.bytes) = "Ok"

LastOf(d) == d.at + Len(d.bytes) - 1

Reply(d) == [number |-> numbers[LastOf(d)], message |-> DecodedCommand(d.bytes)]

(* The commands handled are those of the frames handed over.               *)
Answered ==
  /\ \A m \in 1 .. Len(handled) : \E j \in 1 .. Len(delivered) :
       IsOrder(delivered[j]) /\ handled[m] = Reply(delivered[j])
  /\ \A j \in 1 .. Len(delivered) :
       IsOrder(delivered[j]) =>
         \E m \in 1 .. Len(handled) : handled[m] = Reply(delivered[j])

(* No command is processed twice, and none after one sent later.           *)
TakenInOrder ==
  \A m, n \in 1 .. Len(handled) : m < n => handled[m].number < handled[n].number

(* The inductive invariant.                                                *)
LinkInv ==
  DecoderInv /\ Books /\ IsLine(Line, attempts) /\ Answered /\ TakenInOrder

(* The line's length and its entries, received and under way.              *)
LineFacts ==
  /\ received \in Seq(Octet) /\ Len(received) \in Nat /\ Len(uplink) \in Nat
  /\ Line \in Seq(Entry) /\ Len(Line) = Len(received) + Len(uplink)
  /\ \A i \in 1 .. Len(received) :
       Line[i] = [byte |-> received[i], number |-> numbers[i]]
  /\ \A i \in 1 .. Len(uplink) : Line[Len(received) + i] = uplink[i]

(* The line as a whole: the bytes received, then those under way.          *)
LEMMA LineIs == DecoderInv /\ Books => LineFacts
<1> SUFFICES ASSUME DecoderInv, Books PROVE LineFacts
  OBVIOUS
<1> DEFINE R == Len(received)
           U == Len(uplink)
<1>1. received \in Seq(Octet) /\ R \in Nat /\ uplink \in Seq(Entry) /\ U \in Nat
      /\ numbers \in Seq(Nat \ {0}) /\ Len(numbers) = R
  BY RealGeometry, FlightProofs!ScannedBounds DEF DecoderInv, Books
<1>2. \A i \in 1 .. R : received[i] \in Octet /\ numbers[i] \in Nat \ {0}
  BY <1>1, ElementOfSeq
<1>3. \A i \in 1 .. U : uplink[i] \in Entry
  BY <1>1, ElementOfSeq
<1> DEFINE Src(i) == IF i <= R THEN [byte |-> received[i], number |-> numbers[i]]
                    ELSE uplink[i - R]
<1>4. Line = [i \in 1 .. (R + U) |-> Src(i)]
  BY DEF Line
<1> HIDE DEF R, U
<1>5. ASSUME NEW i \in 1 .. (R + U) PROVE Src(i) \in Entry
  <2>1. CASE i <= R
    <3>1. i \in 1 .. R
      BY <1>1, <2>1
    <3>2. QED
      BY <1>2, <2>1, <3>1 DEF Entry
  <2>2. CASE ~(i <= R)
    <3>1. i - R \in 1 .. U
      BY <1>1, <2>2
    <3>2. QED
      BY <1>3, <2>2, <3>1
  <2>3. QED
    BY <2>1, <2>2
<1>6. \A i \in 1 .. R : i \in 1 .. (R + U) /\ i <= R
  BY <1>1
<1>7. \A i \in 1 .. U : R + i \in 1 .. (R + U) /\ ~(R + i <= R) /\ (R + i) - R = i
  BY <1>1
<1>8. \A i \in 1 .. R : Line[i] = [byte |-> received[i], number |-> numbers[i]]
  BY <1>4, <1>6
<1>9. \A i \in 1 .. U : Line[R + i] = uplink[i]
  BY <1>4, <1>7
<1> HIDE DEF Src
<1>10. Line \in Seq(Entry) /\ Len(Line) = R + U
  <2>1. R + U \in Nat /\ Line \in [1 .. (R + U) -> Entry]
    BY <1>1, <1>4, <1>5
  <2>2. QED
    BY <2>1
<1>11. QED
  BY <1>1, <1>8, <1>9, <1>10 DEF LineFacts, R, U

(* Polling moves the boundary on the line, and nothing else.               *)
LEMMA PolledLine ==
  ASSUME DecoderInv, Books, DecoderInv', Books', uplink # <<>>,
         received' = Append(received, Head(uplink).byte),
         numbers' = Append(numbers, Head(uplink).number),
         uplink' = Tail(uplink)
  PROVE  Line' = Line
<1> DEFINE R == Len(received)
           U == Len(uplink)
           h == Head(uplink)
<1>1. LineFacts /\ LineFacts'
  <2>1. LineFacts
    BY LineIs
  <2>2. (DecoderInv /\ Books)' => LineFacts'
    BY LineIs, PTL
  <2>3. QED
    BY <2>1, <2>2
<1>2. /\ received \in Seq(Octet) /\ R \in Nat /\ U \in Nat /\ uplink \in Seq(Entry)
      /\ numbers \in Seq(Nat \ {0}) /\ Len(numbers) = R
  BY <1>1 DEF LineFacts, Books
<1>3. /\ U >= 1 /\ h = uplink[1] /\ h \in Entry
      /\ Len(uplink') = U - 1 /\ \A i \in 1 .. (U - 1) : uplink'[i] = uplink[i + 1]
  <2>1. U >= 1
    BY <1>2
  <2>2. h = uplink[1] /\ h \in Entry
    BY <1>2, HeadTailProperties
  <2>3. Len(uplink') = U - 1 /\ \A i \in 1 .. Len(uplink') : uplink'[i] = uplink[i + 1]
    BY <1>2, HeadTailProperties
  <2>4. QED
    BY <2>1, <2>2, <2>3
<1>4. h.byte \in Octet /\ h.number \in Nat \ {0} /\ h = [byte |-> h.byte, number |-> h.number]
  BY <1>3 DEF Entry
<1> HIDE DEF h
<1>5. /\ Len(received') = R + 1 /\ received'[R + 1] = h.byte
      /\ \A i \in 1 .. R : received'[i] = received[i]
  BY <1>2, <1>4, AppendProperties DEF h
<1>6. /\ numbers'[R + 1] = h.number
      /\ \A i \in 1 .. R : numbers'[i] = numbers[i]
  BY <1>2, <1>4, AppendProperties DEF h
<1>7. /\ Line \in Seq(Entry) /\ Len(Line) = R + U
      /\ \A i \in 1 .. R : Line[i] = [byte |-> received[i], number |-> numbers[i]]
      /\ \A i \in 1 .. U : Line[R + i] = uplink[i]
  BY <1>1 DEF LineFacts
<1>8. /\ Line' \in Seq(Entry) /\ Len(Line') = Len(received') + Len(uplink')
      /\ \A i \in 1 .. Len(received') :
           Line'[i] = [byte |-> received'[i], number |-> numbers'[i]]
      /\ \A i \in 1 .. Len(uplink') : Line'[Len(received') + i] = uplink'[i]
  BY <1>1 DEF LineFacts
<1> HIDE DEF R, U
<1>9. /\ Line' \in Seq(Entry) /\ Len(Line') = (R + 1) + (U - 1) /\ Len(Line') = R + U
      /\ \A i \in 1 .. (R + 1) : Line'[i] = [byte |-> received'[i], number |-> numbers'[i]]
      /\ \A k \in 1 .. (U - 1) : Line'[(R + 1) + k] = uplink'[k]
  <2>1. Len(received') = R + 1 /\ Len(uplink') = U - 1 /\ (R + 1) + (U - 1) = R + U
    BY <1>2, <1>3, <1>5
  <2>2. QED
    BY <1>8, <2>1
<1>10. ASSUME NEW i \in 1 .. (R + U) PROVE Line'[i] = Line[i]
  <2>1. CASE i \in 1 .. R
    <3>1. i \in 1 .. (R + 1)
      BY <1>2, <2>1
    <3>2. Line'[i] = [byte |-> received'[i], number |-> numbers'[i]]
      BY <1>9, <3>1
    <3>3. QED
      BY <1>5, <1>6, <1>7, <2>1, <3>2
  <2>2. CASE i = R + 1
    <3>1. R + 1 \in 1 .. (R + 1) /\ 1 \in 1 .. U
      BY <1>2, <1>3
    <3>2. Line'[R + 1] = [byte |-> received'[R + 1], number |-> numbers'[R + 1]]
      BY <1>9, <3>1
    <3>3. Line'[R + 1] = h
      BY <1>4, <1>5, <1>6, <3>2
    <3>4. Line[R + 1] = uplink[1]
      BY <1>7, <3>1
    <3>5. QED
      BY <1>3, <2>2, <3>3, <3>4 DEF h
  <2>3. CASE i > R + 1
    <3>1. PICK k \in 1 .. (U - 1) : i = (R + 1) + k
      <4>1. i - (R + 1) \in 1 .. (U - 1) /\ (R + 1) + (i - (R + 1)) = i
        BY <1>2, <1>3, <2>3
      <4>2. QED
        BY <4>1
    <3>2. k + 1 \in 1 .. U /\ R + (k + 1) = i
      BY <1>2, <1>3, <3>1
    <3>3. Line'[i] = uplink'[k]
      BY <1>9, <3>1
    <3>4. Line[i] = uplink[k + 1]
      BY <1>7, <3>2
    <3>5. QED
      BY <1>3, <3>3, <3>4
  <2>4. QED
    BY <1>2, <2>1, <2>2, <2>3
<1>11. QED
  BY <1>7, <1>9, <1>10, SeqEqual

(* As long as the decoder is not fed, only what is under way changes.      *)
LEMMA LineSent ==
  ASSUME DecoderInv, Books, DecoderInv', Books',
         UNCHANGED <<received, numbers>>,
         NEW sent \in Seq(Entry), uplink' = uplink \o sent
  PROVE  /\ Line' \in Seq(Entry) /\ Len(Line') = Len(Line) + Len(sent)
         /\ \A i \in 1 .. Len(Line) : Line'[i] = Line[i]
         /\ \A j \in 1 .. Len(sent) : Line'[Len(Line) + j] = sent[j]
<1> DEFINE R == Len(received)
           U == Len(uplink)
           N == Len(sent)
<1>1. LineFacts /\ LineFacts'
  <2>1. LineFacts
    BY LineIs
  <2>2. (DecoderInv /\ Books)' => LineFacts'
    BY LineIs, PTL
  <2>3. QED
    BY <2>1, <2>2
<1>2. R \in Nat /\ U \in Nat /\ N \in Nat /\ uplink \in Seq(Entry)
  BY <1>1 DEF LineFacts, Books
<1>3. /\ Len(uplink') = U + N
      /\ \A i \in 1 .. (U + N) : uplink'[i] = IF i <= U THEN uplink[i] ELSE sent[i - U]
  BY <1>2, ConcatProperties
<1>4. /\ Line \in Seq(Entry) /\ Len(Line) = R + U
      /\ \A i \in 1 .. R : Line[i] = [byte |-> received[i], number |-> numbers[i]]
      /\ \A i \in 1 .. U : Line[R + i] = uplink[i]
  BY <1>1 DEF LineFacts
<1>5. /\ Line' \in Seq(Entry) /\ Len(Line') = R + (U + N)
      /\ \A i \in 1 .. R : Line'[i] = [byte |-> received[i], number |-> numbers[i]]
      /\ \A i \in 1 .. (U + N) : Line'[R + i] = uplink'[i]
  BY <1>1, <1>3 DEF LineFacts
<1> HIDE DEF R, U, N
<1>6. ASSUME NEW i \in 1 .. (R + U) PROVE Line'[i] = Line[i]
  <2>1. CASE i \in 1 .. R
    BY <1>4, <1>5, <2>1
  <2>2. CASE i > R
    <3>1. /\ i - R \in 1 .. U /\ i - R \in 1 .. (U + N) /\ R + (i - R) = i /\ i - R <= U
      BY <1>2, <2>2
    <3>2. Line'[i] = uplink'[i - R] /\ Line[i] = uplink[i - R]
      BY <1>4, <1>5, <3>1
    <3>3. QED
      BY <1>3, <3>1, <3>2
  <2>3. QED
    BY <1>2, <2>1, <2>2
<1>7. ASSUME NEW j \in 1 .. N PROVE Line'[(R + U) + j] = sent[j]
  <2>1. /\ U + j \in 1 .. (U + N) /\ R + (U + j) = (R + U) + j
        /\ ~(U + j <= U) /\ (U + j) - U = j
    BY <1>2
  <2>2. Line'[(R + U) + j] = uplink'[U + j]
    BY <1>5, <2>1
  <2>3. QED
    BY <1>3, <2>1, <2>2
<1>8. R + (U + N) = (R + U) + N
  BY <1>2
<1>9. QED
  BY <1>4, <1>5, <1>6, <1>7, <1>8 DEF N

(* An overrun takes the first byte under way out of the line.              *)
LEMMA LineOverrun ==
  ASSUME DecoderInv, Books, DecoderInv', Books',
         UNCHANGED <<received, numbers>>, uplink # <<>>, uplink' = Tail(uplink)
  PROVE  LET h == Len(received) + 1 IN
         /\ h \in 1 .. Len(Line) /\ Line[h] = Head(uplink)
         /\ Line' \in Seq(Entry) /\ Len(Line') = Len(Line) - 1
         /\ \A i \in 1 .. Len(Line') : Line'[i] = Line[IF i < h THEN i ELSE i + 1]
<1> DEFINE R == Len(received)
           U == Len(uplink)
<1>1. LineFacts /\ LineFacts'
  <2>1. LineFacts
    BY LineIs
  <2>2. (DecoderInv /\ Books)' => LineFacts'
    BY LineIs, PTL
  <2>3. QED
    BY <2>1, <2>2
<1>2. R \in Nat /\ U \in Nat /\ uplink \in Seq(Entry)
  BY <1>1 DEF LineFacts, Books
<1>3. /\ U >= 1 /\ Head(uplink) = uplink[1]
      /\ Len(uplink') = U - 1 /\ \A i \in 1 .. (U - 1) : uplink'[i] = uplink[i + 1]
  <2>1. U >= 1
    BY <1>2
  <2>2. Head(uplink) = uplink[1]
    BY <1>2, HeadTailProperties
  <2>3. Len(uplink') = U - 1 /\ \A i \in 1 .. Len(uplink') : uplink'[i] = uplink[i + 1]
    BY <1>2, HeadTailProperties
  <2>4. QED
    BY <2>1, <2>2, <2>3
<1>4. /\ Line \in Seq(Entry) /\ Len(Line) = R + U
      /\ \A i \in 1 .. R : Line[i] = [byte |-> received[i], number |-> numbers[i]]
      /\ \A i \in 1 .. U : Line[R + i] = uplink[i]
  BY <1>1 DEF LineFacts
<1>5. /\ Line' \in Seq(Entry) /\ Len(Line') = R + (U - 1)
      /\ \A i \in 1 .. R : Line'[i] = [byte |-> received[i], number |-> numbers[i]]
      /\ \A i \in 1 .. (U - 1) : Line'[R + i] = uplink'[i]
  BY <1>1, <1>3 DEF LineFacts
<1> HIDE DEF R, U
<1>6. R + 1 \in 1 .. (R + U) /\ Line[R + 1] = Head(uplink) /\ R + (U - 1) = (R + U) - 1
  <2>1. 1 \in 1 .. U /\ R + 1 \in 1 .. (R + U) /\ R + (U - 1) = (R + U) - 1
    BY <1>2, <1>3
  <2>2. QED
    BY <1>3, <1>4, <2>1
<1>7. ASSUME NEW i \in 1 .. ((R + U) - 1)
      PROVE  Line'[i] = Line[IF i < R + 1 THEN i ELSE i + 1]
  <2>1. CASE i \in 1 .. R
    <3>1. i < R + 1
      BY <1>2, <2>1
    <3>2. QED
      BY <1>4, <1>5, <2>1, <3>1
  <2>2. CASE i > R
    <3>1. PICK k \in 1 .. (U - 1) : i = R + k
      <4>1. i - R \in 1 .. (U - 1) /\ R + (i - R) = i
        BY <1>2, <1>3, <2>2
      <4>2. QED
        BY <4>1
    <3>2. k + 1 \in 1 .. U /\ R + (k + 1) = i + 1 /\ ~(i < R + 1)
      BY <1>2, <1>3, <2>2, <3>1
    <3>3. Line'[i] = uplink'[k]
      BY <1>5, <3>1
    <3>4. Line[i + 1] = uplink[k + 1]
      BY <1>4, <3>2
    <3>5. QED
      BY <1>3, <3>2, <3>3, <3>4
  <2>3. QED
    BY <1>2, <2>1, <2>2
<1>8. QED
  BY <1>4, <1>5, <1>6, <1>7 DEF R

-----------------------------------------------------------------------------
(* The frames handed over and the frames sent.                             *)

(* What the decoder guarantees of the n-th frame it handed over.           *)
DeliveredIs(n) ==
  LET d == delivered[n] IN
  /\ d.at \in Nat /\ d.at >= 1 /\ Len(d.bytes) \in Nat /\ Len(d.bytes) >= 1
  /\ LastOf(d) <= Len(received)
  /\ d.bytes = SubSeq(received, d.at, LastOf(d))
  /\ d.bytes \in Seq(Octet)
  /\ \A k \in 1 .. Len(d.bytes) : d.bytes[k] = received[d.at + k - 1]
  /\ d.bytes[1] = 165
  /\ FlightProofs!WholeFrame(d.bytes)
  /\ \A i \in 1 .. Len(delivered) : i < n => LastOf(delivered[i]) < d.at

(* What the decoder's own invariant says of each frame handed over.        *)
LEMMA DeliveredAre == DecoderInv => \A n \in 1 .. Len(delivered) : DeliveredIs(n)
<1> SUFFICES ASSUME DecoderInv, NEW n \in 1 .. Len(delivered) PROVE DeliveredIs(n)
  OBVIOUS
<1> DEFINE d == delivered[n]
           a == d.at
           L == Len(d.bytes)
<1>1. /\ a \in Nat \ {0} /\ L \in Nat \ {0}
      /\ a + L - 1 <= Len(received)
      /\ d.bytes = SubSeq(received, a, a + L - 1)
      /\ FlightProofs!WholeFrame(d.bytes)
  BY RealGeometry, FlightProofs!DeliveredFacts DEF DecoderInv
<1>2. received \in Seq(Octet) /\ Len(received) \in Nat
  BY RealGeometry, FlightProofs!ScannedBounds DEF DecoderInv
<1>3. /\ delivered \in Seq([at : Nat \ {0}, bytes : Seq(Octet)])
      /\ \A i, j \in 1 .. Len(delivered) :
           i < j => delivered[i].at + Len(delivered[i].bytes) <= delivered[j].at
  BY DEF DecoderInv, FlightProofs!IInv, FlightProofs!TypeOK, FlightProofs!DeliveredSound
<1>4. \A i \in 1 .. Len(delivered) :
        delivered[i].at \in Nat /\ Len(delivered[i].bytes) \in Nat
        /\ delivered[i].bytes \in Seq(Octet)
  <2>1. ASSUME NEW i \in 1 .. Len(delivered)
        PROVE  delivered[i] \in [at : Nat \ {0}, bytes : Seq(Octet)]
    BY <1>3, ElementOfSeq
  <2>2. QED
    BY <2>1
<1>5. ASSUME NEW i \in 1 .. Len(delivered), i < n PROVE LastOf(delivered[i]) < d.at
  <2>1. delivered[i].at + Len(delivered[i].bytes) <= d.at
    BY <1>3, <1>5
  <2>2. delivered[i].at \in Nat /\ Len(delivered[i].bytes) \in Nat /\ d.at \in Nat
    BY <1>4
  <2> HIDE DEF d
  <2>3. QED
    BY <2>1, <2>2 DEF LastOf
<1>6. d.bytes[1] = 165
  BY <1>1 DEF FlightProofs!WholeFrame, FlightProofs!SyncAt
<1>7. \A k \in 1 .. L : d.bytes[k] = received[a + k - 1]
  <2>1. \A i \in 1 .. Len(received) : received[i] \in Octet
    BY <1>2, ElementOfSeq
  <2>2. \A i \in a .. (a + L - 1) : received[i] \in Octet
    <3> HIDE DEF a, L
    <3>1. QED
      BY <1>1, <1>2, <2>1
  <2> DEFINE z == a + L - 1
  <2>3. z \in Int /\ z - a + 1 = L /\ a \in Int
    <3> HIDE DEF a, L
    <3>1. QED
      BY <1>1
  <2> HIDE DEF a, z
  <2>4. \A k \in 1 .. (z - a + 1) : SubSeq(received, a, z)[k] = received[a + k - 1]
    BY <2>2, <2>3, SubSeqProperties DEF z
  <2>5. d.bytes = SubSeq(received, a, z)
    BY <1>1 DEF z
  <2> HIDE DEF L, d
  <2>6. QED
    BY <2>3, <2>4, <2>5
<1>8. L >= 1 /\ a >= 1 /\ a \in Nat /\ L \in Nat
  BY <1>1
<1>9. QED
  BY <1>1, <1>4, <1>5, <1>6, <1>7, <1>8 DEF DeliveredIs, LastOf

(* Every frame handed over ends among the bytes received.                  *)
Within == \A n \in 1 .. Len(delivered) : LastOf(delivered[n]) \in 1 .. Len(received)

(* Every frame handed over has been received to its end.                   *)
LEMMA WithinHolds == DecoderInv => Within
<1> SUFFICES ASSUME DecoderInv, NEW n \in 1 .. Len(delivered)
             PROVE  LastOf(delivered[n]) \in 1 .. Len(received)
  BY DEF Within
<1> DEFINE a == delivered[n].at
           l == Len(delivered[n].bytes)
           R == Len(received)
<1>1. DeliveredIs(n)
  BY DeliveredAre
<1>2. /\ a \in Nat /\ a >= 1 /\ l \in Nat /\ l >= 1
      /\ a + l - 1 <= R /\ LastOf(delivered[n]) = a + l - 1
  BY <1>1 DEF DeliveredIs, LastOf
<1>3. R \in Nat
  BY RealGeometry, FlightProofs!ScannedBounds DEF DecoderInv
<1> HIDE DEF a, l, R
<1>4. LastOf(delivered[n]) \in 1 .. R
  BY <1>2, <1>3
<1>5. QED
  BY <1>4 DEF R

(* Thirteen values that rise end at least twelve above the first.          *)
LEMMA Climbs ==
  ASSUME NEW off, NEW p \in Nat,
         \A k \in 0 .. 12 : off[p + k] \in Nat,
         \A k \in 0 .. 11 : off[p + k] < off[p + (k + 1)]
  PROVE  off[p] + 12 <= off[p + 12]
<1> DEFINE v == [k \in 0 .. 12 |-> off[p + k]]
<1>1. \A k \in 0 .. 12 : v[k] \in Nat
  OBVIOUS
<1>2. \A k \in 0 .. 11 : v[k] < v[k + 1]
  OBVIOUS
<1>3. v[0] = off[p] /\ v[12] = off[p + 12]
  <2>1. v[0] = off[p + 0] /\ p + 0 = p
    OBVIOUS
  <2>2. QED
    BY <2>1
<1> HIDE DEF v
<1>4. v[0] + 6 <= v[6]
  BY <1>1, <1>2
<1>5. v[6] + 6 <= v[12]
  BY <1>1, <1>2
<1>6. v[0] \in Nat /\ v[6] \in Nat /\ v[12] \in Nat
  BY <1>1
<1>7. QED
  BY <1>3, <1>4, <1>5, <1>6

(* The bytes received are on the line.                                     *)
LEMMA ReceivedOnLine ==
  ASSUME DecoderInv, Books
  PROVE  /\ Len(received) \in Nat /\ Len(Line) \in Nat /\ Len(received) <= Len(Line)
         /\ \A k \in 1 .. Len(received) :
              Line[k].byte = received[k] /\ Line[k].number = numbers[k]
<1> DEFINE R == Len(received)
<1>1. /\ R \in Nat /\ Len(uplink) \in Nat /\ Len(Line) = R + Len(uplink)
      /\ \A k \in 1 .. R : Line[k] = [byte |-> received[k], number |-> numbers[k]]
  BY LineIs DEF LineFacts
<1> HIDE DEF R
<1>2. ASSUME NEW k \in 1 .. R PROVE Line[k].byte = received[k] /\ Line[k].number = numbers[k]
  <2>1. Line[k] = [byte |-> received[k], number |-> numbers[k]]
    BY <1>1
  <2>2. QED
    BY <2>1
<1>3. Len(Line) \in Nat /\ R <= Len(Line)
  BY <1>1
<1>4. QED
  BY <1>1, <1>2, <1>3 DEF R

(* A command cannot lie within the bytes of a frame whose last byte ended  *)
(* the frame before: it would begin behind the first byte of that frame,   *)
(* and early enough to have twelve more bytes of it, where no byte is the  *)
(* first sync byte.                                                        *)
LEMMA FramesInTurn ==
  ASSUME DecoderInv, Books, IsLine(Line, attempts),
         NEW i \in 1 .. Len(delivered), NEW j \in 1 .. Len(delivered), i < j,
         IsOrder(delivered[j])
  PROVE  numbers[LastOf(delivered[i])] < numbers[LastOf(delivered[j])]
<1> DEFINE d == delivered[j]
           R == Len(received)
           x == LastOf(delivered[i])
           y == LastOf(d)
           a == d.at
           N == Len(attempts)
<1>1. /\ R \in Nat /\ Len(Line) \in Nat /\ R <= Len(Line)
      /\ \A k \in 1 .. R : Line[k].byte = received[k] /\ Line[k].number = numbers[k]
  BY ReceivedOnLine
<1>2. /\ a \in Nat /\ Len(d.bytes) \in Nat /\ y <= R /\ d.bytes \in Seq(Octet)
      /\ d.bytes[1] = received[a] /\ d.bytes[1] = 165 /\ x < a
  <2>1. DeliveredIs(j)
    BY DeliveredAre
  <2>2. /\ a \in Nat /\ Len(d.bytes) \in Nat /\ Len(d.bytes) >= 1
        /\ y <= R /\ d.bytes \in Seq(Octet) /\ d.bytes[1] = 165 /\ x < a
        /\ \A k \in 1 .. Len(d.bytes) : d.bytes[k] = received[a + k - 1]
    BY <2>1 DEF DeliveredIs
  <2> HIDE DEF d, x, y, R
  <2>3. 1 \in 1 .. Len(d.bytes) /\ a + 1 - 1 = a
    BY <2>2
  <2>4. QED
    BY <2>2, <2>3
<1>3. x \in Nat /\ x >= 1
  <2>1. DeliveredIs(i)
    BY DeliveredAre
  <2>2. /\ delivered[i].at \in Nat /\ delivered[i].at >= 1
        /\ Len(delivered[i].bytes) \in Nat /\ Len(delivered[i].bytes) >= 1
    BY <2>1 DEF DeliveredIs
  <2>3. QED
    BY <2>2 DEF LastOf
<1>4. y = a + Len(d.bytes) - 1 /\ 13 <= Len(d.bytes)
  <2>1. 13 <= Len(d.bytes)
    BY <1>2, CommandHasPayload DEF IsOrder
  <2>2. QED
    BY <2>1 DEF LastOf
<1> HIDE DEF d, R, x, y, a
<1>5. y \in Nat /\ a + 12 <= y /\ x < y /\ x <= R /\ a <= R
  <2> DEFINE l == Len(d.bytes)
  <2>1. a \in Nat /\ x \in Nat /\ l \in Nat /\ R \in Nat
    BY <1>1, <1>2, <1>3
  <2>2. y = a + l - 1 /\ 13 <= l /\ y <= R /\ x < a
    BY <1>2, <1>4
  <2> HIDE DEF l
  <2>3. QED
    BY <2>1, <2>2
<1>6. /\ N \in Nat
      /\ \A k \in 1 .. R : numbers[k] \in 1 .. N
      /\ \A k, m \in 1 .. R : k < m => numbers[k] <= numbers[m]
      /\ \A n \in 1 .. N : Genuine(attempts[n].message)
  <2>1. \A k \in 1 .. R : k \in 1 .. Len(Line)
    BY <1>1
  <2>2. InTurn(Line, attempts) /\ attempts \in Seq(Attempt)
        /\ \A n \in 1 .. N : Genuine(attempts[n].message)
    BY DEF IsLine
  <2>3. \A k \in 1 .. R : numbers[k] \in 1 .. N
    BY <1>1, <2>1, <2>2 DEF InTurn
  <2>4. \A k, m \in 1 .. R : k < m => numbers[k] <= numbers[m]
    BY <1>1, <2>1, <2>2 DEF InTurn
  <2>5. QED
    BY <2>2, <2>3, <2>4
<1> HIDE DEF N
<1>7. x \in 1 .. R /\ y \in 1 .. R /\ a \in 1 .. R
  BY <1>1, <1>2, <1>3, <1>5
<1>8. SUFFICES ASSUME numbers[x] = numbers[y] PROVE FALSE
  <2>1. numbers[x] \in Int /\ numbers[y] \in Int /\ numbers[x] <= numbers[y]
    BY <1>5, <1>6, <1>7
  <2>2. numbers[x] < numbers[y]
    BY <1>8, <2>1
  <2>3. QED
    BY <2>2 DEF x, y, d
<1> DEFINE n == numbers[y]
           f == FrameOf(attempts, n)
<1>9. n \in 1 .. N /\ numbers[x] = n
  BY <1>6, <1>7, <1>8
<1>10. ASSUME NEW k \in 1 .. R, x <= k, k <= y PROVE numbers[k] = n
  <2>1. numbers[k] \in Int /\ n \in Int
    BY <1>6, <1>7
  <2>2. numbers[x] <= numbers[k]
    <3>1. CASE x = k
      BY <1>9, <2>1, <3>1
    <3>2. CASE x < k
      BY <1>6, <1>7, <3>2
    <3>3. QED
      BY <1>3, <1>10, <3>1, <3>2
  <2>3. numbers[k] <= numbers[y]
    <3>1. CASE k = y
      BY <2>1, <3>1
    <3>2. CASE k < y
      BY <1>6, <1>7, <3>2
    <3>3. QED
      BY <1>5, <1>10, <3>1, <3>2
  <2> HIDE DEF n
  <2>4. numbers[x] = n /\ numbers[y] = n
    BY <1>9 DEF n
  <2>5. QED
    BY <2>1, <2>2, <2>3, <2>4
<1>11. PICK off \in [1 .. Len(Line) -> Nat] : Fits(Line, attempts, off)
  BY DEF IsLine
<1>12. /\ \A k \in 1 .. R : off[k] \in Nat
       /\ \A k \in 1 .. R : x <= k /\ k <= y => off[k] \in 1 .. Len(f) /\ received[k] = f[off[k]]
       /\ \A k, m \in 1 .. R : x <= k /\ k < m /\ m <= y => off[k] < off[m]
  <2>1. \A k \in 1 .. R : k \in 1 .. Len(Line)
    BY <1>1
  <2>2. \A k \in 1 .. R : off[k] \in Nat
    BY <1>11, <2>1
  <2>3. ASSUME NEW k \in 1 .. R, x <= k, k <= y
        PROVE  off[k] \in 1 .. Len(f) /\ received[k] = f[off[k]]
    <3>1. Line[k].number = n /\ Line[k].byte = received[k]
      BY <1>1, <1>10, <2>3
    <3>2. QED
      BY <1>11, <2>1, <3>1 DEF Fits
  <2>4. ASSUME NEW k \in 1 .. R, NEW m \in 1 .. R, x <= k, k < m, m <= y
        PROVE  off[k] < off[m]
    <3>1. k <= y /\ x <= m
      BY <1>3, <1>5, <2>4
    <3>2. Line[k].number = Line[m].number
      BY <1>1, <1>10, <2>4, <3>1
    <3>3. QED
      BY <1>11, <2>1, <2>4, <3>2 DEF Fits
  <2>5. QED
    BY <2>2, <2>3, <2>4
<1>13. IsFrame(f, attempts[n].message)
  BY <1>6, <1>9, CommandFrameIs DEF FrameOf
<1> HIDE DEF n, f
<1>14. /\ Len(f) \in Nat /\ Len(f) <= 17 /\ 13 <= Len(f)
       /\ f[2] = 90 /\ f[3] = 1 /\ f[4] = 16 /\ f[5] = Len(f) - 12
  BY <1>13 DEF IsFrame
<1>15. off[a] + 12 <= off[a + 12]
  <2>1. \A k \in 0 .. 12 : a + k \in 1 .. R /\ x <= a + k /\ a + k <= y
    BY <1>1, <1>2, <1>3, <1>5
  <2>2. \A k \in 0 .. 12 : off[a + k] \in Nat
    BY <1>12, <2>1
  <2>3. ASSUME NEW k \in 0 .. 11 PROVE off[a + k] < off[a + (k + 1)]
    <3>1. k \in 0 .. 12 /\ k + 1 \in 0 .. 12 /\ a + k < a + (k + 1)
      BY <1>2
    <3>2. QED
      BY <1>12, <2>1, <3>1
  <2>4. a \in Nat
    BY <1>2
  <2>5. QED
    BY <2>2, <2>3, <2>4, Climbs
<1>16. received[a] = f[off[a]] /\ (off[a] = 2 \/ off[a] = 3 \/ off[a] = 4 \/ off[a] = 5)
  <2>1. /\ x <= a /\ a <= y /\ x <= y /\ a + 12 \in 1 .. R /\ x <= a + 12 /\ x <= x
    BY <1>1, <1>2, <1>3, <1>5
  <2>2. off[a] \in 1 .. Len(f) /\ received[a] = f[off[a]] /\ off[x] \in 1 .. Len(f)
    BY <1>7, <1>12, <2>1
  <2>3. off[a + 12] \in 1 .. Len(f)
    BY <1>5, <1>12, <2>1
  <2>4. off[x] < off[a]
    BY <1>2, <1>7, <1>12, <2>1
  <2> DEFINE u == off[x]
             v == off[a]
             w == off[a + 12]
             l == Len(f)
  <2>5. /\ u \in 1 .. l /\ v \in 1 .. l /\ w \in 1 .. l /\ l \in Nat /\ l <= 17
        /\ u < v /\ v + 12 <= w
    BY <1>14, <1>15, <2>2, <2>3, <2>4
  <2> HIDE DEF u, v, w, l
  <2>6. v = 2 \/ v = 3 \/ v = 4 \/ v = 5
    BY <2>5
  <2>7. QED
    BY <2>2, <2>6 DEF v
<1>17. f[off[a]] = 165
  BY <1>2, <1>16
<1> DEFINE l == Len(f)
<1>18. l \in Nat /\ l <= 17 /\ f[2] = 90 /\ f[3] = 1 /\ f[4] = 16 /\ f[5] = l - 12
  BY <1>14
<1> HIDE DEF l
<1>19. f[2] # 165 /\ f[3] # 165 /\ f[4] # 165 /\ f[5] # 165
  BY <1>18
<1>20. QED
  BY <1>16, <1>17, <1>19

-----------------------------------------------------------------------------
(* The invariant holds.                                                    *)

(* At the start nothing is on the line.                                    *)
LEMMA InitLinkInv == Init => LinkInv
<1> SUFFICES ASSUME Init PROVE LinkInv
  OBVIOUS
<1>1. /\ next_sequence = 1 /\ uplink = <<>> /\ attempts = <<>> /\ handled = <<>>
      /\ numbers = <<>> /\ lost = 0 /\ Flight!Init
  BY DEF Init
<1>2. FlightProofs!Init /\ received = <<>> /\ delivered = <<>>
  BY <1>1 DEF Flight!Init, FlightProofs!Init, Flight!Categories, FlightProofs!Categories
<1>3. DecoderInv
  <2>1. FlightProofs!IInv
    BY <1>2, RealGeometry, FlightProofs!InitIInv
  <2>2. FlightProofs!Framed
    BY <1>2 DEF FlightProofs!Framed
  <2>3. QED
    BY <2>1, <2>2 DEF DecoderInv
<1>4. Books
  <2>1. MaxFrames \in Nat /\ MaxLost \in Nat
    BY LinkAssumption
  <2>2. QED
    BY <1>1, <1>2, <2>1 DEF Books
<1>5. IsLine(Line, attempts)
  <2>1. Line \in Seq(Entry) /\ Len(Line) = 0
    <3>1. LineFacts
      BY <1>3, <1>4, LineIs
    <3>2. Len(received) = 0 /\ Len(uplink) = 0
      BY <1>1, <1>2
    <3>3. QED
      BY <3>1, <3>2 DEF LineFacts
  <2>2. attempts \in Seq(Attempt) /\ Len(attempts) = 0
    BY <1>1
  <2>3. InTurn(Line, attempts)
    BY <2>1 DEF InTurn
  <2>4. \E off \in [1 .. Len(Line) -> Nat] : Fits(Line, attempts, off)
    <3> DEFINE off == [i \in 1 .. Len(Line) |-> 0]
    <3>1. off \in [1 .. Len(Line) -> Nat]
      OBVIOUS
    <3>2. Fits(Line, attempts, off)
      BY <2>1 DEF Fits
    <3>3. QED
      BY <3>1, <3>2
  <2>5. 1 .. Len(attempts) = {}
    BY <2>2
  <2>6. QED
    BY <2>1, <2>2, <2>3, <2>4, <2>5 DEF IsLine
<1>6. Answered /\ TakenInOrder
  BY <1>1, <1>2 DEF Answered, TakenInOrder
<1>7. QED
  BY <1>3, <1>4, <1>5, <1>6 DEF LinkInv

(* What a request becomes is a genuine command.                            *)
LEMMA NumberedIsGenuine ==
  ASSUME Books, NEW request \in Requests, Len(attempts) + 1 <= MaxFrames
  PROVE  /\ Numbered(request, next_sequence) \in CommandMessage
         /\ Genuine(Numbered(request, next_sequence))
<1>1. /\ request \in [command : DOMAIN CommandCode, period_ms : Nat]
      /\ FitsU32(request.period_ms)
      /\ request.command # "SetTelemetryPeriod" => request.period_ms = 0
      /\ MaxFrames \in Nat /\ FitsU32(MaxFrames)
  BY LinkAssumption
<1>2. next_sequence \in Nat /\ next_sequence <= MaxFrames
  <2>1. Len(attempts) \in Int
    BY <1>1 DEF Books
  <2>2. QED
    BY <1>1, <2>1 DEF Books
<1>3. FitsU32(next_sequence)
  <2>1. MaxFrames \div 16777216 \in Nat /\ MaxFrames \div 16777216 < 256
    BY <1>1, OctetIs DEF FitsU32
  <2>2. /\ next_sequence \div 16777216 \in Nat
        /\ next_sequence \div 16777216 <= MaxFrames \div 16777216
    BY <1>1, <1>2, SMT
  <2>3. QED
    BY <2>1, <2>2, OctetIs DEF FitsU32
<1>4. Numbered(request, next_sequence) =
        [sequence |-> next_sequence, command |-> request.command,
         period_ms |-> request.period_ms]
  BY DEF Numbered
<1>5. QED
  BY <1>1, <1>2, <1>3, <1>4 DEF Genuine, IsCommand, CommandMessage

(* Nothing is answered where the decoder is not at work.                   *)
LEMMA AnswersStay ==
  ASSUME Answered, TakenInOrder, UNCHANGED <<handled, delivered, numbers>>
  PROVE  Answered' /\ TakenInOrder'
BY DEF Answered, TakenInOrder, IsOrder, Reply, LastOf

(* Whole or broken off, a frame begun is put behind all the others.        *)
LEMMA SendFrameKeeps ==
  ASSUME LinkInv, NEW request \in Requests, SendFrame(request)
  PROVE  LinkInv'
<1> DEFINE message == Numbered(request, next_sequence)
           N == Len(attempts)
<1>1. DecoderInv /\ Books /\ IsLine(Line, attempts) /\ Answered /\ TakenInOrder
  BY DEF LinkInv
<1>2. /\ N + 1 <= MaxFrames
      /\ UNCHANGED <<handled, numbers, lost, decoder>>
      /\ UNCHANGED <<received, delivered>>
  BY DEF SendFrame, decoder
<1> DEFINE frame == EncodeCommand(message)
<1>3. PICK count \in 1 .. Len(frame) :
        LET whole == count = Len(frame) IN
        /\ uplink' = uplink \o [i \in 1 .. count |-> [byte |-> frame[i], number |-> N + 1]]
        /\ attempts' = Append(attempts, [message |-> message, intact |-> whole])
        /\ next_sequence' = IF whole THEN next_sequence + 1 ELSE 1
  BY DEF SendFrame
<1> DEFINE whole == count = Len(frame)
           sent == [i \in 1 .. count |-> [byte |-> frame[i], number |-> N + 1]]
<1>4. message \in CommandMessage /\ Genuine(message)
  BY <1>1, <1>2, NumberedIsGenuine
<1>5. frame \in Seq(Octet) /\ Len(frame) \in Nat
  BY <1>4, CommandFrameIs DEF IsFrame
<1>6. attempts \in Seq(Attempt) /\ N \in Nat
  BY <1>1 DEF IsLine
<1> HIDE DEF message, frame
<1>7. whole \in BOOLEAN
  OBVIOUS
<1>8. /\ attempts' = Append(attempts, [message |-> message, intact |-> whole])
      /\ next_sequence' = IF whole THEN next_sequence + 1 ELSE 1
      /\ uplink' = uplink \o sent
  BY <1>3
<1>9. sent \in Seq(Entry) /\ Len(sent) = count /\ count \in Nat
  <2>1. \A i \in 1 .. count : frame[i] \in Octet
    <3>1. \A i \in 1 .. count : i \in 1 .. Len(frame)
      BY <1>5
    <3>2. QED
      BY <1>5, <3>1, ElementOfSeq
  <2>2. \A i \in 1 .. count : [byte |-> frame[i], number |-> N + 1] \in Entry
    BY <1>6, <2>1 DEF Entry
  <2>3. count \in Nat
    BY <1>5
  <2>4. sent \in [1 .. count -> Entry]
    BY <2>2
  <2>5. QED
    BY <2>3, <2>4
<1>10. /\ attempts' \in Seq(Attempt) /\ Len(attempts') = N + 1
  <2>1. [message |-> message, intact |-> whole] \in Attempt
    BY <1>4, <1>7 DEF Attempt
  <2> HIDE DEF whole
  <2>2. QED
    BY <1>6, <1>8, <2>1, AppendProperties
<1>11. DecoderInv'
  BY <1>1, <1>2, DecoderKeeps
<1>12. Books'
  <2>1. /\ next_sequence' \in Nat /\ 1 <= next_sequence'
        /\ next_sequence' <= N + 2
    <3>1. next_sequence \in Nat /\ next_sequence <= N + 1
      BY <1>1 DEF Books
    <3> HIDE DEF whole
    <3>2. next_sequence' = next_sequence + 1 \/ next_sequence' = 1
      BY <1>8
    <3>3. QED
      BY <1>6, <3>1, <3>2
  <2>2. uplink' \in Seq(Entry)
    <3>1. uplink \in Seq(Entry)
      BY <1>1 DEF Books
    <3> HIDE DEF sent
    <3>2. QED
      BY <1>8, <1>9, <3>1, ConcatProperties
  <2>3. N + 2 = Len(attempts') + 1
    BY <1>6, <1>10
  <2>4. QED
    BY <1>1, <1>2, <1>10, <2>1, <2>2, <2>3 DEF Books
<1>13. /\ Line' \in Seq(Entry) /\ Len(Line') = Len(Line) + count
       /\ \A i \in 1 .. Len(Line) : Line'[i] = Line[i]
       /\ \A j \in 1 .. count : Line'[Len(Line) + j] = sent[j]
  <2> HIDE DEF sent
  <2>1. QED
    BY <1>1, <1>2, <1>8, <1>9, <1>11, <1>12, LineSent
<1>14. \A j \in 1 .. count :
         Line'[Len(Line) + j] = [byte |-> frame[j], number |-> N + 1]
  BY <1>13
<1>15. IsLine(Line', attempts')
  <2>1. whole <=> count = Len(EncodeCommand(message))
    BY DEF frame
  <2>2. \A j \in 1 .. count :
          Line'[Len(Line) + j] = [byte |-> EncodeCommand(message)[j], number |-> Len(attempts) + 1]
    BY <1>14 DEF frame
  <2>3. count \in 1 .. Len(EncodeCommand(message))
    BY DEF frame
  <2> HIDE DEF whole, N, sent
  <2>4. Sending(Line, attempts, message, count, whole, Line', attempts')
    BY <1>4, <1>7, <1>8, <1>13, <2>1, <2>2, <2>3 DEF Sending
  <2>5. QED
    BY <1>1, <2>4, FrameSent
<1>16. Answered' /\ TakenInOrder'
  BY <1>1, <1>2, AnswersStay
<1>17. QED
  BY <1>11, <1>12, <1>15, <1>16 DEF LinkInv

(* A new session changes nothing on the line or in the decoder.            *)
LEMMA NewSessionKeeps ==
  ASSUME LinkInv, NewSession
  PROVE  LinkInv'
<1>1. DecoderInv /\ Books /\ IsLine(Line, attempts) /\ Answered /\ TakenInOrder
  BY DEF LinkInv
<1>2. /\ next_sequence' = 1
      /\ UNCHANGED <<uplink, attempts, handled, numbers, lost, decoder>>
      /\ UNCHANGED <<received, delivered>>
  BY DEF NewSession, decoder
<1>3. DecoderInv'
  BY <1>1, <1>2, DecoderKeeps
<1>4. Books'
  <2>1. 1 <= Len(attempts) + 1
    BY <1>1 DEF IsLine
  <2>2. QED
    BY <1>1, <1>2, <2>1 DEF Books
<1>5. IsLine(Line', attempts')
  BY <1>1, <1>2 DEF Line
<1>6. Answered' /\ TakenInOrder'
  BY <1>1, <1>2, AnswersStay
<1>7. QED
  BY <1>3, <1>4, <1>5, <1>6 DEF LinkInv

(* A byte overrun is a hole in the line, and its frame is intact no more.  *)
LEMMA OverrunKeeps ==
  ASSUME LinkInv, Overrun
  PROVE  LinkInv'
<1> DEFINE h == Len(received) + 1
           b == Head(uplink).number
<1>1. DecoderInv /\ Books /\ IsLine(Line, attempts) /\ Answered /\ TakenInOrder
  BY DEF LinkInv
<1>2. /\ uplink # <<>> /\ lost < MaxLost /\ uplink' = Tail(uplink) /\ lost' = lost + 1
      /\ attempts' = [attempts EXCEPT ![b].intact = FALSE]
      /\ UNCHANGED <<next_sequence, handled, numbers, decoder>>
      /\ UNCHANGED <<received, delivered>>
  BY DEF Overrun, decoder
<1>3. LineFacts /\ attempts \in Seq(Attempt) /\ uplink \in Seq(Entry)
  BY <1>1, LineIs DEF IsLine, Books
<1>4. /\ h \in 1 .. Len(Line) /\ Line[h] = Head(uplink)
  <2> DEFINE R == Len(received)
             U == Len(uplink)
  <2>1. /\ R \in Nat /\ U \in Nat /\ Len(Line) = R + U
        /\ \A i \in 1 .. U : Line[R + i] = uplink[i]
    BY <1>3 DEF LineFacts
  <2>2. U >= 1 /\ Head(uplink) = uplink[1]
    BY <1>2, <1>3
  <2> HIDE DEF R, U
  <2>3. R + 1 \in 1 .. Len(Line) /\ 1 \in 1 .. U
    BY <2>1, <2>2
  <2>4. QED
    BY <2>1, <2>2, <2>3 DEF R
<1>5. b \in 1 .. Len(attempts)
  BY <1>1, <1>4 DEF IsLine, InTurn
<1>6. Broken(attempts, attempts', b)
  BY <1>2, <1>3, <1>5, BrokenBy
<1>7. DecoderInv'
  BY <1>1, <1>2, DecoderKeeps
<1>8. Books'
  <2>1. Len(attempts') = Len(attempts)
    BY <1>6 DEF Broken
  <2>2. uplink' \in Seq(Entry)
    BY <1>2, <1>3, HeadTailProperties
  <2>3. lost' \in 0 .. MaxLost
    <3>1. MaxLost \in Nat /\ lost \in 0 .. MaxLost
      BY <1>1, LinkAssumption DEF Books
    <3>2. QED
      BY <1>2, <3>1
  <2>4. QED
    BY <1>1, <1>2, <2>1, <2>2, <2>3 DEF Books
<1>9. /\ Line' \in Seq(Entry) /\ Len(Line') = Len(Line) - 1
      /\ \A i \in 1 .. Len(Line') : Line'[i] = Line[IF i < h THEN i ELSE i + 1]
  BY <1>1, <1>2, <1>7, <1>8, LineOverrun
<1>10. IsLine(Line', attempts')
  <2>1. Broken(attempts, attempts', Line[h].number)
    BY <1>4, <1>6
  <2> HIDE DEF h, b
  <2>2. QED
    BY <1>1, <1>4, <1>9, <2>1, ByteLost
<1>11. Answered' /\ TakenInOrder'
  BY <1>1, <1>2, AnswersStay
<1>12. QED
  BY <1>7, <1>8, <1>10, <1>11 DEF LinkInv

(* A byte polled in only moves the border between received and under way.  *)
LEMMA PollInKeeps ==
  ASSUME LinkInv, PollIn
  PROVE  LinkInv'
<1> DEFINE e == Head(uplink)
<1>1. DecoderInv /\ Books /\ IsLine(Line, attempts) /\ Answered /\ TakenInOrder
  BY DEF LinkInv
<1>2. /\ uplink # <<>> /\ uplink' = Tail(uplink) /\ numbers' = Append(numbers, e.number)
      /\ Flight!HuntFirst(e.byte) \/ Flight!HuntSecond(e.byte) \/ Flight!Store(e.byte)
      /\ UNCHANGED <<next_sequence, attempts, handled, lost>>
  BY DEF PollIn
<1>3. /\ received' = Append(received, e.byte) /\ delivered' = delivered
  BY <1>2 DEF Flight!HuntFirst, Flight!HuntSecond, Flight!Store, Flight!Receive
<1>4. /\ uplink \in Seq(Entry) /\ received \in Seq(Octet)
      /\ numbers \in Seq(Nat \ {0}) /\ Len(numbers) = Len(received)
  BY <1>1, LineIs DEF Books, LineFacts
<1>5. e.byte \in Octet /\ e.number \in Nat \ {0} /\ uplink' \in Seq(Entry)
  <2>1. e \in Entry /\ uplink' \in Seq(Entry)
    BY <1>2, <1>4, HeadTailProperties
  <2>2. QED
    BY <2>1 DEF Entry
<1> HIDE DEF e
<1>6. DecoderInv'
  BY <1>1, <1>2, <1>5, DecoderKeeps
<1>7. /\ numbers' \in Seq(Nat \ {0}) /\ Len(numbers') = Len(numbers) + 1
      /\ Len(received') = Len(received) + 1
      /\ \A i \in 1 .. Len(numbers) : numbers'[i] = numbers[i]
  BY <1>2, <1>3, <1>4, <1>5, AppendProperties
<1>8. Books'
  BY <1>1, <1>2, <1>4, <1>5, <1>7 DEF Books
<1>9. Line' = Line
  BY <1>1, <1>2, <1>3, <1>6, <1>8, PolledLine DEF e
<1>10. Answered' /\ TakenInOrder'
  <2>1. ASSUME NEW j \in 1 .. Len(delivered)
        PROVE  /\ numbers'[LastOf(delivered[j])] = numbers[LastOf(delivered[j])]
    <3>1. LastOf(delivered[j]) \in 1 .. Len(received)
      BY <1>1, WithinHolds DEF Within
    <3>2. QED
      BY <1>4, <1>7, <3>1
  <2>2. \A j \in 1 .. Len(delivered) : Reply(delivered[j])' = Reply(delivered[j])
    BY <1>3, <2>1 DEF Reply, LastOf
  <2>3. QED
    BY <1>1, <1>2, <1>3, <2>2 DEF Answered, TakenInOrder, IsOrder
<1>11. QED
  BY <1>1, <1>2, <1>6, <1>8, <1>9, <1>10 DEF LinkInv

(* The frames in which the commands handed over end are in order.          *)
HandedInTurn ==
  \A i, j \in 1 .. Len(delivered) :
    i < j /\ IsOrder(delivered[j]) => Reply(delivered[i]).number < Reply(delivered[j]).number

(* A command handed over ends in a later frame than what came before it.   *)
LEMMA HandedInTurnHolds == DecoderInv /\ Books /\ IsLine(Line, attempts) => HandedInTurn
  BY FramesInTurn DEF HandedInTurn, Reply

(* A command handed over is handled, behind all those handled before.      *)
LEMMA ProcessBufferKeeps ==
  ASSUME LinkInv, ProcessBuffer
  PROVE  LinkInv'
<1> DEFINE D == Len(delivered)
           H == Len(handled)
           R == Len(received)
           Handled == [number : Nat \ {0}, message : CommandMessage]
<1>1. DecoderInv /\ Books /\ IsLine(Line, attempts) /\ Answered /\ TakenInOrder
  BY DEF LinkInv
<1>2. /\ Flight!ProcessBuffer /\ HandleEvent
      /\ UNCHANGED <<next_sequence, uplink, attempts, numbers, lost>>
  BY DEF ProcessBuffer
<1>3. received' = received
  BY <1>2 DEF Flight!ProcessBuffer, Flight!AwaitMore, Flight!Reject, Flight!Deliver
<1>4. DecoderInv'
  BY <1>1, <1>2, DecoderKeeps
<1>5. Line' = Line
  BY <1>2, <1>3 DEF Line
<1>6. /\ numbers \in Seq(Nat \ {0}) /\ Len(numbers) = R /\ R \in Nat
      /\ handled \in Seq(Handled) /\ H \in Nat
      /\ delivered \in Seq([at : Nat \ {0}, bytes : Seq(Octet)]) /\ D \in Nat
  <2>1. delivered \in Seq([at : Nat \ {0}, bytes : Seq(Octet)])
    BY <1>1 DEF DecoderInv, FlightProofs!IInv, FlightProofs!TypeOK
  <2>2. R \in Nat
    BY <1>1, ReceivedOnLine
  <2>3. QED
    BY <1>1, <2>1, <2>2 DEF Books
<1>7. CASE delivered' = delivered
  <2>1. handled' = handled
    BY <1>2, <1>7 DEF HandleEvent
  <2>2. Books'
    BY <1>1, <1>2, <1>3, <2>1 DEF Books
  <2>3. Answered' /\ TakenInOrder'
    BY <1>1, <1>2, <1>7, <2>1, AnswersStay
  <2>4. QED
    BY <1>1, <1>2, <1>4, <1>5, <2>2, <2>3 DEF LinkInv
<1>8. ASSUME NEW e \in [at : Nat \ {0}, bytes : Seq(Octet)],
             delivered' = Append(delivered, e)
      PROVE  LinkInv'
  <2> DEFINE r == Reply(e)
  <2>1. /\ delivered' # delivered /\ Len(delivered') = D + 1 /\ delivered'[D + 1] = e
        /\ \A i \in 1 .. D : delivered'[i] = delivered[i]
    BY <1>6, <1>8, FlightProofs!Appended
  <2>2. /\ D + 1 \in 1 .. Len(delivered')
        /\ \A i \in 1 .. D : i \in 1 .. Len(delivered') /\ i < D + 1
        /\ \A i \in 1 .. Len(delivered') : i \in 1 .. D \/ i = D + 1
    BY <1>6, <2>1, SMTT(60)
  <2>3. \A d : /\ Reply(d)' = Reply(d) /\ (IsOrder(d) <=> DecodeCommandStatus(d.bytes) = "Ok")
    BY <1>2 DEF Reply, LastOf, IsOrder
  <2>4. handled' = IF IsOrder(e) THEN Append(handled, r) ELSE handled
    <3>1. delivered'[Len(delivered')] = e
      BY <2>1
    <3>2. QED
      BY <1>2, <2>1, <3>1 DEF HandleEvent, IsOrder, Reply, LastOf
  <2>5. LastOf(e) \in 1 .. R /\ e.bytes \in Seq(Octet)
    <3>1. DecoderInv' => Within'
      BY WithinHolds, PTL
    <3>2. LastOf(e) \in 1 .. Len(received')
      BY <1>4, <2>1, <2>2, <3>1 DEF Within, LastOf
    <3>3. QED
      BY <1>3, <3>2
  <2>6. CASE ~IsOrder(e)
    <3>1. handled' = handled
      BY <2>4, <2>6
    <3>2. Books'
      BY <1>1, <1>2, <1>3, <3>1 DEF Books
    <3>3. TakenInOrder'
      BY <1>1, <3>1 DEF TakenInOrder
    <3>4. Answered'
      <4>1. ASSUME NEW m \in 1 .. H
            PROVE  \E j \in 1 .. Len(delivered') :
                     IsOrder(delivered'[j]) /\ handled'[m] = Reply(delivered'[j])
        <5>1. PICK j \in 1 .. D : IsOrder(delivered[j]) /\ handled[m] = Reply(delivered[j])
          BY <1>1 DEF Answered
        <5>2. QED
          BY <2>1, <2>2, <3>1, <5>1
      <4>2. ASSUME NEW j \in 1 .. Len(delivered'), IsOrder(delivered'[j])
            PROVE  \E m \in 1 .. H : handled'[m] = Reply(delivered'[j])
        <5>1. j \in 1 .. D /\ delivered'[j] = delivered[j]
          BY <2>1, <2>2, <2>6, <4>2
        <5>2. QED
          BY <1>1, <3>1, <4>2, <5>1 DEF Answered
      <4>3. QED
        BY <2>3, <3>1, <4>1, <4>2 DEF Answered, IsOrder
    <3>5. QED
      BY <1>1, <1>2, <1>4, <1>5, <3>2, <3>3, <3>4 DEF LinkInv
  <2>7. CASE IsOrder(e)
    <3>1. r \in Handled
      <4>1. DecodedCommand(e.bytes) \in CommandMessage
        BY <2>5, <2>7, CommandReadIs DEF IsOrder
      <4>2. numbers[LastOf(e)] \in Nat \ {0}
        BY <1>6, <2>5, ElementOfSeq
      <4>3. QED
        BY <4>1, <4>2 DEF Reply
    <3> HIDE DEF r, Handled
    <3>2. /\ handled' = Append(handled, r) /\ handled' \in Seq(Handled)
          /\ Len(handled') = H + 1 /\ handled'[H + 1] = r
          /\ \A m \in 1 .. H : handled'[m] = handled[m]
      BY <1>6, <2>4, <2>7, <3>1, AppendProperties
    <3>3. /\ H + 1 \in 1 .. Len(handled')
          /\ \A m \in 1 .. H : m \in 1 .. Len(handled')
          /\ \A m \in 1 .. Len(handled') : m \in 1 .. H \/ m = H + 1
      BY <1>6, <3>2
    <3>4. Books'
      BY <1>1, <1>2, <1>3, <3>2 DEF Books, Handled
    <3>5. \A i \in 1 .. D : Reply(delivered[i]).number < r.number
      <4>1. (DecoderInv /\ Books /\ IsLine(Line, attempts))' => HandedInTurn'
        BY HandedInTurnHolds, PTL
      <4>2. HandedInTurn'
        BY <1>1, <1>2, <1>4, <1>5, <3>4, <4>1
      <4>3. QED
        BY <2>1, <2>2, <2>3, <2>7, <4>2 DEF HandedInTurn, r, IsOrder
    <3>6. TakenInOrder'
      <4>1. ASSUME NEW m \in 1 .. Len(handled'), NEW n \in 1 .. Len(handled'), m < n
            PROVE  handled'[m].number < handled'[n].number
        <5>1. m \in 1 .. H
          BY <1>6, <3>2, <4>1
        <5>2. CASE n \in 1 .. H
          BY <1>1, <3>2, <4>1, <5>1, <5>2 DEF TakenInOrder
        <5>3. CASE n = H + 1
          <6>1. PICK j \in 1 .. D : handled[m] = Reply(delivered[j])
            BY <1>1, <5>1 DEF Answered
          <6>2. QED
            BY <3>2, <3>5, <5>1, <5>3, <6>1
        <5>4. QED
          BY <3>3, <5>2, <5>3
      <4>2. QED
        BY <4>1 DEF TakenInOrder
    <3>7. Answered'
      <4>1. ASSUME NEW m \in 1 .. Len(handled')
            PROVE  \E j \in 1 .. Len(delivered') :
                     IsOrder(delivered'[j]) /\ handled'[m] = Reply(delivered'[j])
        <5>1. CASE m \in 1 .. H
          <6>1. PICK j \in 1 .. D : IsOrder(delivered[j]) /\ handled[m] = Reply(delivered[j])
            BY <1>1, <5>1 DEF Answered
          <6>2. QED
            BY <2>1, <2>2, <3>2, <5>1, <6>1
        <5>2. CASE m = H + 1
          BY <2>1, <2>2, <2>7, <3>2, <5>2 DEF r
        <5>3. QED
          BY <3>3, <5>1, <5>2
      <4>2. ASSUME NEW j \in 1 .. Len(delivered'), IsOrder(delivered'[j])
            PROVE  \E m \in 1 .. Len(handled') : handled'[m] = Reply(delivered'[j])
        <5>1. CASE j \in 1 .. D
          <6>1. PICK m \in 1 .. H : handled[m] = Reply(delivered[j])
            BY <1>1, <2>1, <4>2, <5>1 DEF Answered
          <6>2. QED
            BY <2>1, <3>2, <3>3, <5>1, <6>1
        <5>2. CASE j = D + 1
          BY <2>1, <3>2, <3>3, <5>2 DEF r
        <5>3. QED
          BY <2>2, <5>1, <5>2
      <4>3. QED
        BY <2>3, <4>1, <4>2 DEF Answered, IsOrder
    <3>8. QED
      BY <1>1, <1>2, <1>4, <1>5, <3>4, <3>6, <3>7 DEF LinkInv
  <2>8. QED
    BY <2>6, <2>7
<1>9. QED
  <2>1. [FlightProofs!Next]_(FlightProofs!vars)
    BY <1>2, StepIsNext
  <2>2. \/ delivered' = delivered
        \/ \E e \in [at : Nat \ {0}, bytes : Seq(Octet)] :
             FlightProofs!WholeFrame(e.bytes) /\ delivered' = Append(delivered, e)
    BY <1>1, <2>1, RealGeometry, FlightProofs!HandsOver DEF DecoderInv
  <2>3. QED
    BY <1>7, <1>8, <2>2

(* Every step keeps the invariant.                                         *)
LEMMA NextLinkInv ==
  ASSUME LinkInv, [Next]_vars
  PROVE  LinkInv'
<1>1. CASE UNCHANGED vars
  <2>1. UNCHANGED <<next_sequence, uplink, attempts, handled, numbers, lost, decoder>>
        /\ UNCHANGED <<received, delivered>>
    BY <1>1 DEF vars, decoder
  <2>2. DecoderInv'
    BY <2>1, DecoderKeeps DEF LinkInv
  <2>3. Answered' /\ TakenInOrder'
    BY <2>1, AnswersStay DEF LinkInv
  <2>4. QED
    BY <2>1, <2>2, <2>3 DEF LinkInv, Books, Line
<1>2. QED
  BY <1>1, NewSessionKeeps, SendFrameKeeps, OverrunKeeps, PollInKeeps, ProcessBufferKeeps
  DEF Next

(* Every reachable state of the link satisfies it.                         *)
THEOREM LinkInvariance == Spec => []LinkInv
<1>1. LinkInv /\ [Next]_vars => LinkInv'
  BY NextLinkInv
<1>2. QED
  BY <1>1, InitLinkInv, PTL DEF Spec

-----------------------------------------------------------------------------
(* The theorems.                                                           *)

(* Each byte received belonged to a frame begun, and they came in order.   *)
NumbersAre ==
  /\ \A k \in 1 .. Len(received) : numbers[k] \in 1 .. Len(attempts)
  /\ \A k, m \in 1 .. Len(received) : k < m => numbers[k] <= numbers[m]

(* That is a consequence of the order of the line.                         *)
LEMMA NumbersHold == LinkInv => NumbersAre
<1> SUFFICES ASSUME LinkInv PROVE NumbersAre
  OBVIOUS
<1> DEFINE R == Len(received)
<1>1. /\ R \in Nat /\ Len(Line) \in Nat /\ R <= Len(Line)
      /\ \A k \in 1 .. R : Line[k].byte = received[k] /\ Line[k].number = numbers[k]
  BY ReceivedOnLine DEF LinkInv
<1>2. \A k \in 1 .. R : k \in 1 .. Len(Line)
  BY <1>1
<1>3. InTurn(Line, attempts)
  BY DEF LinkInv, IsLine
<1> HIDE DEF R
<1>4. \A k \in 1 .. R : numbers[k] \in 1 .. Len(attempts)
  BY <1>1, <1>2, <1>3 DEF InTurn
<1>5. \A k, m \in 1 .. R : k < m => numbers[k] <= numbers[m]
  BY <1>1, <1>2, <1>3 DEF InTurn
<1>6. QED
  BY <1>4, <1>5 DEF NumbersAre, R

(* The state has its type in every reachable state: no number is beyond    *)
(* the frames begun, and no session counts past them.                      *)
LEMMA TypeFollows == LinkInv => TypeOK
<1> SUFFICES ASSUME LinkInv PROVE TypeOK
  OBVIOUS
<1> DEFINE N == Len(attempts)
<1>1. DecoderInv /\ Books /\ IsLine(Line, attempts) /\ Answered /\ NumbersAre
  BY NumbersHold DEF LinkInv
<1>2. N \in Nat /\ MaxFrames \in Nat
  BY <1>1, LinkAssumption DEF IsLine
<1>3. next_sequence \in 1 .. (MaxFrames + 1)
  <2>1. next_sequence \in Nat /\ 1 <= next_sequence /\ next_sequence <= N + 1 /\ N <= MaxFrames
    BY <1>1 DEF Books
  <2> HIDE DEF N
  <2>2. QED
    BY <1>2, <2>1
<1>4. ASSUME NEW i \in 1 .. Len(uplink)
      PROVE  uplink[i] \in [byte : Octet, number : 1 .. N]
  <2> DEFINE R == Len(received)
             U == Len(uplink)
  <2>1. /\ R \in Nat /\ U \in Nat /\ Len(Line) = R + U
        /\ \A k \in 1 .. U : Line[R + k] = uplink[k]
    BY <1>1, LineIs DEF LineFacts
  <2>2. uplink[i] \in Entry
    BY <1>1, ElementOfSeq DEF Books
  <2>3. i \in 1 .. U
    OBVIOUS
  <2> HIDE DEF R, U, N
  <2>4. R + i \in 1 .. Len(Line)
    BY <2>1, <2>3
  <2>5. uplink[i].number \in 1 .. N
    BY <1>1, <2>1, <2>3, <2>4 DEF IsLine, InTurn, N
  <2>6. QED
    BY <2>2, <2>5 DEF Entry
<1>5. ASSUME NEW n \in 1 .. Len(handled)
      PROVE  handled[n] \in [number : 1 .. N, message : CommandMessage]
  <2>1. handled[n] \in [number : Nat \ {0}, message : CommandMessage]
    BY <1>1, ElementOfSeq DEF Books
  <2>2. PICK j \in 1 .. Len(delivered) : handled[n] = Reply(delivered[j])
    BY <1>1 DEF Answered
  <2>3. LastOf(delivered[j]) \in 1 .. Len(received)
    BY <1>1, WithinHolds DEF Within
  <2>4. handled[n].number \in 1 .. N
    BY <1>1, <2>2, <2>3 DEF Reply, NumbersAre
  <2>5. QED
    BY <2>1, <2>4
<1>6. Len(numbers) = Len(received) /\ lost \in 0 .. MaxLost
  BY <1>1 DEF Books
<1> HIDE DEF N
<1>7. QED
  BY <1>3, <1>4, <1>5, <1>6 DEF TypeOK, N

(* The state of the link is of its type.                                   *)
THEOREM LinkTypeCorrect == Spec => []TypeOK
  BY LinkInvariance, TypeFollows, PTL

(* Commands are processed in the order in which they were sent, and at     *)
(* most once each, whatever was lost and whatever fragments the decoder    *)
(* took for commands.                                                      *)
THEOREM OrderKept == Spec => []TakenInOrder
  BY LinkInvariance, PTL DEF LinkInv

(* The frame of a command is whole for the decoder too.                    *)
LEMMA FrameIsWhole ==
  ASSUME NEW f, NEW message, IsFrame(f, message)
  PROVE  /\ FlightProofs!WholeFrame(f) /\ FlightProofs!FrameSize(f, 1) = Len(f)
         /\ Len(f) \in Nat /\ Len(f) >= 13
<1> DEFINE l == Len(f)
<1>1. /\ l \in Nat /\ 13 <= l /\ l <= 17 /\ f[1] = 165 /\ f[2] = 90
      /\ f[5] = l - 12 /\ f[6] = 0 /\ DecodeStatusOf(f) = "Ok"
  BY DEF IsFrame
<1> HIDE DEF l
<1>2. FlightProofs!LengthAt(f, 1) = l - 12
  <2>1. FlightProofs!LengthAt(f, 1) = f[5] + 256 * f[6]
    BY DEF FlightProofs!LengthAt, LengthField
  <2>2. QED
    BY <1>1, <2>1
<1>3. FlightProofs!FrameSize(f, 1) = l
  BY <1>1, <1>2 DEF FlightProofs!FrameSize, minimum_frame_size
<1>4. FlightProofs!HeaderAt(f, 1) /\ FlightProofs!SyncAt(f, 1)
  BY <1>1 DEF FlightProofs!HeaderAt, FlightProofs!SyncAt, l
<1>5. FlightProofs!CompleteAt(f, 1)
  <2>1. l - 12 <= 64 /\ 1 + l - 1 <= l
    BY <1>1
  <2>2. QED
    BY <1>2, <1>3, <1>4, <2>1 DEF FlightProofs!CompleteAt, maximum_payload_size, l
<1>6. QED
  BY <1>1, <1>3, <1>4, <1>5 DEF FlightProofs!WholeFrame, l

(* The n-th frame lies whole among the bytes received, from s to t.        *)
Landed(n, s, t) ==
  /\ n \in 1 .. Len(attempts) /\ s \in Nat /\ t \in Nat
  /\ 1 <= s /\ s + 12 <= t /\ t <= Len(received)
  /\ t = s + Len(FrameOf(attempts, n)) - 1
  /\ \A k \in 1 .. Len(received) : numbers[k] = n <=> s <= k /\ k <= t
  /\ SubSeq(received, s, t) = FrameOf(attempts, n)
  /\ IsFrame(FrameOf(attempts, n), attempts[n].message)
  /\ FlightProofs!WholeFrame(SubSeq(received, s, t))

(* The n-th frame is intact and none of its bytes is under way.            *)
Arrived(n) ==
  /\ attempts[n].intact
  /\ \A i \in 1 .. Len(uplink) : uplink[i].number # n

(* An intact frame none of whose bytes are under way was received whole.   *)
LEMMA ArrivedIsReceived ==
  ASSUME LinkInv, NEW n \in 1 .. Len(attempts), Arrived(n)
  PROVE  \E s, t : Landed(n, s, t)
<1> DEFINE f == FrameOf(attempts, n)
           l == Len(f)
           R == Len(received)
           U == Len(uplink)
<1>1. DecoderInv /\ Books /\ IsLine(Line, attempts)
  BY DEF LinkInv
<1>2. /\ R \in Nat /\ U \in Nat /\ Len(Line) = R + U /\ received \in Seq(Octet)
      /\ \A k \in 1 .. U : Line[R + k] = uplink[k]
  BY <1>1, LineIs DEF LineFacts
<1>3. \A k \in 1 .. R : Line[k].byte = received[k] /\ Line[k].number = numbers[k]
  BY <1>1, ReceivedOnLine
<1>4. IsFrame(f, attempts[n].message)
  BY <1>1, CommandFrameIs DEF IsLine, FrameOf
<1>5. /\ FlightProofs!WholeFrame(f) /\ l \in Nat /\ l >= 13 /\ f \in Seq(Octet)
  BY <1>4, FrameIsWhole DEF IsFrame
<1>6. PICK s : Stretch(Line, attempts, n, s)
  BY <1>1 DEF IsLine, Arrived
<1>7. /\ s \in Nat /\ s >= 1 /\ s + l - 1 <= R + U
      /\ \A i \in 1 .. l : Line[s + i - 1] = [byte |-> f[i], number |-> n]
      /\ \A i \in 1 .. (R + U) : Line[i].number = n => s <= i /\ i <= s + l - 1
  BY <1>2, <1>6 DEF Stretch
<1> HIDE DEF f, l, R, U
<1> DEFINE t == s + l - 1
<1>8. t \in Nat /\ s + 12 <= t /\ t <= R + U
  BY <1>5, <1>7
<1>9. ASSUME NEW k \in s .. t
      PROVE  Line[k].number = n /\ Line[k].byte = f[k - s + 1] /\ k - s + 1 \in 1 .. l
  <2>1. k - s + 1 \in 1 .. l /\ s + (k - s + 1) - 1 = k
    BY <1>5, <1>7
  <2>2. Line[s + (k - s + 1) - 1] = [byte |-> f[k - s + 1], number |-> n]
    BY <1>7, <2>1
  <2>3. QED
    BY <2>1, <2>2
<1>10. t <= R
  <2>1. SUFFICES ASSUME t > R PROVE FALSE
    BY <1>2, <1>8
  <2>2. t - R \in 1 .. U /\ R + (t - R) = t /\ t \in s .. t
    BY <1>2, <1>7, <1>8, <2>1
  <2>3. uplink[t - R].number = n
    BY <1>2, <1>9, <2>2
  <2>4. QED
    BY <2>2, <2>3 DEF Arrived, U
<1>11. ASSUME NEW k \in 1 .. R PROVE numbers[k] = n <=> s <= k /\ k <= t
  <2>1. k \in 1 .. (R + U) /\ (s <= k /\ k <= t => k \in s .. t)
    BY <1>2, <1>7, <1>8
  <2>2. Line[k].number = numbers[k]
    BY <1>3
  <2>3. QED
    BY <1>7, <1>9, <2>1, <2>2
<1>12. SubSeq(received, s, t) = f
  <2>1. \A k \in s .. t : k \in 1 .. R
    BY <1>2, <1>7, <1>8, <1>10
  <2>2. \A k \in 1 .. R : received[k] \in Octet
    BY <1>2, ElementOfSeq DEF R
  <2>3. \A k \in s .. t : received[k] \in Octet
    BY <2>1, <2>2
  <2> DEFINE g == SubSeq(received, s, t)
  <2> HIDE DEF t
  <2>4. /\ g \in Seq(Octet) /\ Len(g) = t - s + 1
        /\ \A i \in 1 .. (t - s + 1) : g[i] = received[s + i - 1]
    BY <1>7, <1>8, <2>3, SubSeqProperties
  <2>5. t - s + 1 = l
    BY <1>5, <1>7 DEF t
  <2> HIDE DEF g
  <2>6. ASSUME NEW i \in 1 .. l PROVE g[i] = f[i]
    <3>1. s + i - 1 \in s .. t /\ (s + i - 1) - s + 1 = i
      BY <1>5, <1>7 DEF t
    <3>2. Line[s + i - 1].byte = f[i]
      BY <1>9, <3>1
    <3>3. received[s + i - 1] = Line[s + i - 1].byte
      BY <1>3, <2>1, <3>1
    <3>4. QED
      BY <2>4, <2>5, <3>2, <3>3
  <2>7. g = f
    BY <1>5, <2>4, <2>5, <2>6, SeqEqual DEF l
  <2>8. QED
    BY <2>7 DEF g
<1>13. Landed(n, s, t)
  <2>1. t = s + Len(FrameOf(attempts, n)) - 1
    BY DEF l, f
  <2> HIDE DEF t
  <2>2. QED
    BY <1>4, <1>5, <1>7, <1>8, <1>10, <1>11, <1>12, <2>1 DEF Landed, R, f
<1>14. QED
  BY <1>13

(* A frame before one of which a byte was received, if intact, arrived.    *)
LEMMA EarlierArrived ==
  ASSUME LinkInv, NEW s \in 1 .. Len(received),
         NEW m \in 1 .. Len(attempts), m < numbers[s], attempts[m].intact
  PROVE  Arrived(m)
<1> DEFINE R == Len(received)
           U == Len(uplink)
           n == numbers[s]
<1>1. /\ R \in Nat /\ U \in Nat /\ Len(Line) = R + U
      /\ \A k \in 1 .. U : Line[R + k] = uplink[k]
  BY LineIs DEF LinkInv, LineFacts
<1>2. \A k \in 1 .. R : Line[k].number = numbers[k]
  BY ReceivedOnLine DEF LinkInv
<1>3. s \in 1 .. R /\ m \in Nat
  BY DEF LinkInv, IsLine
<1>4. InTurn(Line, attempts)
  BY DEF LinkInv, IsLine
<1> HIDE DEF R
<1>5. ASSUME NEW i \in 1 .. U PROVE uplink[i].number # m
  <2>1. s \in 1 .. Len(Line) /\ R + i \in 1 .. Len(Line) /\ s < R + i
    BY <1>1, <1>3
  <2>2. /\ Line[s].number <= Line[R + i].number
        /\ Line[s].number \in 1 .. Len(attempts) /\ Line[R + i].number \in 1 .. Len(attempts)
    BY <1>4, <2>1 DEF InTurn
  <2>3. n <= uplink[i].number /\ n \in Int /\ uplink[i].number \in Int
    BY <1>1, <1>2, <1>3, <2>2
  <2>4. m < n
    OBVIOUS
  <2> HIDE DEF n
  <2>5. QED
    BY <1>3, <2>3, <2>4
<1>6. QED
  BY <1>5 DEF Arrived

(* An intact frame whose first byte was decided on was handed over, unless *)
(* that byte is in a frame handed over that began in one before it.        *)
LEMMA CoveredFirst ==
  ASSUME LinkInv, NEW n, NEW s, NEW t, Landed(n, s, t), s <= FlightProofs!Scanned
  PROVE  \/ \E j \in 1 .. Len(delivered) :
              delivered[j].at = s /\ LastOf(delivered[j]) = t
         \/ Swallowed(n)
<1> DEFINE R == Len(received)
<1>1. R \in Nat /\ NumbersAre
  BY LineIs, NumbersHold DEF LinkInv, LineFacts
<1>2. /\ s \in Nat /\ t \in Nat /\ 1 <= s /\ s + 12 <= t /\ t <= R
      /\ \A k \in 1 .. R : numbers[k] = n <=> s <= k /\ k <= t
      /\ FlightProofs!WholeFrame(SubSeq(received, s, t))
      /\ n \in 1 .. Len(attempts)
  BY DEF Landed
<1>3. s \in 1 .. R /\ t \in s .. R
  <2> HIDE DEF R
  <2>1. QED
    BY <1>1, <1>2
<1>4. PICK i \in 1 .. Len(delivered) :
        /\ FlightProofs!Covers(delivered[i], s)
        /\ delivered[i].at = s => delivered[i].at + Len(delivered[i].bytes) - 1 = t
  BY <1>2, <1>3, RealGeometry, FlightProofs!DecidedIsCovered DEF LinkInv, DecoderInv
<1> DEFINE a == delivered[i].at
           l == Len(delivered[i].bytes)
           e == a + l - 1
<1>5. /\ a \in Nat /\ a >= 1 /\ l \in Nat /\ e <= R
      /\ a <= s /\ s < a + l
  <2>1. DeliveredIs(i)
    BY DeliveredAre DEF LinkInv
  <2>2. QED
    BY <1>4, <2>1 DEF DeliveredIs, LastOf, FlightProofs!Covers
<1>6. CASE a = s
  BY <1>4, <1>6 DEF LastOf
<1>7. CASE a # s
  <2> HIDE DEF a, l, R
  <2>1. /\ a \in 1 .. R /\ e \in 1 .. R /\ a < s /\ (s < e \/ s = e)
        /\ e \in Nat
    BY <1>1, <1>2, <1>5, <1>7
  <2>2. numbers[s] = n /\ numbers[a] # n
    BY <1>2, <1>3, <2>1
  <2>3. /\ numbers[a] <= numbers[s] /\ numbers[s] <= numbers[e]
        /\ numbers[a] \in Int /\ numbers[s] \in Int
    BY <1>1, <1>3, <2>1 DEF NumbersAre, R
  <2>4. numbers[a] < n /\ n <= numbers[e]
    BY <2>2, <2>3
  <2>5. QED
    BY <2>4 DEF Swallowed, a, l
<1>8. QED
  BY <1>6, <1>7

(* A command that was handed over as it was sent has been processed.       *)
LEMMA HandedIsServed ==
  ASSUME LinkInv, NEW number, NEW s, NEW t, Landed(number, s, t),
         NEW j \in 1 .. Len(delivered), delivered[j].at = s, LastOf(delivered[j]) = t
  PROVE  Served(number)
<1> DEFINE f == FrameOf(attempts, number)
           d == delivered[j]
<1>1. DeliveredIs(j)
  BY DeliveredAre DEF LinkInv
<1>2. d.bytes = f
  BY <1>1 DEF DeliveredIs, Landed
<1>3. IsFrame(f, attempts[number].message)
  BY DEF Landed
<1>4. IsOrder(d) /\ DecodedCommand(d.bytes) = attempts[number].message
  BY <1>2, <1>3 DEF IsFrame, IsOrder
<1>5. numbers[t] = number
  <2>1. /\ s \in Nat /\ t \in Nat /\ 1 <= s /\ s + 12 <= t /\ t <= Len(received)
        /\ \A k \in 1 .. Len(received) : numbers[k] = number <=> s <= k /\ k <= t
    BY DEF Landed
  <2>2. t \in 1 .. Len(received) /\ s <= t /\ t <= t
    BY <2>1
  <2>3. QED
    BY <2>1, <2>2
<1>6. Reply(d) = [number |-> number, message |-> attempts[number].message]
  BY <1>4, <1>5 DEF Reply
<1>7. \E n \in 1 .. Len(handled) : handled[n] = Reply(d)
  BY <1>4 DEF LinkInv, Answered
<1>8. QED
  BY <1>6, <1>7 DEF Served

(* What the decoder holds between two bytes.                               *)
LEMMA HoldsUndecided ==
  ASSUME LinkInv, pc = "push"
  PROVE  /\ buffer \in Seq(Octet) /\ Len(buffer) \in Nat
         /\ received \in Seq(Octet) /\ Len(received) \in Nat
         /\ FlightProofs!Scanned \in Nat
         /\ FlightProofs!Scanned = Len(received) - Len(buffer)
         /\ \A i \in 1 .. Len(buffer) : buffer[i] = received[FlightProofs!Scanned + i]
         /\ ~FlightProofs!CompleteAt(buffer, 1)
<1>1. FlightProofs!IInv
  BY DEF LinkInv, DecoderInv
<1>2. FlightProofs!TypeOK /\ FlightProofs!Shape /\ FlightProofs!Waiting
  BY <1>1 DEF FlightProofs!IInv
<1>3. /\ received \in Seq(Octet) /\ Len(received) \in Nat
      /\ FlightProofs!Scanned \in Nat
      /\ FlightProofs!Scanned = Len(received) - Len(buffer)
  BY <1>1, RealGeometry, FlightProofs!ScannedBounds
<1>4. \A i \in 1 .. Len(buffer) :
        buffer[i] = received[Len(received) - Len(buffer) + i]
  BY <1>2 DEF FlightProofs!Shape
<1>5. buffer \in Seq(Octet)
  BY <1>2 DEF FlightProofs!TypeOK
<1>6. ~FlightProofs!CompleteAt(buffer, 1)
  BY <1>2 DEF FlightProofs!Waiting
<1>7. QED
  BY <1>3, <1>4, <1>5, <1>6

(* The first six bytes of a byte sequence.                                 *)
LEMMA HeadOf ==
  ASSUME NEW g \in Seq(Octet), Len(g) >= 6
  PROVE  /\ SubSeq(g, 1, 6) \in Seq(Octet) /\ Len(SubSeq(g, 1, 6)) = 6
         /\ \A i \in 1 .. 6 : SubSeq(g, 1, 6)[i] = g[i]
<1>1. \A k \in 1 .. 6 : g[k] \in Octet
  BY ElementOfSeq
<1>2. QED
  BY <1>1, SubSeqProperties

(* The decoder never waits on the own header of a frame while a later one, *)
(* or this one, is in: it announces at most 17 bytes, a command has at     *)
(* least 13, and cannot begin within the header of another.                *)
LEMMA OwnHeaderResolved ==
  ASSUME LinkInv, pc = "push", NEW n, NEW s, NEW t, Landed(n, s, t),
         FlightProofs!Scanned < s,
         NEW m \in 1 .. Len(attempts),
         numbers[FlightProofs!Scanned + 1] = m,
         SubSeq(buffer, 1, 6) = SubSeq(FrameOf(attempts, m), 1, 6)
  PROVE  FALSE
<1> DEFINE R == Len(received)
           B == Len(buffer)
           S == FlightProofs!Scanned
           f == FrameOf(attempts, m)
           l == Len(f)
           g == FrameOf(attempts, n)
<1>1. /\ buffer \in Seq(Octet) /\ B \in Nat /\ R \in Nat /\ S \in Nat /\ S = R - B
      /\ \A i \in 1 .. B : buffer[i] = received[S + i]
      /\ ~FlightProofs!CompleteAt(buffer, 1) /\ received \in Seq(Octet)
  BY HoldsUndecided
<1>2. /\ s \in Nat /\ t \in Nat /\ 1 <= s /\ s + 12 <= t /\ t <= R
      /\ t = s + Len(g) - 1
      /\ \A k \in 1 .. R : numbers[k] = n <=> s <= k /\ k <= t
      /\ SubSeq(received, s, t) = g
      /\ IsFrame(g, attempts[n].message)
  BY DEF Landed
<1>3. S < s /\ numbers[S + 1] = m
  OBVIOUS
<1> HIDE DEF S
<1>4. IsFrame(f, attempts[m].message)
  BY CommandFrameIs DEF LinkInv, IsLine, FrameOf
<1>5. /\ l \in Nat /\ 13 <= l /\ l <= 17 /\ f \in Seq(Octet)
      /\ f[2] = 90 /\ f[3] = 1 /\ f[4] = 16 /\ f[5] = l - 12 /\ f[6] = 0
  BY <1>4 DEF IsFrame
<1>6. B >= 13
  <2> HIDE DEF R, B
  <2>1. QED
    BY <1>1, <1>2, <1>3
<1>7. ASSUME NEW i \in 1 .. 6 PROVE buffer[i] = f[i]
  <2>1. SubSeq(buffer, 1, 6)[i] = buffer[i]
    BY <1>1, <1>6, HeadOf
  <2>2. SubSeq(f, 1, 6)[i] = f[i]
    BY <1>5, HeadOf
  <2>3. SubSeq(buffer, 1, 6) = SubSeq(f, 1, 6)
    OBVIOUS
  <2> HIDE DEF f
  <2>4. QED
    BY <2>1, <2>2, <2>3
<1>8. /\ buffer[2] = 90 /\ buffer[3] = 1 /\ buffer[4] = 16
      /\ buffer[5] = l - 12 /\ buffer[6] = 0
  <2> HIDE DEF f, l
  <2>1. QED
    BY <1>5, <1>7
<1>9. B < l
  <2>1. FlightProofs!LengthAt(buffer, 1) = buffer[5] + 256 * buffer[6]
    BY DEF FlightProofs!LengthAt, LengthField
  <2> HIDE DEF l
  <2>2. FlightProofs!LengthAt(buffer, 1) = l - 12
    BY <1>5, <1>8, <2>1
  <2>3. FlightProofs!FrameSize(buffer, 1) = l
    BY <1>5, <2>2 DEF FlightProofs!FrameSize, minimum_frame_size
  <2>4. FlightProofs!HeaderAt(buffer, 1)
    BY <1>6 DEF FlightProofs!HeaderAt
  <2>5. l - 12 <= 64
    BY <1>5
  <2>6. ~(1 + l - 1 <= B)
    BY <1>1, <2>2, <2>3, <2>4, <2>5 DEF FlightProofs!CompleteAt, maximum_payload_size
  <2> HIDE DEF B
  <2>7. QED
    BY <1>1, <1>5, <2>6
<1>10. received[s] = 165
  <2>1. \A k \in s .. t : received[k] \in Octet
    <3> HIDE DEF R
    <3>1. \A k \in s .. t : k \in 1 .. R
      BY <1>1, <1>2
    <3>2. QED
      BY <1>1, <3>1, ElementOfSeq DEF R
  <2>2. SubSeq(received, s, t)[1] = received[s + 1 - 1]
    <3> HIDE DEF R
    <3>1. 1 \in 1 .. (t - s + 1)
      BY <1>2
    <3>2. QED
      BY <1>2, <2>1, <3>1, SubSeqProperties
  <2>3. g[1] = 165
    BY <1>2 DEF IsFrame
  <2>4. s + 1 - 1 = s
    BY <1>2
  <2>5. SubSeq(received, s, t)[1] = g[1]
    BY <1>2
  <2> HIDE DEF g
  <2>6. QED
    BY <2>2, <2>3, <2>4, <2>5
<1>11. s = S + 1
  <2> DEFINE i == s - S
  <2>1. i \in 1 .. 4 /\ i \in 1 .. B /\ S + i = s
    <3>1. /\ s \in Nat /\ S \in Nat /\ B \in Nat /\ R \in Nat /\ t \in Nat /\ l \in Nat
          /\ s + 12 <= t /\ t <= R /\ S = R - B /\ B < l /\ l <= 17
      BY <1>1, <1>2, <1>5, <1>9
    <3> HIDE DEF l, R, B
    <3>2. s + 12 <= S + B /\ B <= 16
      BY <3>1
    <3>3. s <= S + 4
      BY <3>1, <3>2
    <3>4. QED
      BY <1>3, <1>6, <3>1, <3>3
  <2>2. buffer[i] = 165
    <3>1. buffer[i] = received[S + i]
      BY <1>1, <2>1
    <3>2. QED
      BY <1>10, <2>1, <3>1
  <2> HIDE DEF i
  <2>3. i = 1
    <3>1. i # 2 /\ i # 3 /\ i # 4
      BY <1>8, <2>2
    <3>2. QED
      BY <2>1, <3>1
  <2>4. QED
    BY <2>1, <2>3
<1>12. m = n
  <2>1. s \in 1 .. R /\ s <= s /\ s <= t
    <3> HIDE DEF R
    <3>1. QED
      BY <1>1, <1>2
  <2>2. QED
    BY <1>2, <1>3, <1>11, <2>1
<1>13. QED
  <2>1. t = s + l - 1
    BY <1>2, <1>12
  <2> HIDE DEF l, R, B
  <2>2. QED
    BY <1>1, <1>2, <1>5, <1>9, <1>11, <2>1

(* What the decoder holds in front of an intact command that is in and was *)
(* not decided on is left over, and it waits on no frame's own header.     *)
LEMMA HeldBackByLeftovers ==
  ASSUME LinkInv, pc = "push", NEW n, NEW s, NEW t, Landed(n, s, t),
         FlightProofs!Scanned < s
  PROVE  HeldBack(n)
<1> DEFINE R == Len(received)
           B == Len(buffer)
           S == FlightProofs!Scanned
           b == S + 1
           m == numbers[b]
<1>1. /\ B \in Nat /\ R \in Nat /\ S \in Nat /\ S = R - B /\ S < s
      /\ buffer \in Seq(Octet) /\ received \in Seq(Octet)
      /\ \A i \in 1 .. B : buffer[i] = received[S + i]
  BY HoldsUndecided
<1>2. /\ s \in Nat /\ t \in Nat /\ 1 <= s /\ s + 12 <= t /\ t <= R
      /\ \A k \in 1 .. R : numbers[k] = n <=> s <= k /\ k <= t
      /\ n \in 1 .. Len(attempts)
  BY DEF Landed
<1>3. B >= 13 /\ b \in 1 .. R /\ s \in 1 .. R /\ b <= s /\ b = R - B + 1
  <2> HIDE DEF S, R, B
  <2>1. QED
    BY <1>1, <1>2
<1>4. NumbersAre /\ Len(attempts) \in Nat
  BY NumbersHold DEF LinkInv, IsLine
<1>5. numbers[s] = n
  BY <1>2, <1>3
<1>6. m \in 1 .. Len(attempts) /\ m <= n
  <2>1. b < s => numbers[b] <= numbers[s]
    BY <1>3, <1>4 DEF NumbersAre
  <2>2. m \in 1 .. Len(attempts) /\ n \in Nat /\ m \in Nat
    BY <1>2, <1>3, <1>4 DEF NumbersAre
  <2>3. b = s => m = n
    BY <1>5
  <2> HIDE DEF b, m
  <2>4. b < s \/ b = s
    BY <1>2, <1>3
  <2>5. QED
    BY <1>5, <2>1, <2>2, <2>3, <2>4 DEF m
<1>7. SubSeq(buffer, 1, 6) # SubSeq(FrameOf(attempts, m), 1, 6)
  BY <1>1, <1>6, OwnHeaderResolved
<1>8. ASSUME NEW s1, NEW t1, Landed(m, s1, t1) PROVE b # s1
  <2> DEFINE f == FrameOf(attempts, m)
  <2>1. /\ s1 \in Nat /\ t1 \in Nat /\ 1 <= s1 /\ s1 + 12 <= t1 /\ t1 <= R
        /\ SubSeq(received, s1, t1) = f
    BY <1>8 DEF Landed
  <2>2. SUFFICES ASSUME b = s1 PROVE SubSeq(buffer, 1, 6) = SubSeq(f, 1, 6)
    BY <1>7
  <2> HIDE DEF f
  <2>3. ASSUME NEW i \in 1 .. 6 PROVE buffer[i] = f[i]
    <3>1. \A k \in s1 .. t1 : received[k] \in Octet
      <4> HIDE DEF R
      <4>1. \A k \in s1 .. t1 : k \in 1 .. R
        BY <1>1, <2>1
      <4>2. QED
        BY <1>1, <4>1, ElementOfSeq DEF R
    <3>2. SubSeq(received, s1, t1)[i] = received[s1 + i - 1]
      <4> HIDE DEF R
      <4>1. i \in 1 .. (t1 - s1 + 1)
        BY <2>1
      <4>2. QED
        BY <2>1, <3>1, <4>1, SubSeqProperties
    <3>3. buffer[i] = received[S + i]
      BY <1>1, <1>3
    <3>4. s1 + i - 1 = S + i
      <4> HIDE DEF S
      <4>1. QED
        BY <1>1, <2>2
    <3>5. QED
      BY <2>1, <3>2, <3>3, <3>4
  <2>4. f \in Seq(Octet) /\ Len(f) >= 6
    <3>1. f \in Seq(Octet) /\ Len(f) \in Nat /\ Len(f) >= 13
      BY <1>8 DEF Landed, IsFrame, f
    <3>2. QED
      BY <3>1
  <2> DEFINE x == SubSeq(buffer, 1, 6)
             y == SubSeq(f, 1, 6)
  <2>5. x \in Seq(Octet) /\ Len(x) = 6 /\ \A i \in 1 .. 6 : x[i] = buffer[i]
    BY <1>1, <1>3, HeadOf
  <2>6. y \in Seq(Octet) /\ Len(y) = 6 /\ \A i \in 1 .. 6 : y[i] = f[i]
    BY <2>4, HeadOf
  <2> HIDE DEF x, y
  <2>7. x = y
    BY <2>3, <2>5, <2>6, SeqEqual
  <2>8. QED
    BY <2>7 DEF x, y
<1>9. m < n
  <2>1. SUFFICES ASSUME m = n PROVE FALSE
    BY <1>2, <1>4, <1>6
  <2>2. s <= b
    BY <1>2, <1>3, <2>1
  <2>3. b = s
    <3> HIDE DEF b
    <3>1. QED
      BY <1>2, <1>3, <2>2
  <2>4. Landed(m, s, t)
    BY <2>1
  <2>5. QED
    BY <1>8, <2>3, <2>4
<1>10. ASSUME attempts[m].intact PROVE Swallowed(m)
  <2>1. Arrived(m)
    BY <1>3, <1>5, <1>6, <1>9, <1>10, EarlierArrived
  <2>2. PICK s1, t1 : Landed(m, s1, t1)
    BY <1>6, <2>1, ArrivedIsReceived
  <2>3. /\ s1 \in Nat /\ t1 \in Nat
        /\ \A k \in 1 .. R : numbers[k] = m <=> s1 <= k /\ k <= t1
    BY <2>2 DEF Landed
  <2>4. s1 <= b /\ b <= t1 /\ b # s1
    BY <1>3, <1>8, <2>2, <2>3
  <2>5. s1 <= S
    <3> HIDE DEF S
    <3>1. QED
      BY <1>1, <2>3, <2>4
  <2>6. ASSUME NEW j \in 1 .. Len(delivered), LastOf(delivered[j]) = t1 PROVE FALSE
    <3>1. delivered[j].at + Len(delivered[j].bytes) - 1 <= S
      BY RealGeometry, FlightProofs!DeliveredFacts DEF LinkInv, DecoderInv
    <3>2. t1 <= S
      BY <2>6, <3>1 DEF LastOf
    <3> HIDE DEF S
    <3>3. QED
      BY <1>1, <2>3, <2>4, <3>2
  <2>7. QED
    BY <2>2, <2>5, <2>6, CoveredFirst
<1>11. Flight!HeaderAt(buffer, 1)
  BY <1>3 DEF Flight!HeaderAt
<1>12. QED
  BY <1>3, <1>7, <1>9, <1>10, <1>11 DEF HeldBack, FrameOf

(* As soon as the bytes of an intact command are in, it has been processed *)
(* as it was sent, held back or swallowed: for all requests, however many  *)
(* sessions broke off and however many bytes were lost.                    *)
LEMMA PromptFollows == LinkInv => PromptUnlessHeldBack
<1> SUFFICES ASSUME LinkInv, pc = "push", NEW number \in 1 .. Len(attempts),
                    attempts[number].intact,
                    \A i \in 1 .. Len(uplink) : uplink[i].number # number
             PROVE  Served(number) \/ HeldBack(number) \/ Swallowed(number)
  BY DEF PromptUnlessHeldBack
<1>1. PICK s, t : Landed(number, s, t)
  BY ArrivedIsReceived DEF Arrived
<1>2. s <= FlightProofs!Scanned \/ FlightProofs!Scanned < s
  BY <1>1, HoldsUndecided DEF Landed
<1>3. CASE s <= FlightProofs!Scanned
  BY <1>1, <1>3, CoveredFirst, HandedIsServed
<1>4. CASE FlightProofs!Scanned < s
  BY <1>1, <1>4, HeldBackByLeftovers
<1>5. QED
  BY <1>2, <1>3, <1>4

(* PromptUnlessHeldBack holds in every state.                              *)
THEOREM PromptTheorem == Spec => []PromptUnlessHeldBack
  BY LinkInvariance, PromptFollows, PTL

(* Induction with the hypothesis for every smaller number.                 *)
LEMMA StrongInduction ==
  ASSUME NEW S,
         \A n \in Nat : (\A k \in Nat : k < n => k \in S) => n \in S
  PROVE  \A n \in Nat : n \in S
<1> DEFINE T == {n \in Nat : \A k \in Nat : k < n => k \in S}
<1>1. 0 \in T
  OBVIOUS
<1>2. ASSUME NEW n \in Nat, n \in T PROVE n + 1 \in T
  <2>1. n \in S
    BY <1>2
  <2>2. \A k \in Nat : k < n + 1 => k < n \/ k = n
    OBVIOUS
  <2>3. QED
    BY <1>2, <2>1, <2>2
<1>3. \A n \in Nat : n \in T
  <2> HIDE DEF T
  <2>1. QED
    BY <1>1, <1>2, SetInduction
<1>4. QED
  BY <1>3

(* A frame handed over that runs on into a later one begins in a broken or *)
(* in a swallowed one: the frame of an intact command ends where it ends.  *)
LEMMA SwallowerIsLeftover ==
  ASSUME LinkInv, NEW j \in 1 .. Len(delivered),
         numbers[delivered[j].at] < numbers[LastOf(delivered[j])]
  PROVE  \/ ~attempts[numbers[delivered[j].at]].intact
         \/ Swallowed(numbers[delivered[j].at])
<1> DEFINE R == Len(received)
           a == delivered[j].at
           e == LastOf(delivered[j])
           q == numbers[a]
<1> SUFFICES ASSUME attempts[q].intact PROVE Swallowed(q)
  OBVIOUS
<1>1. R \in Nat /\ NumbersAre /\ received \in Seq(Octet)
  BY LineIs, NumbersHold DEF LinkInv, LineFacts
<1>2. DeliveredIs(j)
  BY DeliveredAre DEF LinkInv
<1>3. /\ a \in Nat /\ a >= 1 /\ e \in Nat /\ a <= e /\ e <= R
      /\ e = a + Len(delivered[j].bytes) - 1
      /\ FlightProofs!WholeFrame(SubSeq(received, a, e))
  <2> DEFINE h == Len(delivered[j].bytes)
  <2>1. a \in Nat /\ a >= 1 /\ h \in Nat /\ h >= 1 /\ e = a + h - 1 /\ e <= R
    BY <1>2 DEF DeliveredIs, LastOf
  <2>2. FlightProofs!WholeFrame(SubSeq(received, a, e))
    BY <1>2 DEF DeliveredIs
  <2> HIDE DEF a, e, h, R
  <2>3. e \in Nat /\ a <= e
    BY <2>1
  <2>4. QED
    BY <2>1, <2>2, <2>3 DEF h
<1>4. a \in 1 .. R /\ e \in 1 .. R
  <2> HIDE DEF a, e, R
  <2>1. QED
    BY <1>1, <1>3
<1>5. q \in 1 .. Len(attempts) /\ q < numbers[e]
  BY <1>1, <1>4 DEF NumbersAre
<1>6. Arrived(q)
  BY <1>4, <1>5, EarlierArrived
<1>7. PICK s, t : Landed(q, s, t)
  BY <1>5, <1>6, ArrivedIsReceived
<1>8. /\ s \in Nat /\ t \in Nat /\ 1 <= s /\ s + 12 <= t /\ t <= R
      /\ \A k \in 1 .. R : numbers[k] = q <=> s <= k /\ k <= t
      /\ FlightProofs!WholeFrame(SubSeq(received, s, t))
  BY <1>7 DEF Landed
<1>9. s <= a /\ a <= t /\ t < e
  <2>1. s <= a /\ a <= t
    BY <1>4, <1>8
  <2>2. ~(s <= e /\ e <= t)
    <3>1. q # numbers[e]
      <4> HIDE DEF q
      <4>1. numbers[e] \in Int
        BY <1>1, <1>4 DEF NumbersAre
      <4>2. QED
        BY <1>5, <4>1
    <3>2. QED
      BY <1>4, <1>8, <3>1
  <2> HIDE DEF a, e, R, q
  <2>3. QED
    BY <1>3, <1>8, <2>1, <2>2
<1>10. s \in 1 .. R /\ t \in s .. R
  <2> HIDE DEF R, q
  <2>1. QED
    BY <1>1, <1>8
<1>11. a # s
  <2>1. SUFFICES ASSUME a = s PROVE t = e
    <3> HIDE DEF a, e, q, R
    <3>1. QED
      BY <1>3, <1>8, <1>9, <2>1
  <2>2. s \in 1 .. Len(received) /\ t \in s .. Len(received) /\ e \in s .. Len(received)
    <3> HIDE DEF a, e, q
    <3>1. QED
      BY <1>3, <1>4, <1>9, <1>10, <2>1
  <2>3. /\ FlightProofs!WholeFrame(SubSeq(received, s, t))
        /\ FlightProofs!WholeFrame(SubSeq(received, s, e))
    BY <1>3, <1>8, <2>1
  <2> HIDE DEF e
  <2>4. QED
    BY <1>1, <2>2, <2>3, RealGeometry, FlightProofs!HeaderFixesLength
<1>12. s <= FlightProofs!Scanned
  <2>1. /\ FlightProofs!Scanned \in Nat
        /\ delivered[j].at + Len(delivered[j].bytes) - 1 <= FlightProofs!Scanned
    BY RealGeometry, FlightProofs!ScannedBounds, FlightProofs!DeliveredFacts
    DEF LinkInv, DecoderInv
  <2>2. e <= FlightProofs!Scanned
    BY <2>1 DEF LastOf
  <2> HIDE DEF a, e, q, R
  <2>3. QED
    BY <1>3, <1>8, <1>9, <2>1, <2>2
<1>13. ASSUME NEW i \in 1 .. Len(delivered),
              delivered[i].at = s, LastOf(delivered[i]) = t
       PROVE  FALSE
  <2> DEFINE l == Len(delivered[i].bytes)
             h == Len(delivered[j].bytes)
  <2>1. l \in Nat /\ s + l - 1 = t
    <3>1. DeliveredIs(i)
      BY DeliveredAre DEF LinkInv
    <3>2. QED
      BY <1>13, <3>1 DEF DeliveredIs, LastOf
  <2>2. s <= a /\ a < s + l
    <3> HIDE DEF a, e, q, R, l
    <3>1. QED
      BY <1>3, <1>8, <1>9, <2>1
  <2>3. FlightProofs!Covers(delivered[i], a)
    BY <1>13, <2>2 DEF FlightProofs!Covers
  <2>4. a <= a /\ a < a + h
    <3>1. h \in Nat /\ e = a + h - 1
      BY <1>2, <1>3 DEF DeliveredIs
    <3> HIDE DEF a, e, q, R, h
    <3>2. QED
      BY <1>3, <3>1
  <2>5. FlightProofs!Covers(delivered[j], a)
    BY <2>4 DEF FlightProofs!Covers
  <2>6. i = j
    <3>1. FlightProofs!IInv /\ FlightProofs!Framed
      BY DEF LinkInv, DecoderInv
    <3>2. a \in Nat
      BY <1>3
    <3>3. QED
      BY <2>3, <2>5, <3>1, <3>2, RealGeometry, FlightProofs!CoveredOnce,
         SMTT(60)
  <2>7. QED
    BY <1>11, <1>13, <2>6
<1>14. QED
  BY <1>7, <1>12, <1>13, CoveredFirst

(* A command is swallowed only if a frame before it was broken off or      *)
(* overrun.                                                                *)
OnlyBreaksSwallow ==
  \A n \in 1 .. Len(attempts) :
    Swallowed(n) => \E k \in 1 .. Len(attempts) : k < n /\ ~attempts[k].intact

(* What swallows it begins in a broken frame before it or in a swallowed   *)
(* one, and so on back.                                                    *)
LEMMA OnlyBreaksSwallowFollows == LinkInv => OnlyBreaksSwallow
<1> SUFFICES ASSUME LinkInv PROVE OnlyBreaksSwallow
  OBVIOUS
<1> DEFINE N == Len(attempts)
           Because(n) == Swallowed(n) => \E k \in 1 .. N : k < n /\ ~attempts[k].intact
           S == {n \in Nat : n \in 1 .. N => Because(n)}
<1>1. N \in Nat /\ NumbersAre
  BY NumbersHold DEF LinkInv, IsLine
<1>2. ASSUME NEW n \in Nat, \A k \in Nat : k < n => k \in S PROVE n \in S
  <2>1. SUFFICES ASSUME n \in 1 .. N, Swallowed(n)
                 PROVE  \E k \in 1 .. N : k < n /\ ~attempts[k].intact
    OBVIOUS
  <2>2. PICK j \in 1 .. Len(delivered) :
          /\ numbers[delivered[j].at] < n
          /\ n <= numbers[LastOf(delivered[j])]
    BY <2>1 DEF Swallowed, LastOf
  <2> DEFINE q == numbers[delivered[j].at]
             z == numbers[LastOf(delivered[j])]
  <2>3. q \in 1 .. N /\ z \in 1 .. N
    <3> DEFINE a == delivered[j].at
               h == Len(delivered[j].bytes)
               R == Len(received)
    <3>1. /\ a \in Nat /\ a >= 1 /\ h \in Nat /\ h >= 1 /\ R \in Nat
          /\ LastOf(delivered[j]) = a + h - 1 /\ LastOf(delivered[j]) <= R
      BY DeliveredAre, LineIs DEF DeliveredIs, LastOf, LinkInv, LineFacts
    <3>2. a \in 1 .. R /\ LastOf(delivered[j]) \in 1 .. R
      <4> HIDE DEF a, h, R
      <4>1. QED
        BY <3>1
    <3>3. QED
      BY <1>1, <3>2 DEF NumbersAre
  <2>4. q < n /\ q < z /\ q \in Nat
    <3>1. q < n /\ n <= z
      BY <2>2
    <3> HIDE DEF q, z
    <3>2. QED
      BY <1>1, <2>3, <3>1
  <2>5. ~attempts[q].intact \/ Swallowed(q)
    BY <2>4, SwallowerIsLeftover
  <2>6. CASE ~attempts[q].intact
    BY <2>3, <2>4, <2>6
  <2>7. CASE Swallowed(q)
    <3>1. Because(q)
      BY <1>2, <2>3, <2>4
    <3>2. PICK k \in 1 .. N : k < q /\ ~attempts[k].intact
      BY <2>7, <3>1
    <3>3. k < n
      <4> HIDE DEF q
      <4>1. QED
        BY <1>1, <2>4, <3>2
    <3>4. QED
      BY <3>2, <3>3
  <2>8. QED
    BY <2>5, <2>6, <2>7
<1>3. \A n \in Nat : n \in S
  <2> HIDE DEF S
  <2>1. QED
    BY <1>2, StrongInduction
<1>4. \A n \in 1 .. N : Because(n)
  BY <1>1, <1>3
<1>5. QED
  BY <1>4 DEF OnlyBreaksSwallow

(* OnlyBreaksSwallow holds in every state: before the first frame that is  *)
(* broken, every intact command is taken by itself.                        *)
THEOREM SwallowedByBreaks == Spec => []OnlyBreaksSwallow
  BY LinkInvariance, OnlyBreaksSwallowFollows, PTL

-----------------------------------------------------------------------------
(* What is processed is what was sent.                                     *)

(* The n-th frame is intact and begins at s, which has been received.      *)
Begun(n, s) ==
  /\ n \in 1 .. Len(attempts) /\ attempts[n].intact
  /\ s \in 1 .. Len(received) /\ numbers[s] = n
  /\ \A k \in 1 .. Len(received) : numbers[k] = n => s <= k

(* An intact frame starts where the line says, and what was received of it *)
(* is what was sent.                                                       *)
LEMMA IntactIsBegun ==
  ASSUME LinkInv, NEW e \in 1 .. Len(received), attempts[numbers[e]].intact
  PROVE  \E s : /\ Begun(numbers[e], s) /\ s <= e
                /\ e <= s + Len(FrameOf(attempts, numbers[e])) - 1
                /\ \A k \in s .. e : /\ numbers[k] = numbers[e]
                                     /\ received[k] = FrameOf(attempts, numbers[e])[k - s + 1]
<1> DEFINE n == numbers[e]
           f == FrameOf(attempts, n)
           l == Len(f)
           R == Len(received)
<1>1. DecoderInv /\ Books /\ IsLine(Line, attempts)
  BY DEF LinkInv
<1>2. /\ R \in Nat /\ Len(Line) \in Nat /\ R <= Len(Line)
      /\ \A k \in 1 .. R : Line[k].byte = received[k] /\ Line[k].number = numbers[k]
  BY <1>1, ReceivedOnLine
<1>3. n \in 1 .. Len(attempts)
  BY NumbersHold DEF NumbersAre
<1>4. l \in Nat
  <2>1. IsFrame(f, attempts[n].message)
    BY <1>1, <1>3, CommandFrameIs DEF IsLine, FrameOf
  <2>2. QED
    BY <2>1 DEF IsFrame
<1>5. PICK s : Stretch(Line, attempts, n, s)
  BY <1>1, <1>3 DEF IsLine
<1>6. /\ s \in Nat /\ s >= 1 /\ s + l - 1 <= Len(Line)
      /\ \A i \in 1 .. l : Line[s + i - 1] = [byte |-> f[i], number |-> n]
      /\ \A i \in 1 .. Len(Line) : Line[i].number = n => s <= i /\ i <= s + l - 1
  BY <1>5 DEF Stretch
<1> HIDE DEF f, l, R
<1>7. /\ \A k \in 1 .. R : k \in 1 .. Len(Line)
      /\ e \in 1 .. R /\ e \in Nat
  BY <1>2 DEF R
<1>8. \A k \in 1 .. R : numbers[k] = n => s <= k /\ k <= s + l - 1
  BY <1>2, <1>6, <1>7
<1>9. s <= e /\ e <= s + l - 1 /\ s \in 1 .. R
  <2>1. s <= e /\ e <= s + l - 1
    BY <1>7, <1>8
  <2>2. QED
    BY <1>2, <1>6, <1>7, <2>1
<1>10. ASSUME NEW k \in s .. e PROVE numbers[k] = n /\ received[k] = f[k - s + 1]
  <2>1. k - s + 1 \in 1 .. l /\ s + (k - s + 1) - 1 = k /\ k \in 1 .. R
    <3> HIDE DEF n
    <3>1. QED
      BY <1>2, <1>4, <1>6, <1>7, <1>9
  <2>2. Line[s + (k - s + 1) - 1] = [byte |-> f[k - s + 1], number |-> n]
    BY <1>6, <2>1
  <2>3. Line[k].byte = f[k - s + 1] /\ Line[k].number = n
    BY <2>1, <2>2
  <2>4. QED
    BY <1>2, <2>1, <2>3
<1>11. Begun(n, s)
  <2>1. s \in s .. e
    BY <1>6, <1>7, <1>9
  <2>2. numbers[s] = n
    BY <1>10, <2>1
  <2>3. QED
    BY <1>3, <1>8, <1>9, <2>2 DEF Begun, R
<1>12. QED
  BY <1>9, <1>10, <1>11 DEF f, l

(* A command that ends in an intact frame is that frame, unless left-over  *)
(* bytes swallowed it: it cannot start within the frame, where no byte     *)
(* early enough is the first sync byte, and one that starts before it has  *)
(* swallowed it.                                                           *)
LEMMA OrderIsSent ==
  ASSUME LinkInv, NEW j \in 1 .. Len(delivered), IsOrder(delivered[j]),
         attempts[Reply(delivered[j]).number].intact
  PROVE  \/ Reply(delivered[j]).message = attempts[Reply(delivered[j]).number].message
         \/ Swallowed(Reply(delivered[j]).number)
<1> DEFINE d == delivered[j]
           a == d.at
           h == Len(d.bytes)
           e == LastOf(d)
           n == numbers[e]
           f == FrameOf(attempts, n)
           l == Len(f)
           R == Len(received)
<1>1. Reply(d) = [number |-> n, message |-> DecodedCommand(d.bytes)]
  BY DEF Reply
<1>2. DeliveredIs(j)
  BY DeliveredAre DEF LinkInv
<1>3. /\ a \in Nat /\ a >= 1 /\ h \in Nat /\ e = a + h - 1 /\ e <= R
      /\ d.bytes \in Seq(Octet) /\ d.bytes[1] = 165
      /\ \A k \in 1 .. h : d.bytes[k] = received[a + k - 1]
      /\ FlightProofs!WholeFrame(d.bytes)
  BY <1>2 DEF DeliveredIs, LastOf
<1>4. h >= 13
  BY <1>3, CommandHasPayload DEF IsOrder
<1>5. R \in Nat
  BY LineIs DEF LinkInv, LineFacts
<1>6. attempts[n].intact
  BY <1>1
<1>7. e \in 1 .. R /\ e \in Nat /\ a \in 1 .. R /\ a + 12 <= e
  <2> HIDE DEF a, h, e, R
  <2>1. QED
    BY <1>3, <1>4, <1>5
<1>8. n \in 1 .. Len(attempts)
  BY <1>7, NumbersHold DEF NumbersAre
<1>9. IsFrame(f, attempts[n].message)
  BY <1>8, CommandFrameIs DEF LinkInv, IsLine, FrameOf
<1>10. /\ l \in Nat /\ l <= 17 /\ 13 <= l /\ f \in Seq(Octet)
       /\ f[2] = 90 /\ f[3] = 1 /\ f[4] = 16 /\ f[5] = l - 12 /\ f[6] = 0
       /\ DecodedCommand(f) = attempts[n].message
  BY <1>9 DEF IsFrame
<1>11. PICK s : /\ Begun(n, s) /\ s <= e /\ e <= s + l - 1
                /\ \A k \in s .. e : numbers[k] = n /\ received[k] = f[k - s + 1]
  BY <1>6, <1>7, IntactIsBegun
<1>12. s \in 1 .. R /\ s \in Nat
  BY <1>5, <1>11 DEF Begun
<1>13. a <= s
  <2>1. SUFFICES ASSUME s < a PROVE FALSE
    <3> HIDE DEF a
    <3>1. QED
      BY <1>3, <1>12, <2>1 DEF a
  <2> DEFINE v == a - s + 1
  <2>2. a \in s .. e
    <3> HIDE DEF a, e, n, l
    <3>1. QED
      BY <1>7, <1>12, <2>1, <1>3
  <2>3. received[a] = f[v]
    BY <1>11, <2>2
  <2>4. received[a] = 165
    <3> HIDE DEF a, h, R
    <3>1. 1 \in 1 .. h /\ a + 1 - 1 = a
      BY <1>3, <1>4, <1>7
    <3>2. QED
      BY <1>3, <3>1 DEF a, h
  <2>5. v = 2 \/ v = 3 \/ v = 4 \/ v = 5
    <3>1. a \in Nat /\ a + 12 <= e /\ e <= s + l - 1 /\ e \in Nat
      BY <1>3, <1>7, <1>11
    <3> HIDE DEF a, e, l
    <3>2. QED
      BY <1>10, <1>12, <2>1, <3>1
  <2>6. f[2] # 165 /\ f[3] # 165 /\ f[4] # 165 /\ f[5] # 165
    <3> DEFINE z == f[5]
    <3>1. z = l - 12 /\ l \in Nat /\ l <= 17
      BY <1>10
    <3>2. f[2] = 90 /\ f[3] = 1 /\ f[4] = 16
      BY <1>10
    <3> HIDE DEF z, f, l
    <3>3. z # 165
      BY <3>1
    <3>4. f[5] # 165
      BY <3>3 DEF z
    <3>5. QED
      BY <3>2, <3>4
  <2>7. f[v] = 165
    BY <2>3, <2>4
  <2> HIDE DEF v, f, n
  <2>8. QED
    BY <2>5, <2>6, <2>7
<1>14. FlightProofs!Covers(d, s)
  <2>1. a <= s /\ s < a + h
    <3>1. s <= e
      BY <1>11
    <3> HIDE DEF a, h, e
    <3>2. QED
      BY <1>3, <1>12, <1>13, <3>1
  <2>2. QED
    BY <2>1 DEF FlightProofs!Covers
<1>15. a = s \/ Swallowed(n)
  <2>1. SUFFICES ASSUME a # s PROVE Swallowed(n)
    OBVIOUS
  <2>2. a < s
    <3> HIDE DEF a
    <3>1. QED
      BY <1>3, <1>12, <1>13, <2>1 DEF a
  <2>3. numbers[a] # n
    <3>1. a \in 1 .. R /\ ~(s <= a)
      <4> HIDE DEF a, R
      <4>1. QED
        BY <1>7, <1>12, <2>2
    <3>2. QED
      BY <1>11, <3>1 DEF Begun
  <2>4. a < e
    <3> HIDE DEF a, e
    <3>1. QED
      BY <1>7, <1>3
  <2>5. numbers[a] <= n /\ numbers[a] \in Int /\ n \in Int
    BY <1>7, <2>4, NumbersHold DEF NumbersAre
  <2>6. numbers[a] < n /\ n <= n
    <3> HIDE DEF n
    <3>1. QED
      BY <2>3, <2>5
  <2>7. QED
    BY <2>6 DEF Swallowed, LastOf
<1>16. CASE a = s
  <2>1. ASSUME NEW k \in 1 .. h PROVE d.bytes[k] = f[k]
    <3>1. d.bytes[k] = received[a + k - 1]
      BY <1>3
    <3>2. a + k - 1 \in s .. e /\ (a + k - 1) - s + 1 = k
      <4> HIDE DEF a, h, e
      <4>1. QED
        BY <1>3, <1>12, <1>16
    <3>3. received[a + k - 1] = f[(a + k - 1) - s + 1]
      BY <1>11, <3>2
    <3> HIDE DEF f
    <3>4. QED
      BY <3>1, <3>2, <3>3
  <2>2. 5 \in 1 .. h /\ 6 \in 1 .. h
    <3> HIDE DEF h
    <3>1. QED
      BY <1>3, <1>4
  <2>3. d.bytes[5] = f[5] /\ d.bytes[6] = f[6]
    BY <2>1, <2>2
  <2>4. FlightProofs!FrameSize(d.bytes, 1) = h
    BY <1>3 DEF FlightProofs!WholeFrame
  <2>5. FlightProofs!LengthAt(d.bytes, 1) = d.bytes[5] + 256 * d.bytes[6]
    BY DEF FlightProofs!LengthAt, LengthField
  <2>6. FlightProofs!LengthAt(d.bytes, 1) = l - 12
    <3> DEFINE x == d.bytes[5]
               y == d.bytes[6]
    <3>1. x = l - 12 /\ y = 0
      BY <1>10, <2>3
    <3> HIDE DEF x, y, l
    <3>2. x + 256 * y = l - 12
      BY <1>10, <3>1
    <3>3. QED
      BY <2>5, <3>2 DEF x, y
  <2>7. h = l
    <3> DEFINE z == FlightProofs!LengthAt(d.bytes, 1)
    <3>1. FlightProofs!FrameSize(d.bytes, 1) = 12 + z
      BY DEF FlightProofs!FrameSize, minimum_frame_size
    <3>2. l \in Nat /\ z = l - 12
      BY <1>10, <2>6
    <3> HIDE DEF z, h, l
    <3>3. h = 12 + z
      BY <2>4, <3>1
    <3>4. QED
      BY <3>2, <3>3
  <2>8. d.bytes = f
    <3> DEFINE g == d.bytes
    <3>1. g \in Seq(Octet) /\ Len(g) = l /\ \A k \in 1 .. l : g[k] = f[k]
      BY <1>3, <2>1, <2>7
    <3>2. f \in Seq(Octet) /\ Len(f) = l
      BY <1>10
    <3> HIDE DEF f, g, l
    <3>3. g = f
      BY <3>1, <3>2, SeqEqual
    <3>4. QED
      BY <3>3 DEF g
  <2> HIDE DEF f, n
  <2>9. QED
    BY <1>1, <1>10, <2>8
<1>17. QED
  BY <1>1, <1>15, <1>16

(* A command processed in the place of an intact one is that one, as it    *)
(* was sent, unless left-over bytes before it were completed to a frame by *)
(* its bytes.  (What is processed in the place of a broken one could be    *)
(* anything that has the right checksum.)                                  *)
Faithful ==
  \A m \in 1 .. Len(handled) :
    attempts[handled[m].number].intact =>
      \/ handled[m].message = attempts[handled[m].number].message
      \/ Swallowed(handled[m].number)

(* Faithful follows from the invariant.                                    *)
LEMMA FaithfulFollows == LinkInv => Faithful
<1> SUFFICES ASSUME LinkInv, NEW m \in 1 .. Len(handled),
                    attempts[handled[m].number].intact
             PROVE  \/ handled[m].message = attempts[handled[m].number].message
                    \/ Swallowed(handled[m].number)
  BY DEF Faithful
<1>1. PICK j \in 1 .. Len(delivered) :
        IsOrder(delivered[j]) /\ handled[m] = Reply(delivered[j])
  BY DEF LinkInv, Answered
<1>2. QED
  BY <1>1, OrderIsSent

(* No command is altered on its way, except by left-over bytes before it.  *)
THEOREM CommandsFaithful == Spec => []Faithful
  BY LinkInvariance, FaithfulFollows, PTL

-----------------------------------------------------------------------------
(* The channel.                                                            *)

(* The messages sent, as the channel counts them.                          *)
Sent == [i \in 1 .. Len(attempts) |-> attempts[i].message]

(* Every command processed is the one sent under its number.               *)
Truthful ==
  \A m \in 1 .. Len(handled) : handled[m].message = attempts[handled[m].number].message

(* A step that leaves the messages alone leaves the channel's alone.       *)
LEMMA SentStays ==
  ASSUME Len(attempts') = Len(attempts),
         \A i \in 1 .. Len(attempts) : attempts'[i].message = attempts[i].message
  PROVE  Sent' = Sent
BY DEF Sent

(* Beginning a frame is sending its message, whole or not.                 *)
LEMMA SendingIsSend ==
  ASSUME LinkInv, NEW request \in Requests, SendFrame(request)
  PROVE  handled' = handled /\ \E message \in Messages : Sent' = Append(Sent, message)
<1> DEFINE message == Numbered(request, next_sequence)
           N == Len(attempts)
<1>1. /\ attempts \in Seq(Attempt) /\ N \in Nat
      /\ next_sequence \in Nat /\ 1 <= next_sequence /\ next_sequence <= N + 1
      /\ MaxFrames \in Nat
  BY LinkAssumption DEF LinkInv, IsLine, Books
<1>2. /\ N + 1 <= MaxFrames /\ handled' = handled
      /\ \E whole : attempts' = Append(attempts, [message |-> message, intact |-> whole])
  <2>1. PICK frame \in {EncodeCommand(message)} : \E count \in 1 .. Len(frame) :
          attempts' = Append(attempts, [message |-> message,
                                        intact |-> count = Len(frame)])
    BY DEF SendFrame
  <2>2. QED
    BY <2>1 DEF SendFrame
<1>3. next_sequence \in 1 .. MaxFrames
  BY <1>1, <1>2
<1>4. message \in Messages
  BY <1>3 DEF Messages
<1>5. Len(attempts') = N + 1
      /\ \A i \in 1 .. (N + 1) :
           attempts'[i].message = IF i <= N THEN attempts[i].message ELSE message
  BY <1>1, <1>2
<1> HIDE DEF message
<1>6. Sent' = [i \in 1 .. (N + 1) |-> IF i <= N THEN attempts[i].message ELSE message]
  BY <1>5 DEF Sent
<1>7. Len(Sent) = N /\ Sent = [i \in 1 .. N |-> attempts[i].message]
  BY <1>1 DEF Sent
<1>8. Append(Sent, message) =
        [i \in 1 .. (N + 1) |-> IF i = N + 1 THEN message ELSE Sent[i]]
  BY <1>7
<1>9. ASSUME NEW i \in 1 .. (N + 1)
      PROVE  (IF i <= N THEN attempts[i].message ELSE message)
               = (IF i = N + 1 THEN message ELSE Sent[i])
  BY <1>1, <1>7
<1>10. Sent' = Append(Sent, message)
  BY <1>6, <1>8, <1>9
<1>11. QED
  BY <1>2, <1>4, <1>10

(* Processing a command takes it from the channel.                         *)
LEMMA HandlingIsTake ==
  ASSUME LinkInv, LinkInv', Truthful', ProcessBuffer, handled' # handled
  PROVE  /\ Sent' = Sent
         /\ \E n \in 1 .. Len(Sent) :
              /\ \A m \in 1 .. Len(handled) : handled[m].number < n
              /\ handled' = Append(handled, [number |-> n, message |-> Sent[n]])
<1> DEFINE H == Len(handled)
           N == Len(attempts)
<1>1. handled \in Seq([number : Nat \ {0}, message : CommandMessage]) /\ H \in Nat
      /\ N \in Nat
  <2>1. handled \in Seq([number : Nat \ {0}, message : CommandMessage])
    BY DEF LinkInv, Books
  <2>2. attempts \in Seq(Attempt)
    BY DEF LinkInv, IsLine
  <2>3. QED
    BY <2>1, <2>2
<1>2. attempts' = attempts
  BY DEF ProcessBuffer
<1>3. PICK n, message : handled' = Append(handled, [number |-> n, message |-> message])
  BY DEF ProcessBuffer, HandleEvent
<1>4. /\ Len(handled') = H + 1
      /\ \A m \in 1 .. H : handled'[m] = handled[m]
      /\ handled'[H + 1] = [number |-> n, message |-> message]
  BY <1>1, <1>3
<1>5. H + 1 \in 1 .. Len(handled') /\ \A m \in 1 .. H : m \in 1 .. Len(handled') /\ m < H + 1
  BY <1>1, <1>4
<1>6. n \in 1 .. N
  <2>1. LinkInv' => TypeOK'
    BY TypeFollows, PTL
  <2>2. handled'[H + 1] \in [number : 1 .. N, message : CommandMessage]
    BY <1>2, <1>5, <2>1 DEF TypeOK
  <2>3. QED
    BY <1>4, <2>2
<1>7. message = attempts[n].message
  BY <1>2, <1>4, <1>5 DEF Truthful
<1>8. \A m \in 1 .. H : handled[m].number < n
  <2>1. TakenInOrder'
    BY DEF LinkInv
  <2>2. \A m \in 1 .. H : handled'[m].number < handled'[H + 1].number
    BY <1>5, <2>1 DEF TakenInOrder
  <2>3. QED
    BY <1>4, <2>2
<1>9. Len(Sent) = N /\ Sent[n] = attempts[n].message /\ Sent' = Sent
  BY <1>1, <1>2, <1>6 DEF Sent
<1>10. QED
  BY <1>3, <1>6, <1>7, <1>8, <1>9

(* An overrun concerns the bytes, not the messages sent.                   *)
LEMMA OverrunStays ==
  ASSUME LinkInv, Overrun
  PROVE  Sent' = Sent
<1>1. /\ attempts \in Seq(Attempt)
      /\ attempts' = [attempts EXCEPT ![Head(uplink).number].intact = FALSE]
  BY DEF LinkInv, IsLine, Overrun
<1>2. Len(attempts') = Len(attempts)
  BY <1>1
<1>3. ASSUME NEW i \in 1 .. Len(attempts) PROVE attempts'[i].message = attempts[i].message
  <2>1. attempts[i] \in Attempt
    BY <1>1, ElementOfSeq
  <2>2. QED
    BY <1>1, <2>1 DEF Attempt
<1>4. QED
  BY <1>2, <1>3, SentStays

(* Every step of the link is one of the channel or none of its business.   *)
LEMMA StepOfChannel ==
  ASSUME LinkInv, LinkInv', Truthful', [Next]_vars
  PROVE  [Channel!Next]_<<Sent, handled>>
<1>1. CASE UNCHANGED vars \/ NewSession \/ PollIn
  <2>1. UNCHANGED <<attempts, handled>>
    BY <1>1 DEF vars, NewSession, PollIn
  <2>2. QED
    BY <2>1 DEF Sent
<1>2. ASSUME NEW request \in Requests, SendFrame(request)
      PROVE  [Channel!Next]_<<Sent, handled>>
  BY <1>2, SendingIsSend DEF Channel!Next, Channel!Send, Sent
<1>3. CASE Overrun
  <2>1. handled' = handled
    BY <1>3 DEF Overrun
  <2>2. QED
    BY <1>3, <2>1, OverrunStays
<1>4. CASE ProcessBuffer
  <2>1. CASE handled' = handled
    <3>1. attempts' = attempts
      BY <1>4 DEF ProcessBuffer
    <3>2. QED
      BY <2>1, <3>1 DEF Sent
  <2>2. CASE handled' # handled
    BY <1>4, <2>2, HandlingIsTake DEF Channel!Next, Channel!Take, Sent
  <2>3. QED
    BY <2>1, <2>2
<1>5. QED
  BY <1>1, <1>2, <1>3, <1>4 DEF Next

(* The link implements the channel unless a command is processed that is   *)
(* not the one sent under its number: order and uniqueness never fail.     *)
THEOREM ChannelUnlessForged == Spec /\ []Truthful => ImplementsChannel
<1>1. Init => Channel!Init
  BY DEF Init, Channel!Init
<1>2. LinkInv /\ LinkInv' /\ Truthful' /\ [Next]_vars => [Channel!Next]_<<Sent, handled>>
  BY StepOfChannel
<1>3. QED
  BY <1>1, <1>2, LinkInvariance, PTL DEF Spec, ImplementsChannel, Channel!Spec, Sent
=============================================================================
