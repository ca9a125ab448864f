------------------------ MODULE MessageExchangeProofs ------------------------
(***************************************************************************)
(* What MessageExchange's run checks on some messages, for all messages of *)
(* their C++ types and every foreign frame: the three codecs are inverse   *)
(* to each other, and a receiver accepts nothing but what the encoder of   *)
(* that message would have made.                                           *)
(***************************************************************************)
EXTENDS MessageExchange, CodecProofs

-----------------------------------------------------------------------------
(* Numbers and their bytes.                                                *)

(* The bounds of the two 16-bit types.                                     *)
LEMMA U16Is == \A value : value \in U16 <=> value \in Nat /\ value < 65536
<1>1. \A bound \in Nat : \A value :
        value \in 0 .. bound <=> value \in Nat /\ value < bound + 1
  OBVIOUS
<1>2. maximum_u16 \in Nat /\ maximum_u16 + 1 = 65536
  BY DEF maximum_u16
<1>3. \A value : value \in U16 <=> value \in Nat /\ value < maximum_u16 + 1
  BY <1>1, <1>2 DEF U16
<1>4. QED
  BY <1>2, <1>3

(* The bounds of the signed 16-bit type.                                   *)
LEMMA I16Is == \A value : value \in I16 <=> value \in Int /\ -32768 <= value /\ value <= 32767
<1>1. \A low, high \in Int : \A value :
        value \in low .. high <=> value \in Int /\ low <= value /\ value <= high
  OBVIOUS
<1>2. minimum_i16 = -32768 /\ maximum_i16 = 32767
  BY DEF minimum_i16, maximum_i16
<1>3. minimum_i16 \in Int /\ maximum_i16 \in Int
  BY <1>2
<1>4. \A value : value \in I16 <=>
        value \in Int /\ minimum_i16 <= value /\ value <= maximum_i16
  BY <1>1, <1>3 DEF I16
<1>5. QED
  BY <1>2, <1>4

(* Two bytes read are the two bytes of the number they make.               *)
LEMMA TwoBytesRead ==
  ASSUME NEW a \in Octet, NEW b \in Octet
  PROVE  LET value == a + 256 * b
         IN  /\ value \in Nat /\ value < 65536
             /\ value % 256 = a /\ value \div 256 = b
<1>1. a \in Nat /\ a < 256 /\ b \in Nat /\ b < 256
  BY OctetIs
<1>2. QED
  BY <1>1, SMT

(* The three known fault bits fit one byte, which keeps them.              *)
LEMMA KnownMask ==
  ASSUME NEW mask, mask \subseteq known_fault_mask
  PROVE  Value(mask) \in Octet /\ Bits(Value(mask), 8) = mask
<1>1. \A i : i \in mask => i \in {0, 1, 2}
  BY DEF known_fault_mask
<1>2. Value(mask) = Bit(mask, 0) + 2 * Bit(mask, 1) + 4 * Bit(mask, 2)
  BY <1>1 DEF Value, Nibble, Bit
<1> DEFINE v == Bit(mask, 0) + 2 * Bit(mask, 1) + 4 * Bit(mask, 2)
<1>3. Bits(v, 8) = mask
  <2>1. \A i \in 0 .. 7 : (v \div 2^i) % 2 = 1 <=> i \in mask
    <3> DEFINE a == Bit(mask, 0)
               b == Bit(mask, 1)
               c == Bit(mask, 2)
    <3>1. /\ a \in {0, 1} /\ (a = 1 <=> 0 \in mask)
          /\ b \in {0, 1} /\ (b = 1 <=> 1 \in mask)
          /\ c \in {0, 1} /\ (c = 1 <=> 2 \in mask)
      BY DEF Bit
    <3>2. v = a + 2 * b + 4 * c
      OBVIOUS
    <3> HIDE DEF a, b, c, v
    <3>3. /\ (v \div 2^0) % 2 = a /\ (v \div 2^1) % 2 = b /\ (v \div 2^2) % 2 = c
          /\ (v \div 2^3) % 2 = 0 /\ (v \div 2^4) % 2 = 0 /\ (v \div 2^5) % 2 = 0
          /\ (v \div 2^6) % 2 = 0 /\ (v \div 2^7) % 2 = 0
      BY <3>1, <3>2
    <3>4. \A i \in 0 .. 7 : i = 0 \/ i = 1 \/ i = 2 \/ i = 3 \/ i = 4 \/ i = 5 \/ i = 6 \/ i = 7
      OBVIOUS
    <3>5. 3 \notin mask /\ 4 \notin mask /\ 5 \notin mask /\ 6 \notin mask /\ 7 \notin mask
      BY <1>1
    <3>6. QED
      BY <3>1, <3>3, <3>4, <3>5, Zenon
  <2>2. 8 - 1 = 7 /\ \A i : i \in mask => i \in 0 .. 7
    BY <1>1
  <2> HIDE DEF v
  <2>3. QED
    BY <2>1, <2>2 DEF Bits
<1>4. v \in Nat /\ v < 256
  BY DEF Bit
<1>5. QED
  BY <1>2, <1>3, <1>4, OctetIs

(* No bit, no number, and the other way about.                             *)
LEMMA NoBits ==
  /\ Value({}) = 0 /\ Bits(0, 8) = {}
  /\ \A value \in Octet : Bits(value, 8) = {} => value = 0
<1>1. Value({}) = 0
  BY DEF Value, Nibble, Bit
<1>2. Bits(0, 8) = {}
  <2>1. {} \subseteq known_fault_mask
    OBVIOUS
  <2>2. QED
    BY <1>1, <2>1, KnownMask
<1>3. QED
  BY <1>1, <1>2, ValueOfBits

(* Sixteen bits keep a signed temperature, and are what it was read from.  *)
LEMMA Temperature ==
  /\ \A value \in I16 : /\ encode_temperature(value) \in U16
                        /\ decode_temperature(encode_temperature(value)) = value
  /\ \A value \in U16 : /\ decode_temperature(value) \in I16
                        /\ encode_temperature(decode_temperature(value)) = value
<1>1. ASSUME NEW value \in Int, -32768 <= value, value <= 32767
      PROVE  /\ value % 65536 \in Nat /\ value % 65536 < 65536
             /\ decode_temperature(encode_temperature(value)) = value
  BY <1>1 DEF decode_temperature, encode_temperature
<1>2. ASSUME NEW value \in Nat, value < 65536
      PROVE  /\ decode_temperature(value) \in Int
             /\ -32768 <= decode_temperature(value) /\ decode_temperature(value) <= 32767
             /\ encode_temperature(decode_temperature(value)) = value
  BY <1>2 DEF decode_temperature, encode_temperature
<1>3. QED
  BY <1>1, <1>2, U16Is, I16Is DEF encode_temperature

-----------------------------------------------------------------------------
(* Acknowledgements.                                                       *)

IsAck(given) ==
  /\ given \in [sequence : Nat, command : DOMAIN CommandCode, status : DOMAIN AckStatusCode]
  /\ FitsU32(given.sequence)

AckIn(frame) ==
  [sequence |-> frame.sequence,
   command  |-> NameOf(CommandCode, frame.payload[1]),
   status   |-> NameOf(AckStatusCode, frame.payload[2])]

(* The decoder's answer in terms of the frame.                             *)
LEMMA AckRead ==
  ASSUME NEW b, NEW frame, DecodeStatusOf(b) = "Ok", DecodedFrame(b) = frame
  PROVE  /\ DecodeAckStatus(b) = IF frame.message_type # "CommandAck"
                                  THEN "IncorrectMessageType"
                                  ELSE AckPayloadStatus(frame)
         /\ DecodedAck(b) = AckIn(frame)
  BY DEF DecodeAckStatus, DecodedAck, AckIn

(* An acknowledgement is read as it was given.                             *)
LEMMA AckOut ==
  ASSUME NEW given, IsAck(given)
  PROVE  /\ WellFramed(AckFrame(given)) /\ AckFrame(given).message_type = "CommandAck"
         /\ AckPayloadStatus(AckFrame(given)) = "Ok"
         /\ AckIn(AckFrame(given)) = given
<1> DEFINE frame == AckFrame(given)
           p == <<CommandCode[given.command], AckStatusCode[given.status]>>
<1>1. /\ given \in [sequence : Nat, command : DOMAIN CommandCode,
                    status : DOMAIN AckStatusCode]
      /\ given.sequence \in Nat /\ FitsU32(given.sequence)
      /\ given.command \in DOMAIN CommandCode /\ given.status \in DOMAIN AckStatusCode
  BY DEF IsAck
<1>2. CommandCode[given.command] \in Octet /\ AckStatusCode[given.status] \in Octet
  BY <1>1, Tables DEF OneToOne
<1>3. /\ p \in Seq(Octet) /\ Len(p) = 2
      /\ p[1] = CommandCode[given.command] /\ p[2] = AckStatusCode[given.status]
  BY <1>2
<1>4. frame = MakeFrame("CommandAck", given.sequence, p)
  BY DEF AckFrame
<1> HIDE DEF p
<1>5. /\ WellFramed(frame) /\ frame.message_type = "CommandAck"
      /\ frame.sequence = given.sequence /\ frame.payload = p
      /\ frame.payload_length = Len(p)
  <2>1. "CommandAck" \in MessageType
    BY DEF MessageType
  <2>2. /\ given.sequence \in Nat /\ FitsU32(given.sequence)
        /\ p \in Seq(Octet) /\ Len(p) \in Nat /\ Len(p) <= 64
    BY <1>1, <1>3
  <2>3. QED
    BY <1>4, <2>1, <2>2, Made
<1> HIDE DEF frame
<1>6. /\ IsCode(CommandCode, p[1]) /\ NameOf(CommandCode, p[1]) = given.command
      /\ IsCode(AckStatusCode, p[2]) /\ NameOf(AckStatusCode, p[2]) = given.status
  BY <1>1, <1>3, Tables DEF OneToOne
<1>7. AckPayloadStatus(frame) = "Ok"
  BY <1>3, <1>5, <1>6 DEF AckPayloadStatus
<1>8. AckIn(frame) = [sequence |-> given.sequence, command |-> given.command,
                      status |-> given.status]
  BY <1>5, <1>6 DEF AckIn
<1>9. AckIn(frame) = given
  BY <1>1, <1>8
<1>10. QED
  BY <1>5, <1>7, <1>9 DEF frame

(* A frame accepted as an acknowledgement is that acknowledgement's.       *)
LEMMA AckBack ==
  ASSUME NEW frame, WellFramed(frame), frame.message_type = "CommandAck",
         AckPayloadStatus(frame) = "Ok"
  PROVE  AckFrame(AckIn(frame)) = frame
<1> DEFINE p == frame.payload
           given == AckIn(frame)
           q == <<CommandCode[given.command], AckStatusCode[given.status]>>
<1>1. p \in Seq(Octet) /\ Len(p) = frame.payload_length
  BY FramedFields
<1>2. /\ frame.payload_length = 2
      /\ IsCode(CommandCode, p[1]) /\ IsCode(AckStatusCode, p[2])
  BY DEF AckPayloadStatus
<1>3. /\ given.sequence = frame.sequence
      /\ given.command = NameOf(CommandCode, p[1])
      /\ given.status = NameOf(AckStatusCode, p[2])
  BY DEF AckIn
<1>4. CommandCode[given.command] = p[1] /\ AckStatusCode[given.status] = p[2]
  BY <1>2, <1>3, Tables DEF OneToOne
<1>5. p[1] \in Octet /\ p[2] \in Octet
  BY <1>1, <1>2, ElementOfSeq
<1>6. q = p
  <2>1. q = <<p[1], p[2]>>
    BY <1>4
  <2>2. q \in Seq(Octet) /\ Len(q) = 2 /\ q[1] = p[1] /\ q[2] = p[2]
    BY <1>5, <2>1
  <2> HIDE DEF q
  <2>3. \A i \in 1 .. Len(q) : q[i] = p[i]
    BY <2>2
  <2>4. Len(q) = Len(p)
    BY <1>1, <1>2, <2>2
  <2>5. QED
    BY <1>1, <2>2, <2>3, <2>4, SeqEqual
<1>7. AckFrame(given) = MakeFrame(frame.message_type, frame.sequence, p)
  BY <1>3, <1>6 DEF AckFrame
<1>8. QED
  BY <1>7, Remade

-----------------------------------------------------------------------------
(* Telemetry.                                                              *)

(* Sixteen bits written are two octets, which make the number again.       *)
LEMMA WordIs ==
  ASSUME NEW value \in U16
  PROVE  /\ write_u16_le(value) \in Seq(Octet) /\ Len(write_u16_le(value)) = 2
         /\ write_u16_le(value)[1] = value % 256 /\ write_u16_le(value)[2] = value \div 256
         /\ value % 256 \in Octet /\ value \div 256 \in Octet
         /\ (value % 256) + 256 * (value \div 256) = value
<1>1. value \in Nat /\ value < 65536
  BY U16Is
<1>2. QED
  BY <1>1, TwoBytes

(* The eight bytes of an uptime, two of each of its words.                 *)
LEMMA UptimeIs ==
  ASSUME NEW words \in [1 .. 4 -> U16]
  PROVE  LET p == write_u64_le(words)
         IN  /\ p \in Seq(Octet) /\ Len(p) = 8
             /\ p[1] = words[1] % 256 /\ p[2] = words[1] \div 256
             /\ p[3] = words[2] % 256 /\ p[4] = words[2] \div 256
             /\ p[5] = words[3] % 256 /\ p[6] = words[3] \div 256
             /\ p[7] = words[4] % 256 /\ p[8] = words[4] \div 256
<1> DEFINE a == write_u16_le(words[1])
           b == write_u16_le(words[2])
           c == write_u16_le(words[3])
           d == write_u16_le(words[4])
           e == a \o b
           f == e \o c
           g == f \o d
<1>1. words[1] \in U16 /\ words[2] \in U16 /\ words[3] \in U16 /\ words[4] \in U16
  OBVIOUS
<1>2. /\ a \in Seq(Octet) /\ Len(a) = 2
      /\ a[1] = words[1] % 256 /\ a[2] = words[1] \div 256
  BY <1>1, WordIs
<1>3. /\ b \in Seq(Octet) /\ Len(b) = 2
      /\ b[1] = words[2] % 256 /\ b[2] = words[2] \div 256
  BY <1>1, WordIs
<1>4. /\ c \in Seq(Octet) /\ Len(c) = 2
      /\ c[1] = words[3] % 256 /\ c[2] = words[3] \div 256
  BY <1>1, WordIs
<1>5. /\ d \in Seq(Octet) /\ Len(d) = 2
      /\ d[1] = words[4] % 256 /\ d[2] = words[4] \div 256
  BY <1>1, WordIs
<1>6. write_u64_le(words) = g
  BY DEF write_u64_le
<1> HIDE DEF a, b, c, d
<1>7. /\ e \in Seq(Octet) /\ Len(e) = 4
      /\ e[1] = a[1] /\ e[2] = a[2] /\ e[3] = b[1] /\ e[4] = b[2]
  <2>1. a \in Seq(Octet) /\ Len(a) = 2 /\ b \in Seq(Octet) /\ Len(b) = 2
    BY <1>2, <1>3
  <2>2. IsJoin(e, a, 2, b, 2)
    BY <2>1, Joined
  <2> HIDE DEF e
  <2>3. QED
    BY <2>2 DEF IsJoin
<1> HIDE DEF e
<1>8. /\ f \in Seq(Octet) /\ Len(f) = 6
      /\ f[1] = e[1] /\ f[2] = e[2] /\ f[3] = e[3] /\ f[4] = e[4]
      /\ f[5] = c[1] /\ f[6] = c[2]
  <2>1. e \in Seq(Octet) /\ Len(e) = 4 /\ c \in Seq(Octet) /\ Len(c) = 2
    BY <1>4, <1>7
  <2>2. IsJoin(f, e, 4, c, 2)
    BY <2>1, Joined
  <2> HIDE DEF f
  <2>3. QED
    BY <2>2 DEF IsJoin
<1> HIDE DEF f
<1>9. /\ g \in Seq(Octet) /\ Len(g) = 8
      /\ g[1] = f[1] /\ g[2] = f[2] /\ g[3] = f[3] /\ g[4] = f[4]
      /\ g[5] = f[5] /\ g[6] = f[6] /\ g[7] = d[1] /\ g[8] = d[2]
  <2>1. f \in Seq(Octet) /\ Len(f) = 6 /\ d \in Seq(Octet) /\ Len(d) = 2
    BY <1>5, <1>8
  <2>2. IsJoin(g, f, 6, d, 2)
    BY <2>1, Joined
  <2> HIDE DEF g
  <2>3. QED
    BY <2>2 DEF IsJoin
<1> HIDE DEF g
<1>10. QED
  BY <1>2, <1>3, <1>4, <1>5, <1>6, <1>7, <1>8, <1>9

(* The four bytes of the fault mask: the known bits are in the first.      *)
LEMMA MaskIs ==
  ASSUME NEW mask, mask \subseteq known_fault_mask
  PROVE  LET p == write_mask_le(mask)
         IN  /\ p \in Seq(Octet) /\ Len(p) = 4
             /\ p[1] = Value(mask) /\ p[2] = 0 /\ p[3] = 0 /\ p[4] = 0
<1> DEFINE Part(byte) == {bit - 8 * (byte - 1) : bit \in mask \cap 8 * (byte - 1) .. 8 * byte - 1}
           p == [byte \in 1 .. 4 |-> Value(Part(byte))]
<1>1. write_mask_le(mask) = p
  BY DEF write_mask_le
<1>2. \A i : i \in mask => i = 0 \/ i = 1 \/ i = 2
  BY DEF known_fault_mask
<1>3. Part(1) = mask
  <2>1. mask \cap 8 * (1 - 1) .. 8 * 1 - 1 = mask
    BY <1>2
  <2>2. \A i \in mask : i - 8 * (1 - 1) = i
    BY <1>2
  <2>3. QED
    BY <2>1, <2>2
<1>4. Part(2) = {} /\ Part(3) = {} /\ Part(4) = {}
  BY <1>2
<1> HIDE DEF Part
<1>5. p[1] = Value(mask) /\ p[2] = 0 /\ p[3] = 0 /\ p[4] = 0
  BY <1>3, <1>4, NoBits
<1>6. p[1] \in Octet /\ p[2] \in Octet /\ p[3] \in Octet /\ p[4] \in Octet
  BY <1>5, KnownMask, OctetIs
<1>7. p \in Seq(Octet) /\ Len(p) = 4
  <2>1. p = [i \in 1 .. 4 |-> p[i]]
    OBVIOUS
  <2> HIDE DEF p
  <2>2. \A i \in 1 .. 4 : p[i] \in Octet
    BY <1>6
  <2>3. QED
    BY <2>1, <2>2
<1>8. QED
  BY <1>1, <1>5, <1>7

(* The fault mask that four octets make.  When it has known bits only, it  *)
(* is the first of them, and the others are 0.                             *)
LEMMA MaskRead ==
  ASSUME NEW p \in Seq(Octet), Len(p) = 19
  PROVE  LET mask == read_mask_le(p, 15)
         IN  /\ p[17] = 0 /\ p[18] = 0 /\ p[19] = 0 => mask = Bits(p[16], 8)
             /\ mask \subseteq known_fault_mask =>
                  p[17] = 0 /\ p[18] = 0 /\ p[19] = 0 /\ Value(mask) = p[16]
<1> DEFINE mask == read_mask_le(p, 15)
           Part(byte) == Bits(At(p, 15 + byte), 8)
<1>1. /\ p[16] \in Octet /\ p[17] \in Octet /\ p[18] \in Octet /\ p[19] \in Octet
  <2>1. \A i \in 1 .. 19 : p[i] \in Octet
    BY ElementOfSeq
  <2>2. QED
    BY <2>1
<1>2. /\ Part(0) = Bits(p[16], 8) /\ Part(1) = Bits(p[17], 8)
      /\ Part(2) = Bits(p[18], 8) /\ Part(3) = Bits(p[19], 8)
  BY DEF At
<1>3. \A x : x \in mask <=> \E byte \in 0 .. 3 : \E bit \in Part(byte) : x = bit + 8 * byte
  BY DEF read_mask_le
<1>4. \A byte : Part(byte) \subseteq 0 .. 7
  BY DEF Bits
<1> HIDE DEF mask, Part
<1>5. ASSUME p[17] = 0, p[18] = 0, p[19] = 0 PROVE mask = Bits(p[16], 8)
  <2>1. Part(1) = {} /\ Part(2) = {} /\ Part(3) = {}
    BY <1>2, <1>5, NoBits
  <2>2. \A byte \in 0 .. 3 : byte = 0 \/ byte = 1 \/ byte = 2 \/ byte = 3
    OBVIOUS
  <2>3. \A bit \in Part(0) : bit + 8 * 0 = bit
    BY <1>4
  <2>4. \A x : x \in mask <=> x \in Part(0)
    BY <1>3, <2>1, <2>2, <2>3
  <2>5. QED
    BY <1>2, <2>4
<1>6. ASSUME mask \subseteq known_fault_mask
      PROVE  p[17] = 0 /\ p[18] = 0 /\ p[19] = 0 /\ Value(mask) = p[16]
  <2>1. ASSUME NEW byte \in 1 .. 3 PROVE Part(byte) = {}
    <3> SUFFICES ASSUME NEW bit \in Part(byte) PROVE FALSE
      OBVIOUS
    <3>1. bit + 8 * byte \in mask
      BY <1>3
    <3>2. bit \in 0 .. 7
      BY <1>4
    <3>3. bit + 8 * byte \in {0, 1, 2}
      BY <1>6, <3>1 DEF known_fault_mask
    <3>4. QED
      BY <3>2, <3>3
  <2>2. Part(1) = {} /\ Part(2) = {} /\ Part(3) = {}
    BY <2>1
  <2>3. p[17] = 0 /\ p[18] = 0 /\ p[19] = 0
    BY <1>1, <1>2, <2>2, NoBits
  <2>4. Value(mask) = p[16]
    BY <1>1, <1>5, <2>3, ValueOfBits
  <2>5. QED
    BY <2>3, <2>4
<1>7. QED
  BY <1>5, <1>6 DEF mask

IsTelemetry(given) ==
  /\ given \in [sequence : Nat, uptime_ms : [1 .. 4 -> U16],
                flight_mode : DOMAIN FlightModeCode, battery_mv : U16,
                board_temperature_centi_c : I16, solar_current_ma : U16,
                latched_fault_mask : SUBSET known_fault_mask]
  /\ FitsU32(given.sequence)

TelemetryPayload(given) ==
  write_u64_le(given.uptime_ms) \o <<FlightModeCode[given.flight_mode]>>
  \o write_u16_le(given.battery_mv)
  \o write_u16_le(encode_temperature(given.board_temperature_centi_c))
  \o write_u16_le(given.solar_current_ma)
  \o write_mask_le(given.latched_fault_mask)

(* The nineteen bytes of a telemetry payload and the fields they hold.     *)
Holds(p, words, mode, battery, temperature, solar, mask) ==
  /\ p[1] = words[1] % 256 /\ p[2] = words[1] \div 256
  /\ p[3] = words[2] % 256 /\ p[4] = words[2] \div 256
  /\ p[5] = words[3] % 256 /\ p[6] = words[3] \div 256
  /\ p[7] = words[4] % 256 /\ p[8] = words[4] \div 256
  /\ p[9] = mode
  /\ p[10] = battery % 256 /\ p[11] = battery \div 256
  /\ p[12] = temperature % 256 /\ p[13] = temperature \div 256
  /\ p[14] = solar % 256 /\ p[15] = solar \div 256
  /\ p[16] = mask /\ p[17] = 0 /\ p[18] = 0 /\ p[19] = 0

(* The payload encode_telemetry() writes.                                  *)
LEMMA TelemetryPayloadIs ==
  ASSUME NEW given, IsTelemetry(given)
  PROVE  LET p == TelemetryPayload(given)
         IN  /\ p \in Seq(Octet) /\ Len(p) = 19
             /\ Holds(p, given.uptime_ms, FlightModeCode[given.flight_mode],
                      given.battery_mv,
                      encode_temperature(given.board_temperature_centi_c),
                      given.solar_current_ma, Value(given.latched_fault_mask))
<1> DEFINE words == given.uptime_ms
           mode == FlightModeCode[given.flight_mode]
           battery == given.battery_mv
           temperature == encode_temperature(given.board_temperature_centi_c)
           solar == given.solar_current_ma
           mask == given.latched_fault_mask
           a == write_u64_le(words)
           b == <<mode>>
           c == write_u16_le(battery)
           d == write_u16_le(temperature)
           e == write_u16_le(solar)
           f == write_mask_le(mask)
           ab == a \o b
           abc == ab \o c
           abcd == abc \o d
           abcde == abcd \o e
           p == abcde \o f
<1>1. TelemetryPayload(given) = p
  BY DEF TelemetryPayload
<1>2. /\ words \in [1 .. 4 -> U16] /\ mode \in Octet
      /\ battery \in U16 /\ temperature \in U16 /\ solar \in U16
      /\ mask \subseteq known_fault_mask
  <2>1. /\ words \in [1 .. 4 -> U16] /\ given.flight_mode \in DOMAIN FlightModeCode
        /\ battery \in U16 /\ given.board_temperature_centi_c \in I16 /\ solar \in U16
        /\ mask \subseteq known_fault_mask
    BY DEF IsTelemetry
  <2>2. QED
    BY <2>1, Tables, Temperature DEF OneToOne
<1> HIDE DEF words, mode, battery, temperature, solar, mask
<1>3. /\ a \in Seq(Octet) /\ Len(a) = 8
      /\ a[1] = words[1] % 256 /\ a[2] = words[1] \div 256
      /\ a[3] = words[2] % 256 /\ a[4] = words[2] \div 256
      /\ a[5] = words[3] % 256 /\ a[6] = words[3] \div 256
      /\ a[7] = words[4] % 256 /\ a[8] = words[4] \div 256
  BY <1>2, UptimeIs
<1>4. b \in Seq(Octet) /\ Len(b) = 1 /\ b[1] = mode
  BY <1>2
<1>5. /\ c \in Seq(Octet) /\ Len(c) = 2
      /\ c[1] = battery % 256 /\ c[2] = battery \div 256
  BY <1>2, WordIs
<1>6. /\ d \in Seq(Octet) /\ Len(d) = 2
      /\ d[1] = temperature % 256 /\ d[2] = temperature \div 256
  BY <1>2, WordIs
<1>7. /\ e \in Seq(Octet) /\ Len(e) = 2
      /\ e[1] = solar % 256 /\ e[2] = solar \div 256
  BY <1>2, WordIs
<1>8. /\ f \in Seq(Octet) /\ Len(f) = 4
      /\ f[1] = Value(mask) /\ f[2] = 0 /\ f[3] = 0 /\ f[4] = 0
  BY <1>2, MaskIs
<1> HIDE DEF a, b, c, d, e, f
<1>9. /\ ab \in Seq(Octet) /\ Len(ab) = 9
      /\ \A i \in 1 .. 8 : ab[i] = a[i]
      /\ ab[9] = b[1]
  <2>1. a \in Seq(Octet) /\ Len(a) = 8 /\ b \in Seq(Octet) /\ Len(b) = 1
    BY <1>3, <1>4
  <2>2. IsJoin(ab, a, 8, b, 1)
    BY <2>1, Joined
  <2> HIDE DEF ab
  <2>3. QED
    BY <2>2 DEF IsJoin
<1> HIDE DEF ab
<1>10. /\ abc \in Seq(Octet) /\ Len(abc) = 11
       /\ \A i \in 1 .. 9 : abc[i] = ab[i]
       /\ abc[10] = c[1] /\ abc[11] = c[2]
  <2>1. ab \in Seq(Octet) /\ Len(ab) = 9 /\ c \in Seq(Octet) /\ Len(c) = 2
    BY <1>5, <1>9
  <2>2. IsJoin(abc, ab, 9, c, 2)
    BY <2>1, Joined
  <2> HIDE DEF abc
  <2>3. QED
    BY <2>2 DEF IsJoin
<1> HIDE DEF abc
<1>11. /\ abcd \in Seq(Octet) /\ Len(abcd) = 13
       /\ \A i \in 1 .. 11 : abcd[i] = abc[i]
       /\ abcd[12] = d[1] /\ abcd[13] = d[2]
  <2>1. abc \in Seq(Octet) /\ Len(abc) = 11 /\ d \in Seq(Octet) /\ Len(d) = 2
    BY <1>6, <1>10
  <2>2. IsJoin(abcd, abc, 11, d, 2)
    BY <2>1, Joined
  <2> HIDE DEF abcd
  <2>3. QED
    BY <2>2 DEF IsJoin
<1> HIDE DEF abcd
<1>12. /\ abcde \in Seq(Octet) /\ Len(abcde) = 15
       /\ \A i \in 1 .. 13 : abcde[i] = abcd[i]
       /\ abcde[14] = e[1] /\ abcde[15] = e[2]
  <2>1. abcd \in Seq(Octet) /\ Len(abcd) = 13 /\ e \in Seq(Octet) /\ Len(e) = 2
    BY <1>7, <1>11
  <2>2. IsJoin(abcde, abcd, 13, e, 2)
    BY <2>1, Joined
  <2> HIDE DEF abcde
  <2>3. QED
    BY <2>2 DEF IsJoin
<1> HIDE DEF abcde
<1>13. /\ p \in Seq(Octet) /\ Len(p) = 19
       /\ \A i \in 1 .. 15 : p[i] = abcde[i]
       /\ p[16] = f[1] /\ p[17] = f[2] /\ p[18] = f[3] /\ p[19] = f[4]
  <2>1. abcde \in Seq(Octet) /\ Len(abcde) = 15 /\ f \in Seq(Octet) /\ Len(f) = 4
    BY <1>8, <1>12
  <2>2. IsJoin(p, abcde, 15, f, 4)
    BY <2>1, Joined
  <2> HIDE DEF p
  <2>3. QED
    BY <2>2 DEF IsJoin
<1> HIDE DEF p
<1>14. ASSUME NEW i \in 1 .. 8 PROVE p[i] = a[i]
  <2>1. i \in 1 .. 9 /\ i \in 1 .. 11 /\ i \in 1 .. 13 /\ i \in 1 .. 15
    OBVIOUS
  <2>2. p[i] = abcde[i] /\ abcde[i] = abcd[i]
    BY <1>12, <1>13, <2>1
  <2>3. abcd[i] = abc[i] /\ abc[i] = ab[i] /\ ab[i] = a[i]
    BY <1>9, <1>10, <1>11, <2>1
  <2>4. QED
    BY <2>2, <2>3
<1>15. p[9] = b[1] /\ p[10] = c[1] /\ p[11] = c[2]
  <2>1. p[9] = abcd[9] /\ p[10] = abcd[10] /\ p[11] = abcd[11]
    BY <1>12, <1>13
  <2>2. abcd[9] = abc[9] /\ abcd[10] = abc[10] /\ abcd[11] = abc[11]
    <3>1. \A i \in 1 .. 11 : abcd[i] = abc[i]
      BY <1>11
    <3>2. QED
      BY <3>1
  <2>3. abc[9] = ab[9]
    <3>1. \A i \in 1 .. 9 : abc[i] = ab[i]
      BY <1>10
    <3>2. QED
      BY <3>1
  <2>4. QED
    BY <1>9, <1>10, <2>1, <2>2, <2>3
<1>16. p[12] = d[1] /\ p[13] = d[2] /\ p[14] = e[1] /\ p[15] = e[2]
  <2>1. p[12] = abcde[12] /\ p[13] = abcde[13] /\ p[14] = abcde[14] /\ p[15] = abcde[15]
    <3>1. \A i \in 1 .. 15 : p[i] = abcde[i]
      BY <1>13
    <3>2. QED
      BY <3>1
  <2>2. abcde[12] = abcd[12] /\ abcde[13] = abcd[13]
    <3>1. \A i \in 1 .. 13 : abcde[i] = abcd[i]
      BY <1>12
    <3>2. QED
      BY <3>1
  <2>3. QED
    BY <1>11, <1>12, <2>1, <2>2
<1>17. /\ p[1] = a[1] /\ p[2] = a[2] /\ p[3] = a[3] /\ p[4] = a[4]
       /\ p[5] = a[5] /\ p[6] = a[6] /\ p[7] = a[7] /\ p[8] = a[8]
  BY <1>14
<1>18. Holds(p, words, mode, battery, temperature, solar, Value(mask))
  BY <1>3, <1>4, <1>5, <1>6, <1>7, <1>8, <1>13, <1>15, <1>16, <1>17 DEF Holds
<1>19. QED
  BY <1>1, <1>13, <1>18 DEF words, mode, battery, temperature, solar, mask

TelemetryIn(frame) ==
  [sequence                  |-> frame.sequence,
   uptime_ms                 |-> read_u64_le(frame.payload, 0),
   flight_mode               |-> NameOf(FlightModeCode, At(frame.payload, 8)),
   battery_mv                |-> read_u16_le(frame.payload, 9),
   board_temperature_centi_c |-> decode_temperature(read_u16_le(frame.payload, 11)),
   solar_current_ma          |-> read_u16_le(frame.payload, 13),
   latched_fault_mask        |-> read_mask_le(frame.payload, 15)]

TelemetryPayloadStatus(frame) ==
  IF      frame.payload_length # telemetry_payload_size THEN "IncorrectPayloadLength"
  ELSE IF ~IsCode(FlightModeCode, At(frame.payload, 8)) THEN "InvalidFlightMode"
  ELSE IF ~(read_mask_le(frame.payload, 15) \subseteq known_fault_mask)
                                                        THEN "UnknownFaultBits"
  ELSE "Ok"

(* The decoder's answer in terms of the frame.                             *)
LEMMA TelemetryRead ==
  ASSUME NEW b, NEW frame, DecodeStatusOf(b) = "Ok", DecodedFrame(b) = frame
  PROVE  /\ DecodeTelemetryStatus(b) = TelemetryPayloadStatus(frame)
         /\ DecodedTelemetry(b) = TelemetryIn(frame)
  BY DEF DecodeTelemetryStatus, DecodedTelemetry, TelemetryPayloadStatus, TelemetryIn

(* Two octets at an offset are a 16-bit number, and its two bytes.         *)
IsWord(value, low, high) ==
  /\ value = low + 256 * high /\ value \in U16
  /\ value % 256 = low /\ value \div 256 = high

(* The fields of nineteen bytes are of their types, and have these bytes.  *)
LEMMA FieldsRead ==
  ASSUME NEW p \in Seq(Octet), Len(p) = 19
  PROVE  /\ read_u64_le(p, 0) \in [1 .. 4 -> U16]
         /\ IsWord(read_u64_le(p, 0)[1], p[1], p[2])
         /\ IsWord(read_u64_le(p, 0)[2], p[3], p[4])
         /\ IsWord(read_u64_le(p, 0)[3], p[5], p[6])
         /\ IsWord(read_u64_le(p, 0)[4], p[7], p[8])
         /\ IsWord(read_u16_le(p, 9), p[10], p[11])
         /\ IsWord(read_u16_le(p, 11), p[12], p[13])
         /\ IsWord(read_u16_le(p, 13), p[14], p[15])
<1> DEFINE w == read_u64_le(p, 0)
<1>1. \A i \in 1 .. 19 : p[i] \in Octet
  BY ElementOfSeq
<1>2. \A a, b \in Octet : IsWord(a + 256 * b, a, b)
  <2> SUFFICES ASSUME NEW a \in Octet, NEW b \in Octet PROVE IsWord(a + 256 * b, a, b)
    OBVIOUS
  <2>1. /\ a + 256 * b \in Nat /\ a + 256 * b < 65536
        /\ (a + 256 * b) % 256 = a /\ (a + 256 * b) \div 256 = b
    BY TwoBytesRead
  <2>2. a + 256 * b \in U16
    BY <2>1, U16Is
  <2>3. QED
    BY <2>1, <2>2 DEF IsWord
<1>3. /\ IsWord(p[1] + 256 * p[2], p[1], p[2]) /\ IsWord(p[3] + 256 * p[4], p[3], p[4])
      /\ IsWord(p[5] + 256 * p[6], p[5], p[6]) /\ IsWord(p[7] + 256 * p[8], p[7], p[8])
      /\ IsWord(p[10] + 256 * p[11], p[10], p[11])
      /\ IsWord(p[12] + 256 * p[13], p[12], p[13])
      /\ IsWord(p[14] + 256 * p[15], p[14], p[15])
  BY <1>1, <1>2
<1>4. /\ read_u16_le(p, 0) = p[1] + 256 * p[2] /\ read_u16_le(p, 2) = p[3] + 256 * p[4]
      /\ read_u16_le(p, 4) = p[5] + 256 * p[6] /\ read_u16_le(p, 6) = p[7] + 256 * p[8]
      /\ read_u16_le(p, 9) = p[10] + 256 * p[11]
      /\ read_u16_le(p, 11) = p[12] + 256 * p[13]
      /\ read_u16_le(p, 13) = p[14] + 256 * p[15]
  BY DEF read_u16_le, At
<1>5. w = [i \in 1 .. 4 |-> read_u16_le(p, 0 + 2 * (i - 1))]
  BY DEF read_u64_le
<1>6. /\ w[1] = read_u16_le(p, 0) /\ w[2] = read_u16_le(p, 2)
      /\ w[3] = read_u16_le(p, 4) /\ w[4] = read_u16_le(p, 6)
  <2>1. /\ 0 + 2 * (1 - 1) = 0 /\ 0 + 2 * (2 - 1) = 2
        /\ 0 + 2 * (3 - 1) = 4 /\ 0 + 2 * (4 - 1) = 6
    OBVIOUS
  <2>2. QED
    BY <1>5, <2>1
<1>7. w = [i \in 1 .. 4 |-> w[i]]
  BY <1>5
<1> HIDE DEF w
<1>8. /\ IsWord(w[1], p[1], p[2]) /\ IsWord(w[2], p[3], p[4])
      /\ IsWord(w[3], p[5], p[6]) /\ IsWord(w[4], p[7], p[8])
  BY <1>3, <1>4, <1>6
<1>9. w \in [1 .. 4 -> U16]
  <2>1. w[1] \in U16 /\ w[2] \in U16 /\ w[3] \in U16 /\ w[4] \in U16
    BY <1>8 DEF IsWord
  <2>2. \A i \in 1 .. 4 : i = 1 \/ i = 2 \/ i = 3 \/ i = 4
    OBVIOUS
  <2>3. \A i \in 1 .. 4 : w[i] \in U16
    BY <2>1, <2>2
  <2>4. QED
    BY <1>7, <2>3
<1>10. QED
  BY <1>3, <1>4, <1>8, <1>9 DEF w

(* Telemetry is read as it was given.                                      *)
LEMMA TelemetryOut ==
  ASSUME NEW given, IsTelemetry(given)
  PROVE  /\ WellFramed(TelemetryFrame(given))
         /\ TelemetryFrame(given).message_type = "Telemetry"
         /\ TelemetryPayloadStatus(TelemetryFrame(given)) = "Ok"
         /\ TelemetryIn(TelemetryFrame(given)) = given
<1> DEFINE frame == TelemetryFrame(given)
           p == TelemetryPayload(given)
           words == given.uptime_ms
           mode == FlightModeCode[given.flight_mode]
           temperature == encode_temperature(given.board_temperature_centi_c)
           mask == given.latched_fault_mask
<1>1. /\ given.sequence \in Nat /\ FitsU32(given.sequence)
      /\ words \in [1 .. 4 -> U16] /\ given.flight_mode \in DOMAIN FlightModeCode
      /\ given.battery_mv \in U16 /\ given.board_temperature_centi_c \in I16
      /\ given.solar_current_ma \in U16 /\ mask \subseteq known_fault_mask
  BY DEF IsTelemetry
<1>2. /\ temperature \in U16
      /\ decode_temperature(temperature) = given.board_temperature_centi_c
  BY <1>1, Temperature
<1>3. /\ p \in Seq(Octet) /\ Len(p) = 19
      /\ Holds(p, words, mode, given.battery_mv, temperature, given.solar_current_ma,
               Value(mask))
  BY TelemetryPayloadIs
<1>4. frame = MakeFrame("Telemetry", given.sequence, p)
  BY DEF TelemetryFrame, TelemetryPayload
<1> HIDE DEF p, temperature, mode
<1>5. /\ WellFramed(frame) /\ frame.message_type = "Telemetry"
      /\ frame.sequence = given.sequence /\ frame.payload = p
      /\ frame.payload_length = Len(p)
  <2>1. "Telemetry" \in MessageType
    BY DEF MessageType
  <2>2. /\ given.sequence \in Nat /\ FitsU32(given.sequence)
        /\ p \in Seq(Octet) /\ Len(p) \in Nat /\ Len(p) <= 64
    BY <1>1, <1>3
  <2>3. QED
    BY <1>4, <2>1, <2>2, Made
<1> HIDE DEF frame
<1>6. /\ read_u64_le(p, 0) \in [1 .. 4 -> U16]
       /\ IsWord(read_u64_le(p, 0)[1], p[1], p[2])
       /\ IsWord(read_u64_le(p, 0)[2], p[3], p[4])
       /\ IsWord(read_u64_le(p, 0)[3], p[5], p[6])
       /\ IsWord(read_u64_le(p, 0)[4], p[7], p[8])
       /\ IsWord(read_u16_le(p, 9), p[10], p[11])
       /\ IsWord(read_u16_le(p, 11), p[12], p[13])
       /\ IsWord(read_u16_le(p, 13), p[14], p[15])
  <2>1. p \in Seq(Octet) /\ Len(p) = 19
    BY <1>3
  <2>2. QED
    BY <2>1, FieldsRead
<1>7. read_u64_le(p, 0) = words
  <2> DEFINE w == read_u64_le(p, 0)
  <2>1. /\ w \in [1 .. 4 -> U16]
        /\ w[1] = p[1] + 256 * p[2] /\ w[2] = p[3] + 256 * p[4]
        /\ w[3] = p[5] + 256 * p[6] /\ w[4] = p[7] + 256 * p[8]
    BY <1>6 DEF IsWord
  <2>2. words[1] \in U16 /\ words[2] \in U16 /\ words[3] \in U16 /\ words[4] \in U16
    BY <1>1
  <2>3. /\ (words[1] % 256) + 256 * (words[1] \div 256) = words[1]
        /\ (words[2] % 256) + 256 * (words[2] \div 256) = words[2]
        /\ (words[3] % 256) + 256 * (words[3] \div 256) = words[3]
        /\ (words[4] % 256) + 256 * (words[4] \div 256) = words[4]
    BY <2>2, WordIs
  <2> HIDE DEF w
  <2>4. w[1] = words[1] /\ w[2] = words[2] /\ w[3] = words[3] /\ w[4] = words[4]
    BY <1>3, <2>1, <2>3 DEF Holds
  <2>5. \A i \in 1 .. 4 : i = 1 \/ i = 2 \/ i = 3 \/ i = 4
    OBVIOUS
  <2>6. \A i \in 1 .. 4 : w[i] = words[i]
    BY <2>4, <2>5
  <2>7. w = words
    BY <1>1, <2>1, <2>6
  <2>8. QED
    BY <2>7 DEF w
<1>8. /\ IsCode(FlightModeCode, At(p, 8))
      /\ NameOf(FlightModeCode, At(p, 8)) = given.flight_mode
  <2>1. At(p, 8) = mode
    BY <1>3 DEF Holds, At
  <2>2. QED
    BY <1>1, <2>1, Tables DEF OneToOne, mode
<1>9. /\ read_u16_le(p, 9) = given.battery_mv
      /\ read_u16_le(p, 11) = temperature
      /\ read_u16_le(p, 13) = given.solar_current_ma
  <2>1. /\ read_u16_le(p, 9) = p[10] + 256 * p[11]
        /\ read_u16_le(p, 11) = p[12] + 256 * p[13]
        /\ read_u16_le(p, 13) = p[14] + 256 * p[15]
    BY <1>6 DEF IsWord
  <2>2. \A value \in U16 : (value % 256) + 256 * (value \div 256) = value
    BY WordIs
  <2>3. /\ p[10] = given.battery_mv % 256 /\ p[11] = given.battery_mv \div 256
        /\ p[12] = temperature % 256 /\ p[13] = temperature \div 256
        /\ p[14] = given.solar_current_ma % 256 /\ p[15] = given.solar_current_ma \div 256
    BY <1>3 DEF Holds
  <2>4. QED
    BY <1>1, <1>2, <2>1, <2>2, <2>3
<1>10. read_mask_le(p, 15) = mask
  <2>1. p[16] = Value(mask) /\ p[17] = 0 /\ p[18] = 0 /\ p[19] = 0
    BY <1>3 DEF Holds
  <2>2. read_mask_le(p, 15) = Bits(p[16], 8)
    BY <1>3, <2>1, MaskRead
  <2>3. QED
    BY <1>1, <2>1, <2>2, KnownMask
<1>11. TelemetryPayloadStatus(frame) = "Ok"
  BY <1>1, <1>3, <1>5, <1>8, <1>10 DEF TelemetryPayloadStatus, telemetry_payload_size
<1>12. TelemetryIn(frame) =
         [sequence |-> given.sequence, uptime_ms |-> words,
          flight_mode |-> given.flight_mode, battery_mv |-> given.battery_mv,
          board_temperature_centi_c |-> given.board_temperature_centi_c,
          solar_current_ma |-> given.solar_current_ma, latched_fault_mask |-> mask]
  BY <1>2, <1>5, <1>7, <1>8, <1>9, <1>10 DEF TelemetryIn
<1>13. TelemetryIn(frame) = given
  BY <1>12 DEF IsTelemetry
<1>14. QED
  BY <1>5, <1>11, <1>13 DEF frame

(* A frame accepted as telemetry is the frame of what is read from it.     *)
LEMMA TelemetryBack ==
  ASSUME NEW frame, WellFramed(frame), frame.message_type = "Telemetry",
         TelemetryPayloadStatus(frame) = "Ok"
  PROVE  TelemetryFrame(TelemetryIn(frame)) = frame /\ IsTelemetry(TelemetryIn(frame))
<1> DEFINE p == frame.payload
           given == TelemetryIn(frame)
           q == TelemetryPayload(given)
           w == read_u64_le(p, 0)
           battery == read_u16_le(p, 9)
           temperature == read_u16_le(p, 11)
           solar == read_u16_le(p, 13)
           mask == read_mask_le(p, 15)
<1>1. /\ frame.sequence \in Nat /\ FitsU32(frame.sequence)
      /\ p \in Seq(Octet) /\ Len(p) = frame.payload_length
  BY FramedFields DEF FitsU32, TopByte
<1>2. /\ frame.payload_length = 19 /\ IsCode(FlightModeCode, At(p, 8))
      /\ mask \subseteq known_fault_mask
  BY DEF TelemetryPayloadStatus, telemetry_payload_size
<1>3. given = [sequence |-> frame.sequence, uptime_ms |-> w,
               flight_mode |-> NameOf(FlightModeCode, At(p, 8)), battery_mv |-> battery,
               board_temperature_centi_c |-> decode_temperature(temperature),
               solar_current_ma |-> solar, latched_fault_mask |-> mask]
  BY DEF TelemetryIn
<1> HIDE DEF p, given, w, battery, temperature, solar, mask
<1>4. /\ w \in [1 .. 4 -> U16]
      /\ IsWord(w[1], p[1], p[2]) /\ IsWord(w[2], p[3], p[4])
      /\ IsWord(w[3], p[5], p[6]) /\ IsWord(w[4], p[7], p[8])
      /\ IsWord(battery, p[10], p[11]) /\ IsWord(temperature, p[12], p[13])
      /\ IsWord(solar, p[14], p[15])
  <2>1. p \in Seq(Octet) /\ Len(p) = 19
    BY <1>1, <1>2
  <2>2. QED
    BY <2>1, FieldsRead DEF w, battery, temperature, solar
<1>5. battery \in U16 /\ temperature \in U16 /\ solar \in U16
  BY <1>4 DEF IsWord
<1>6. /\ decode_temperature(temperature) \in I16
      /\ encode_temperature(decode_temperature(temperature)) = temperature
  BY <1>5, Temperature
<1>7. /\ NameOf(FlightModeCode, At(p, 8)) \in DOMAIN FlightModeCode
      /\ FlightModeCode[NameOf(FlightModeCode, At(p, 8))] = p[9]
  <2>1. At(p, 8) = p[9]
    BY DEF At
  <2>2. QED
    BY <1>2, <2>1, Tables DEF OneToOne
<1>8. IsTelemetry(given)
  BY <1>1, <1>2, <1>3, <1>4, <1>5, <1>6, <1>7 DEF IsTelemetry
<1>9. /\ given.sequence = frame.sequence /\ given.uptime_ms = w
      /\ FlightModeCode[given.flight_mode] = p[9] /\ given.battery_mv = battery
      /\ encode_temperature(given.board_temperature_centi_c) = temperature
      /\ given.solar_current_ma = solar /\ given.latched_fault_mask = mask
  BY <1>3, <1>6, <1>7
<1>10. p[17] = 0 /\ p[18] = 0 /\ p[19] = 0 /\ Value(mask) = p[16]
  BY <1>1, <1>2, MaskRead DEF mask
<1>11. /\ q \in Seq(Octet) /\ Len(q) = 19
       /\ Holds(q, w, p[9], battery, temperature, solar, Value(mask))
  <2>1. /\ q \in Seq(Octet) /\ Len(q) = 19
        /\ Holds(q, given.uptime_ms, FlightModeCode[given.flight_mode],
                 given.battery_mv, encode_temperature(given.board_temperature_centi_c),
                 given.solar_current_ma, Value(given.latched_fault_mask))
    BY <1>8, TelemetryPayloadIs
  <2>2. QED
    BY <1>9, <2>1
<1> HIDE DEF q
<1>12. /\ q[1] = p[1] /\ q[2] = p[2] /\ q[3] = p[3] /\ q[4] = p[4] /\ q[5] = p[5]
       /\ q[6] = p[6] /\ q[7] = p[7] /\ q[8] = p[8] /\ q[9] = p[9] /\ q[10] = p[10]
       /\ q[11] = p[11] /\ q[12] = p[12] /\ q[13] = p[13] /\ q[14] = p[14]
       /\ q[15] = p[15] /\ q[16] = p[16] /\ q[17] = p[17] /\ q[18] = p[18]
       /\ q[19] = p[19]
  BY <1>4, <1>10, <1>11 DEF Holds, IsWord
<1>13. \A i \in 1 .. 19 :
         \/ i = 1 \/ i = 2 \/ i = 3 \/ i = 4 \/ i = 5 \/ i = 6 \/ i = 7
         \/ i = 8 \/ i = 9 \/ i = 10 \/ i = 11 \/ i = 12 \/ i = 13 \/ i = 14
         \/ i = 15 \/ i = 16 \/ i = 17 \/ i = 18 \/ i = 19
  OBVIOUS
<1>14. q = p
  <2>1. \A i \in 1 .. Len(q) : q[i] = p[i]
    BY <1>11, <1>12, <1>13
  <2>2. p \in Seq(Octet) /\ q \in Seq(Octet) /\ Len(q) = Len(p)
    BY <1>1, <1>2, <1>11
  <2>3. QED
    BY <2>1, <2>2, SeqEqual
<1>15. TelemetryFrame(given) = MakeFrame("Telemetry", given.sequence, q)
  BY DEF TelemetryFrame, TelemetryPayload, q
<1>16. TelemetryFrame(given) = MakeFrame(frame.message_type, frame.sequence, frame.payload)
  BY <1>9, <1>14, <1>15 DEF p
<1>17. TelemetryFrame(given) = frame
  BY <1>16, Remade
<1>18. QED
  BY <1>8, <1>17 DEF given

-----------------------------------------------------------------------------
(* The exchange.                                                           *)

(* What was sent is the frame of the message an encoder accepted, or a     *)
(* foreign frame that is valid as one.                                     *)
Origin(frame) ==
  /\ Encodable(frame) /\ bytes = Encode(frame)
  /\ kind \in {"Command", "CommandAck", "Telemetry", "Foreign"}
  /\ kind = "Command"    => IsCommand(message) /\ frame = CommandFrame(message)
  /\ kind = "CommandAck" => IsAck(message) /\ frame = AckFrame(message)
  /\ kind = "Telemetry"  => IsTelemetry(message) /\ frame = TelemetryFrame(message)

(* Nobody has taken anything before a frame is received.                   *)
Untaken == stage # "heard" => flight = Nothing /\ ground = Nothing

(* A frame is under way from when it is sent.                              *)
Carried ==
  /\ stage \in {"idle", "refused", "sent", "heard"}
  /\ stage \in {"idle", "refused"} => bytes = <<>>
  /\ stage \in {"sent", "heard"} => \E frame : Origin(frame)

(* What each receiver took is what its decoder made of the bytes.          *)
Taken ==
  stage = "heard" =>
    /\ flight = IF DecodeCommandStatus(bytes) = "Ok" THEN DecodedCommand(bytes) ELSE Nothing
    /\ ground = IF PrintStatus(bytes) = "Ok" THEN Printed(bytes) ELSE Nothing

(* There is a status of the encoder and one of each decoder.               *)
Verdicts == DOMAIN status = {"encoder", "flight", "ground"}

IInv == Untaken /\ Carried /\ Taken /\ Verdicts

(* A command that its encoder accepts has an enumerator of the type.       *)
LEMMA CommandTyped ==
  ASSUME NEW given \in CommandMessages, EncodeCommandStatus(given) = "Ok"
  PROVE  IsCommand(given)
<1>1. /\ given \in [sequence : Nat, command : STRING, period_ms : Nat]
      /\ FitsU32(given.sequence) /\ FitsU32(given.period_ms)
  BY MessagesAssumption
<1>2. given.command \in DOMAIN CommandCode
  BY DEF EncodeCommandStatus
<1>3. given \in [sequence : Nat, command : DOMAIN CommandCode, period_ms : Nat]
  BY <1>1, <1>2
<1>4. QED
  BY <1>1, <1>3 DEF IsCommand

(* So has an acknowledgement, twice.                                       *)
LEMMA AckTyped ==
  ASSUME NEW given \in AckMessages, EncodeAckStatus(given) = "Ok"
  PROVE  IsAck(given)
<1>1. /\ given \in [sequence : Nat, command : STRING, status : STRING]
      /\ FitsU32(given.sequence)
  BY MessagesAssumption
<1>2. given.command \in DOMAIN CommandCode /\ given.status \in DOMAIN AckStatusCode
  BY DEF EncodeAckStatus
<1>3. given \in [sequence : Nat, command : DOMAIN CommandCode, status : DOMAIN AckStatusCode]
  BY <1>1, <1>2
<1>4. QED
  BY <1>1, <1>3 DEF IsAck

(* And telemetry has known fault bits only.                                *)
LEMMA TelemetryTyped ==
  ASSUME NEW given \in TelemetryMessages, EncodeTelemetryStatus(given) = "Ok"
  PROVE  IsTelemetry(given)
<1>1. /\ given \in [sequence : Nat, uptime_ms : [1 .. 4 -> U16], flight_mode : STRING,
                    battery_mv : U16, board_temperature_centi_c : I16,
                    solar_current_ma : U16, latched_fault_mask : SUBSET (0 .. 31)]
      /\ FitsU32(given.sequence)
  BY MessagesAssumption
<1>2. /\ given.flight_mode \in DOMAIN FlightModeCode
      /\ given.latched_fault_mask \subseteq known_fault_mask
  BY DEF EncodeTelemetryStatus
<1>3. given \in [sequence : Nat, uptime_ms : [1 .. 4 -> U16],
                flight_mode : DOMAIN FlightModeCode, battery_mv : U16,
                board_temperature_centi_c : I16, solar_current_ma : U16,
                latched_fault_mask : SUBSET known_fault_mask]
  BY <1>1, <1>2
<1>4. QED
  BY <1>1, <1>3 DEF IsTelemetry

(* A foreign frame has the fields encode() needs.                          *)
LEMMA ForeignTyped == ASSUME NEW frame \in ForeignFrames PROVE Encodable(frame)
<1>1. /\ frame \in [version : Octet, message_type : STRING, payload_length : Nat,
                    sequence : Nat, payload : Seq(Octet)]
      /\ FitsU32(frame.sequence)
      /\ EncodeStatusOf(frame) = "Ok" /\ frame.payload_length <= Len(frame.payload)
  BY ForeignAssumption
<1>2. frame.message_type \in MessageType
  BY <1>1 DEF EncodeStatusOf
<1>3. frame \in [version : Octet, message_type : MessageType, payload_length : Nat,
                sequence : Nat, payload : Seq(Octet)]
  BY <1>1, <1>2
<1>4. QED
  BY <1>1, <1>3 DEF Encodable, FitsU32, TopByte

(* An encoder that accepts sends the frame of what it was given.           *)
LEMMA ComposeIInv ==
  ASSUME IInv, NEW encoder, NEW given, NEW verdict, NEW frame,
         Compose(encoder, given, verdict, frame),
         verdict = "Ok" =>
           /\ Encodable(frame)
           /\ encoder \in {"Command", "CommandAck", "Telemetry", "Foreign"}
           /\ encoder = "Command"    => IsCommand(given) /\ frame = CommandFrame(given)
           /\ encoder = "CommandAck" => IsAck(given) /\ frame = AckFrame(given)
           /\ encoder = "Telemetry"  => IsTelemetry(given) /\ frame = TelemetryFrame(given)
  PROVE  IInv'
<1>1. Verdicts'
  BY DEF Compose, IInv, Verdicts
<1>2. /\ stage = "idle" /\ bytes = <<>> /\ flight = Nothing /\ ground = Nothing
      /\ kind' = encoder /\ message' = given /\ UNCHANGED <<flight, ground>>
  BY DEF Compose, IInv, Carried, Untaken
<1>3. CASE verdict = "Ok"
  <2>1. stage' = "sent" /\ bytes' = Encode(frame)
    BY <1>3 DEF Compose
  <2>2. Origin(frame)'
    BY <1>2, <1>3, <2>1 DEF Origin
  <2>3. Carried'
    BY <2>1, <2>2 DEF Carried
  <2>4. Untaken' /\ Taken'
    BY <1>2, <2>1 DEF Untaken, Taken, Nothing
  <2>5. QED
    BY <1>1, <2>3, <2>4 DEF IInv
<1>4. CASE verdict # "Ok"
  <2>1. stage' = "refused" /\ bytes' = bytes
    BY <1>4 DEF Compose
  <2>2. Carried' /\ Untaken' /\ Taken'
    BY <1>2, <2>1 DEF Carried, Untaken, Taken, Nothing
  <2>3. QED
    BY <1>1, <2>2 DEF IInv
<1>5. QED
  BY <1>3, <1>4

(* Every step keeps the invariant.                                         *)
LEMMA NextIInv == IInv /\ [Next]_vars => IInv'
<1> SUFFICES ASSUME IInv, [Next]_vars PROVE IInv'
  OBVIOUS
<1>1. CASE SendCommand
  <2>1. PICK given \in CommandMessages :
          Compose("Command", given, EncodeCommandStatus(given), CommandFrame(given))
    BY <1>1 DEF SendCommand
  <2>2. EncodeCommandStatus(given) = "Ok" =>
          IsCommand(given) /\ Encodable(CommandFrame(given))
    BY CommandTyped, CommandOut DEF WellFramed
  <2>3. QED
    BY <2>1, <2>2, ComposeIInv
<1>2. CASE SendAck
  <2>1. PICK given \in AckMessages :
          Compose("CommandAck", given, EncodeAckStatus(given), AckFrame(given))
    BY <1>2 DEF SendAck
  <2>2. EncodeAckStatus(given) = "Ok" => IsAck(given) /\ Encodable(AckFrame(given))
    BY AckTyped, AckOut DEF WellFramed
  <2>3. QED
    BY <2>1, <2>2, ComposeIInv
<1>3. CASE SendTelemetry
  <2>1. PICK given \in TelemetryMessages :
          Compose("Telemetry", given, EncodeTelemetryStatus(given), TelemetryFrame(given))
    BY <1>3 DEF SendTelemetry
  <2>2. EncodeTelemetryStatus(given) = "Ok" =>
          IsTelemetry(given) /\ Encodable(TelemetryFrame(given))
    BY TelemetryTyped, TelemetryOut DEF WellFramed
  <2>3. QED
    BY <2>1, <2>2, ComposeIInv
<1>4. CASE SendForeign
  <2>1. PICK frame \in ForeignFrames : Compose("Foreign", Nothing, "Ok", frame)
    BY <1>4 DEF SendForeign
  <2>2. Encodable(frame)
    BY ForeignTyped
  <2>3. QED
    BY <2>1, <2>2, ComposeIInv
<1>5. CASE Receive
  <2>1. /\ stage = "sent" /\ stage' = "heard" /\ UNCHANGED <<kind, message, bytes>>
        /\ status' = [status EXCEPT !.flight = DecodeCommandStatus(bytes),
                                    !.ground = PrintStatus(bytes)]
        /\ flight' = IF status'.flight = "Ok" THEN DecodedCommand(bytes) ELSE Nothing
        /\ ground' = IF status'.ground = "Ok" THEN Printed(bytes) ELSE Nothing
    BY <1>5 DEF Receive
  <2>2. Carried'
    BY <2>1 DEF IInv, Carried, Origin
  <2>3. Untaken'
    BY <2>1 DEF Untaken
  <2>4. Verdicts'
    BY <2>1 DEF IInv, Verdicts
  <2>5. /\ status'.flight = DecodeCommandStatus(bytes)
        /\ status'.ground = PrintStatus(bytes)
    BY <2>1 DEF IInv, Verdicts
  <2>6. Taken'
    BY <2>1, <2>5 DEF Taken, Nothing
  <2>7. QED
    BY <2>2, <2>3, <2>4, <2>6 DEF IInv
<1>6. CASE UNCHANGED vars
  BY <1>6 DEF vars, IInv, Carried, Origin, Untaken, Taken, Verdicts
<1>7. QED
  BY <1>1, <1>2, <1>3, <1>4, <1>5, <1>6 DEF Next

(* The invariant holds of every behaviour.                                 *)
THEOREM Invariance == Spec => []IInv
<1>1. Init => IInv
  BY DEF Init, IInv, Carried, Untaken, Taken, Verdicts
<1>2. QED
  BY <1>1, NextIInv, PTL DEF Spec

(* What decode() made of the bytes: the frame that was sent, around the    *)
(* payload that was meant.                                                 *)
Heard(frame) ==
  /\ WellFramed(frame) /\ bytes = Encode(frame)
  /\ DecodeStatusOf(bytes) = "Ok" /\ DecodedFrame(bytes) = frame
  /\ kind \in {"Command", "CommandAck", "Telemetry", "Foreign"}
  /\ kind = "Command"    => IsCommand(message) /\ frame = CommandFrame(message)
  /\ kind = "CommandAck" => IsAck(message) /\ frame = AckFrame(message)
  /\ kind = "Telemetry"  => IsTelemetry(message) /\ frame = TelemetryFrame(message)

(* A frame that was sent is heard.                                         *)
LEMMA SentIsHeard == IInv /\ stage = "heard" => \E frame : Heard(frame)
<1> SUFFICES ASSUME IInv, stage = "heard" PROVE \E frame : Heard(frame)
  OBVIOUS
<1>1. PICK frame : Origin(frame)
  BY DEF IInv, Carried
<1>2. /\ Encodable(frame) /\ bytes = Encode(frame)
      /\ kind \in {"Command", "CommandAck", "Telemetry", "Foreign"}
      /\ kind = "Command"    => IsCommand(message) /\ frame = CommandFrame(message)
      /\ kind = "CommandAck" => IsAck(message) /\ frame = AckFrame(message)
      /\ kind = "Telemetry"  => IsTelemetry(message) /\ frame = TelemetryFrame(message)
  BY <1>1 DEF Origin
<1>3. /\ DecodeStatusOf(bytes) = "Ok" /\ DecodedFrame(bytes) = Received(frame)
      /\ WellFramed(Received(frame)) /\ bytes = Encode(Received(frame))
      /\ WellFramed(frame) => Received(frame) = frame
  BY <1>2, Transmitted
<1>4. kind \in {"Command", "CommandAck", "Telemetry"} => WellFramed(frame)
  BY <1>2, CommandOut, AckOut, TelemetryOut
<1>5. Heard(Received(frame))
  BY <1>2, <1>3, <1>4 DEF Heard
<1>6. QED
  BY <1>5

(* What the receivers take of it, by its type.                             *)
LEMMA Answers ==
  ASSUME IInv, stage = "heard", NEW frame, Heard(frame)
  PROVE  /\ frame.message_type \in {"Command", "CommandAck", "Telemetry"}
         /\ frame.message_type = "Command" =>
              /\ flight = IF CommandPayloadStatus(frame) = "Ok"
                          THEN CommandIn(frame) ELSE Nothing
              /\ ground = Nothing
         /\ frame.message_type = "CommandAck" =>
              /\ ground = IF AckPayloadStatus(frame) = "Ok" THEN AckIn(frame) ELSE Nothing
              /\ flight = Nothing
         /\ frame.message_type = "Telemetry" =>
              /\ ground = IF TelemetryPayloadStatus(frame) = "Ok"
                          THEN TelemetryIn(frame) ELSE Nothing
              /\ flight = Nothing
<1>1. /\ DecodeStatusOf(bytes) = "Ok" /\ DecodedFrame(bytes) = frame
      /\ frame.message_type \in MessageType
  BY FramedFields DEF Heard
<1>2. /\ flight = IF DecodeCommandStatus(bytes) = "Ok" THEN DecodedCommand(bytes) ELSE Nothing
      /\ ground = IF PrintStatus(bytes) = "Ok" THEN Printed(bytes) ELSE Nothing
  BY DEF IInv, Taken
<1>3. /\ DecodeCommandStatus(bytes) = IF frame.message_type # "Command"
                                      THEN "IncorrectMessageType"
                                      ELSE CommandPayloadStatus(frame)
      /\ DecodedCommand(bytes) = CommandIn(frame)
      /\ DecodeAckStatus(bytes) = IF frame.message_type # "CommandAck"
                                  THEN "IncorrectMessageType"
                                  ELSE AckPayloadStatus(frame)
      /\ DecodedAck(bytes) = AckIn(frame)
      /\ DecodeTelemetryStatus(bytes) = TelemetryPayloadStatus(frame)
      /\ DecodedTelemetry(bytes) = TelemetryIn(frame)
  BY <1>1, CommandRead, AckRead, TelemetryRead
<1>4. CASE frame.message_type = "Command"
  <2>1. PrintStatus(bytes) = "UnexpectedCommand"
    BY <1>1, <1>4 DEF PrintStatus
  <2>2. QED
    BY <1>2, <1>3, <1>4, <2>1
<1>5. CASE frame.message_type = "CommandAck"
  <2>1. PrintStatus(bytes) = AckPayloadStatus(frame) /\ Printed(bytes) = AckIn(frame)
    BY <1>1, <1>3, <1>5 DEF PrintStatus, Printed
  <2>2. QED
    BY <1>2, <1>3, <1>5, <2>1
<1>6. CASE frame.message_type = "Telemetry"
  <2>1. /\ PrintStatus(bytes) = TelemetryPayloadStatus(frame)
        /\ Printed(bytes) = TelemetryIn(frame)
    BY <1>1, <1>3, <1>6 DEF PrintStatus, Printed
  <2>2. QED
    BY <1>2, <1>3, <1>6, <2>1
<1>7. frame.message_type \in {"Command", "CommandAck", "Telemetry"}
  BY <1>1 DEF MessageType
<1>8. QED
  BY <1>4, <1>5, <1>6, <1>7

-----------------------------------------------------------------------------
(* Whatever valid frame arrives, every decoded field has its C++ type.     *)
THEOREM TypeCorrect == Spec => []TypeOK
<1>1. IInv => TypeOK
  <2> SUFFICES ASSUME IInv PROVE TypeOK
    OBVIOUS
  <2>1. stage \in {"idle", "refused", "sent", "heard"}
    BY DEF IInv, Carried
  <2>2. bytes \in Seq(Octet) /\ Len(bytes) <= maximum_frame_size
    <3>1. CASE stage \in {"idle", "refused"}
      <4>1. bytes = <<>>
        BY <3>1 DEF IInv, Carried
      <4>2. bytes \in Seq(Octet) /\ Len(bytes) = 0
        BY <4>1, EmptySeq
      <4>3. QED
        BY <4>2 DEF maximum_frame_size
    <3>2. CASE stage \in {"sent", "heard"}
      <4>1. PICK frame : Encodable(frame) /\ bytes = Encode(frame)
        BY <3>2 DEF IInv, Carried, Origin
      <4>2. QED
        BY <4>1, Transmitted
    <3>3. QED
      BY <2>1, <3>1, <3>2
  <2>3. CASE stage # "heard"
    <3>1. flight = Nothing /\ ground = Nothing
      BY <2>3 DEF IInv, Untaken
    <3>2. QED
      BY <2>1, <2>2, <3>1 DEF TypeOK
  <2>4. CASE stage = "heard"
    <3>1. PICK frame : Heard(frame)
      BY <2>4, SentIsHeard
    <3>2. WellFramed(frame)
      BY <3>1 DEF Heard
    <3>3. flight # Nothing =>
            flight.command \in DOMAIN CommandCode /\ flight.period_ms \in Nat
      <4> SUFFICES ASSUME flight # Nothing
                   PROVE  flight.command \in DOMAIN CommandCode /\ flight.period_ms \in Nat
        OBVIOUS
      <4>1. /\ frame.message_type = "Command" /\ CommandPayloadStatus(frame) = "Ok"
            /\ flight = CommandIn(frame)
        BY <2>4, <3>1, Answers
      <4>2. QED
        BY <3>2, <4>1, CommandBack
    <3>4. ground # Nothing /\ "status" \notin DOMAIN ground => IsTelemetry(ground)
      <4> SUFFICES ASSUME ground # Nothing, "status" \notin DOMAIN ground
                   PROVE  IsTelemetry(ground)
        OBVIOUS
      <4>1. ground # AckIn(frame)
        BY DEF AckIn
      <4>2. /\ frame.message_type = "Telemetry" /\ TelemetryPayloadStatus(frame) = "Ok"
            /\ ground = TelemetryIn(frame)
        BY <2>4, <3>1, <4>1, Answers
      <4>3. QED
        BY <3>2, <4>2, TelemetryBack
    <3>5. QED
      BY <2>1, <2>2, <3>3, <3>4 DEF TypeOK, IsTelemetry
  <2>5. QED
    BY <2>3, <2>4
<1>2. QED
  BY <1>1, Invariance, PTL

(* A message an encoder accepts reaches its receiver field for field, and  *)
(* the other receiver takes it for nothing.                                *)
THEOREM MessagesArrive == Spec => []RoundTrip
<1>1. IInv => RoundTrip
  <2> SUFFICES ASSUME IInv, stage = "heard"
               PROVE  /\ kind = "Command" =>
                           /\ flight = IF message.command = "SetTelemetryPeriod" THEN message
                                       ELSE [message EXCEPT !.period_ms = 0]
                           /\ ground = Nothing
                      /\ kind \in {"CommandAck", "Telemetry"} =>
                           ground = message /\ flight = Nothing
    BY DEF RoundTrip
  <2>1. PICK frame : Heard(frame)
    BY SentIsHeard
  <2>2. CASE kind = "Command"
    <3>1. IsCommand(message) /\ frame = CommandFrame(message)
      BY <2>1, <2>2 DEF Heard
    <3>2. /\ frame.message_type = "Command" /\ CommandPayloadStatus(frame) = "Ok"
          /\ CommandIn(frame) = IF message.command = "SetTelemetryPeriod" THEN message
                                ELSE [message EXCEPT !.period_ms = 0]
      BY <3>1, CommandOut
    <3>3. flight = CommandIn(frame) /\ ground = Nothing
      BY <2>1, <3>2, Answers
    <3>4. QED
      BY <2>2, <3>2, <3>3
  <2>3. CASE kind = "CommandAck"
    <3>1. IsAck(message) /\ frame = AckFrame(message)
      BY <2>1, <2>3 DEF Heard
    <3>2. /\ frame.message_type = "CommandAck" /\ AckPayloadStatus(frame) = "Ok"
          /\ AckIn(frame) = message
      BY <3>1, AckOut
    <3>3. QED
      BY <2>1, <2>3, <3>2, Answers
  <2>4. CASE kind = "Telemetry"
    <3>1. IsTelemetry(message) /\ frame = TelemetryFrame(message)
      BY <2>1, <2>4 DEF Heard
    <3>2. /\ frame.message_type = "Telemetry" /\ TelemetryPayloadStatus(frame) = "Ok"
          /\ TelemetryIn(frame) = message
      BY <3>1, TelemetryOut
    <3>3. QED
      BY <2>1, <2>4, <3>2, Answers
  <2>5. QED
    BY <2>2, <2>3, <2>4
<1>2. QED
  BY <1>1, Invariance, PTL

(* Whatever valid frame arrives, what a receiver accepts encodes back to   *)
(* the very bytes it was read from.                                        *)
THEOREM NothingElseAccepted == Spec => []OnlyOurOwn
<1>1. IInv => OnlyOurOwn
  <2> SUFFICES ASSUME IInv, stage = "heard"
               PROVE  /\ flight # Nothing => bytes = EncodeCommand(flight)
                      /\ ground # Nothing =>
                           bytes = IF "status" \in DOMAIN ground THEN EncodeAck(ground)
                                   ELSE EncodeTelemetry(ground)
    BY DEF OnlyOurOwn
  <2>1. PICK frame : Heard(frame)
    BY SentIsHeard
  <2>2. WellFramed(frame) /\ bytes = Encode(frame)
    BY <2>1 DEF Heard
  <2>3. CASE flight # Nothing
    <3>1. /\ frame.message_type = "Command" /\ CommandPayloadStatus(frame) = "Ok"
          /\ flight = CommandIn(frame) /\ ground = Nothing
      BY <2>1, <2>3, Answers
    <3>2. CommandFrame(flight) = frame
      BY <2>2, <3>1, CommandBack
    <3>3. bytes = EncodeCommand(flight)
      BY <2>2, <3>2 DEF EncodeCommand
    <3>4. QED
      BY <3>1, <3>3
  <2>4. CASE flight = Nothing /\ ground # Nothing
    <3>1. \/ /\ frame.message_type = "CommandAck" /\ AckPayloadStatus(frame) = "Ok"
             /\ ground = AckIn(frame)
          \/ /\ frame.message_type = "Telemetry" /\ TelemetryPayloadStatus(frame) = "Ok"
             /\ ground = TelemetryIn(frame)
      BY <2>1, <2>4, Answers
    <3>2. CASE /\ frame.message_type = "CommandAck" /\ AckPayloadStatus(frame) = "Ok"
               /\ ground = AckIn(frame)
      <4>1. "status" \in DOMAIN ground
        BY <3>2 DEF AckIn
      <4>2. AckFrame(ground) = frame
        BY <2>2, <3>2, AckBack
      <4>3. QED
        BY <2>2, <2>4, <4>1, <4>2 DEF EncodeAck
    <3>3. CASE /\ frame.message_type = "Telemetry" /\ TelemetryPayloadStatus(frame) = "Ok"
               /\ ground = TelemetryIn(frame)
      <4>1. "status" \notin DOMAIN ground
        BY <3>3 DEF TelemetryIn
      <4>2. TelemetryFrame(ground) = frame
        BY <2>2, <3>3, TelemetryBack
      <4>3. QED
        BY <2>2, <2>4, <4>1, <4>2 DEF EncodeTelemetry
    <3>4. QED
      BY <3>1, <3>2, <3>3
  <2>5. QED
    BY <2>3, <2>4
<1>2. QED
  BY <1>1, Invariance, PTL
=============================================================================
