----------------------------- MODULE FrameCodec -----------------------------
(***************************************************************************)
(* The binary frame of frame_codec.hpp: crc16_ccitt_false(), encode() and  *)
(* decode().  They are pure functions, so they are operators here.         *)
(*                                                                         *)
(*   A5 5A | version | type | length LE16 | sequence LE32 | payload | CRC  *)
(*                                                                         *)
(* A frame's payload holds the first bytes of the C++ array; the bytes     *)
(* after payload_length are never read.  A 16-bit shift register is the    *)
(* set of the positions of its 1 bits, so that exclusive or is symmetric   *)
(* difference.                                                             *)
(***************************************************************************)
EXTENDS Integers, Sequences

protocol_version     == 1
maximum_payload_size == 64
maximum_frame_size   == 76
minimum_frame_size   == 12

Octet == 0 .. 255

MessageType == {"Telemetry", "Command", "CommandAck"}

EncodeStatus == {"Ok", "UnsupportedVersion", "UnsupportedMessageType",
                 "PayloadTooLarge"}

DecodeStatus == EncodeStatus \cup
                {"Truncated", "BadSync", "LengthMismatch", "CrcMismatch"}

-----------------------------------------------------------------------------
(* The checksum.                                                           *)

Xor(a, b) == (a \ b) \cup (b \ a)

Bits(value, width) == {i \in 0 .. (width - 1) : (value \div 2^i) % 2 = 1}

Bit(bits, i) == IF i \in bits THEN 1 ELSE 0

Nibble(bits, i) ==
  Bit(bits, i) + 2 * Bit(bits, i + 1) + 4 * Bit(bits, i + 2) + 8 * Bit(bits, i + 3)

(* The number whose 1 bits are at those of the positions that 16 bits have.*)
Value(bits) ==
  Nibble(bits, 0) + 16 * Nibble(bits, 4) + 256 * Nibble(bits, 8) + 4096 * Nibble(bits, 12)

polynomial == {12, 5, 0}

Register == SUBSET (0 .. 15)

(* One turn of the inner loop: shift left, reduce if a 1 falls out.        *)
ShiftOut(crc) ==
  LET shifted == {i + 1 : i \in crc \ {15}}
  IN  IF 15 \in crc THEN Xor(shifted, polynomial) ELSE shifted

(* One turn of the outer loop: the byte enters at the top, eight shifts.   *)
Absorb[crc \in Register] == [byte \in Octet |->
  LET turns[n \in 0 .. 8] == IF n = 0 THEN Xor(crc, {i + 8 : i \in Bits(byte, 8)})
                             ELSE ShiftOut(turns[n - 1])
  IN  turns[8]]

Checksum(bytes) ==
  LET after[n \in 0 .. Len(bytes)] == IF n = 0 THEN 0 .. 15
                                      ELSE Absorb[after[n - 1]][bytes[n]]
  IN  after[Len(bytes)]

crc16_ccitt_false(bytes) == Value(Checksum(bytes))

-----------------------------------------------------------------------------
(* Fields.                                                                 *)

encode_message_type(type) ==
  CASE type = "Telemetry"  -> 1
    [] type = "Command"    -> 16
    [] type = "CommandAck" -> 17

decode_message_type(byte) ==
  CHOOSE type \in MessageType : encode_message_type(type) = byte

KnownType(byte) == \E type \in MessageType : encode_message_type(type) = byte

write_u16_le(value) == <<value % 256, value \div 256>>

write_u32_le(value) ==
  <<value % 256, (value \div 256) % 256, (value \div 65536) % 256,
    value \div 16777216>>

(* Offsets count from 0 as in the code.                                    *)
At(bytes, offset) == bytes[offset + 1]

read_u16_le(bytes, offset) == At(bytes, offset) + 256 * At(bytes, offset + 1)

(* Seeded defect: the top byte is not read.                                *)
ReadThreeBytes(bytes, offset) ==
  read_u16_le(bytes, offset) + 65536 * At(bytes, offset + 2)

read_u32_le(bytes, offset) ==
  read_u16_le(bytes, offset) + 65536 * read_u16_le(bytes, offset + 2)

-----------------------------------------------------------------------------
(* Seeded defect: the size limit admits one byte too many.                 *)
EncodeOneTooMany(frame) ==
  IF      frame.version # protocol_version          THEN "UnsupportedVersion"
  ELSE IF frame.message_type \notin MessageType     THEN "UnsupportedMessageType"
  ELSE IF frame.payload_length > maximum_payload_size + 1 THEN "PayloadTooLarge"
  ELSE "Ok"

(* encode(): its status, and the bytes when the status is Ok.              *)

EncodeStatusOf(frame) ==
  IF      frame.version # protocol_version            THEN "UnsupportedVersion"
  ELSE IF frame.message_type \notin MessageType       THEN "UnsupportedMessageType"
  ELSE IF frame.payload_length > maximum_payload_size THEN "PayloadTooLarge"
  ELSE "Ok"

(* What the checksum covers: everything between the sync bytes and itself. *)
Protected(frame) ==
  <<frame.version, encode_message_type(frame.message_type)>>
  \o write_u16_le(frame.payload_length)
  \o write_u32_le(frame.sequence)
  \o SubSeq(frame.payload, 1, frame.payload_length)

Encode(frame) ==
  <<165, 90>> \o Protected(frame)
              \o write_u16_le(crc16_ccitt_false(Protected(frame)))

-----------------------------------------------------------------------------
(* decode(): its status, and the frame when the status is Ok.              *)

(* Seeded defect: the checksum is not counted.                             *)
SizeWithoutCrc(bytes) == 10 + read_u16_le(bytes, 4)

ExpectedSize(bytes) == minimum_frame_size + read_u16_le(bytes, 4)

ActualCrc(bytes) ==
  crc16_ccitt_false(SubSeq(bytes, 3, 10 + read_u16_le(bytes, 4)))

ExpectedCrc(bytes) == read_u16_le(bytes, 10 + read_u16_le(bytes, 4))

(* Seeded defect: the checksums are compared in eight bits.                *)
LowByteCrcStatus(bytes) ==
  IF ActualCrc(bytes) % 256 # ExpectedCrc(bytes) % 256 THEN "CrcMismatch" ELSE "Ok"

CrcStatus(bytes) ==
  IF ActualCrc(bytes) # ExpectedCrc(bytes) THEN "CrcMismatch" ELSE "Ok"

(* The checks in the code's order; the first that fails names the status.  *)
DecodeStatusOf(bytes) ==
  IF      Len(bytes) < minimum_frame_size              THEN "Truncated"
  ELSE IF At(bytes, 0) # 165 \/ At(bytes, 1) # 90      THEN "BadSync"
  ELSE IF At(bytes, 2) # protocol_version              THEN "UnsupportedVersion"
  ELSE IF ~KnownType(At(bytes, 3))                     THEN "UnsupportedMessageType"
  ELSE IF read_u16_le(bytes, 4) > maximum_payload_size THEN "PayloadTooLarge"
  ELSE IF Len(bytes) < ExpectedSize(bytes)             THEN "Truncated"
  ELSE IF Len(bytes) # ExpectedSize(bytes)             THEN "LengthMismatch"
  ELSE CrcStatus(bytes)

DecodedFrame(bytes) ==
  [version        |-> At(bytes, 2),
   message_type   |-> decode_message_type(At(bytes, 3)),
   payload_length |-> read_u16_le(bytes, 4),
   sequence       |-> read_u32_le(bytes, 6),
   payload        |-> SubSeq(bytes, 11, 10 + read_u16_le(bytes, 4))]
=============================================================================
