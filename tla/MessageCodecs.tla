---------------------------- MODULE MessageCodecs ----------------------------
(***************************************************************************)
(* The three messages and their frames: commands and acknowledgements      *)
(* (command_codec.hpp) and telemetry (telemetry_codec.hpp).  Each encoder  *)
(* and decoder is a status and, when the status is "Ok", a result.         *)
(*                                                                         *)
(* A C++ enumeration is the record of its codes.  A 64-bit uptime is its   *)
(* four 16-bit words, low word first, and the 32-bit fault mask the set of *)
(* the positions of its 1 bits: TLC's integers have 32 bits.               *)
(***************************************************************************)
EXTENDS FrameCodec

(* A number that a uint32_t holds.                                         *)
FitsU32(value) == value \div 16777216 \in Octet

CommandCode == [Ping |-> 1, EnterSafeMode |-> 2, SetTelemetryPeriod |-> 3]

AckStatusCode ==
  [Accepted |-> 0, InvalidCommand |-> 1, InvalidArgument |-> 2, RejectedByState |-> 3]

FlightModeCode == [Boot |-> 0, Safe |-> 1, Nominal |-> 2]

IsCode(table, byte) == \E name \in DOMAIN table : table[name] = byte

NameOf(table, byte) == CHOOSE name \in DOMAIN table : table[name] = byte

MakeFrame(type, sequence, payload) ==
  [version |-> protocol_version, message_type |-> type, sequence |-> sequence,
   payload_length |-> Len(payload), payload |-> payload]

-----------------------------------------------------------------------------
(* Commands.                                                               *)

CommandFrame(message) ==
  MakeFrame("Command", message.sequence,
            <<CommandCode[message.command]>> \o
            IF message.command = "SetTelemetryPeriod"
            THEN write_u32_le(message.period_ms) ELSE <<>>)

EncodeCommandStatus(message) ==
  IF message.command \notin DOMAIN CommandCode THEN "UnknownCommand"
  ELSE IF EncodeStatusOf(CommandFrame(message)) # "Ok" THEN "FrameEncodeFailure"
  ELSE "Ok"

EncodeCommand(message) == Encode(CommandFrame(message))

RequiredLength(command) == IF command = "SetTelemetryPeriod" THEN 5 ELSE 1

(* Seeded defect: bytes after the command are ignored.                     *)
CommandPayloadAtLeast(frame) ==
  IF      frame.payload_length < 1                THEN "InvalidPayloadLength"
  ELSE IF ~IsCode(CommandCode, frame.payload[1])  THEN "UnknownCommand"
  ELSE IF frame.payload_length < RequiredLength(NameOf(CommandCode, frame.payload[1]))
                                                  THEN "InvalidPayloadLength"
  ELSE "Ok"

CommandPayloadStatus(frame) ==
  IF      frame.payload_length < 1                THEN "InvalidPayloadLength"
  ELSE IF ~IsCode(CommandCode, frame.payload[1])  THEN "UnknownCommand"
  ELSE IF frame.payload_length # RequiredLength(NameOf(CommandCode, frame.payload[1]))
                                                  THEN "InvalidPayloadLength"
  ELSE "Ok"

DecodeCommandStatus(bytes) ==
  IF      DecodeStatusOf(bytes) # "Ok"                   THEN "FrameDecodeFailure"
  ELSE IF DecodedFrame(bytes).message_type # "Command"   THEN "IncorrectMessageType"
  ELSE CommandPayloadStatus(DecodedFrame(bytes))

DecodedCommand(bytes) ==
  LET frame   == DecodedFrame(bytes)
      command == NameOf(CommandCode, frame.payload[1])
  IN  [sequence  |-> frame.sequence,
       command   |-> command,
       period_ms |-> IF command = "SetTelemetryPeriod"
                     THEN read_u32_le(frame.payload, 1) ELSE 0]

-----------------------------------------------------------------------------
(* Acknowledgements.                                                       *)

AckFrame(message) ==
  MakeFrame("CommandAck", message.sequence,
            <<CommandCode[message.command], AckStatusCode[message.status]>>)

EncodeAckStatus(message) ==
  IF      message.command \notin DOMAIN CommandCode   THEN "UnknownCommand"
  ELSE IF message.status \notin DOMAIN AckStatusCode  THEN "UnknownStatus"
  ELSE IF EncodeStatusOf(AckFrame(message)) # "Ok"    THEN "FrameEncodeFailure"
  ELSE "Ok"

EncodeAck(message) == Encode(AckFrame(message))

AckPayloadStatus(frame) ==
  IF      frame.payload_length # 2                  THEN "InvalidPayloadLength"
  ELSE IF ~IsCode(CommandCode, frame.payload[1])    THEN "UnknownCommand"
  ELSE IF ~IsCode(AckStatusCode, frame.payload[2])  THEN "UnknownStatus"
  ELSE "Ok"

DecodeAckStatus(bytes) ==
  IF      DecodeStatusOf(bytes) # "Ok"                      THEN "FrameDecodeFailure"
  ELSE IF DecodedFrame(bytes).message_type # "CommandAck"   THEN "IncorrectMessageType"
  ELSE AckPayloadStatus(DecodedFrame(bytes))

DecodedAck(bytes) ==
  LET frame == DecodedFrame(bytes)
  IN  [sequence |-> frame.sequence,
       command  |-> NameOf(CommandCode, frame.payload[1]),
       status   |-> NameOf(AckStatusCode, frame.payload[2])]

-----------------------------------------------------------------------------
(* Telemetry.                                                              *)

telemetry_payload_size == 19
known_fault_mask == {0, 1, 2}

write_u64_le(words) ==
  write_u16_le(words[1]) \o write_u16_le(words[2]) \o
  write_u16_le(words[3]) \o write_u16_le(words[4])

(* Seeded defect: the words are read in the wrong order.                   *)
HighWordFirst(bytes, offset) == [i \in 1 .. 4 |-> read_u16_le(bytes, offset + 2 * (4 - i))]

read_u64_le(bytes, offset) == [i \in 1 .. 4 |-> read_u16_le(bytes, offset + 2 * (i - 1))]

write_mask_le(mask) == [byte \in 1 .. 4 |->
  Value({bit - 8 * (byte - 1) : bit \in mask \cap 8 * (byte - 1) .. 8 * byte - 1})]

read_mask_le(bytes, offset) ==
  UNION {{bit + 8 * byte : bit \in Bits(At(bytes, offset + byte), 8)} : byte \in 0 .. 3}

(* Two's complement in 16 bits: the conversion to uint16_t and back.       *)
encode_temperature(temperature) == temperature % 65536

(* Seeded defect: the sign is lost.                                        *)
UnsignedTemperature(encoded) == encoded

decode_temperature(encoded) == IF encoded <= 32767 THEN encoded ELSE encoded - 65536

TelemetryFrame(message) ==
  MakeFrame("Telemetry", message.sequence,
    write_u64_le(message.uptime_ms) \o <<FlightModeCode[message.flight_mode]>>
    \o write_u16_le(message.battery_mv)
    \o write_u16_le(encode_temperature(message.board_temperature_centi_c))
    \o write_u16_le(message.solar_current_ma)
    \o write_mask_le(message.latched_fault_mask))

EncodeTelemetryStatus(message) ==
  IF      message.flight_mode \notin DOMAIN FlightModeCode     THEN "InvalidFlightMode"
  ELSE IF ~(message.latched_fault_mask \subseteq known_fault_mask) THEN "UnknownFaultBits"
  ELSE IF EncodeStatusOf(TelemetryFrame(message)) # "Ok"       THEN "FrameEncodeFailure"
  ELSE "Ok"

EncodeTelemetry(message) == Encode(TelemetryFrame(message))

(* Unlike its two siblings this decoder does not look at the message type. *)
DecodeTelemetryStatus(bytes) ==
  IF DecodeStatusOf(bytes) # "Ok" THEN "FrameDecodeFailure"
  ELSE LET frame == DecodedFrame(bytes) IN
       IF      frame.payload_length # telemetry_payload_size THEN "IncorrectPayloadLength"
       ELSE IF ~IsCode(FlightModeCode, At(frame.payload, 8)) THEN "InvalidFlightMode"
       ELSE IF ~(read_mask_le(frame.payload, 15) \subseteq known_fault_mask)
                                                             THEN "UnknownFaultBits"
       ELSE "Ok"

DecodedTelemetry(bytes) ==
  LET frame == DecodedFrame(bytes)
  IN  [sequence                  |-> frame.sequence,
       uptime_ms                 |-> read_u64_le(frame.payload, 0),
       flight_mode               |-> NameOf(FlightModeCode, At(frame.payload, 8)),
       battery_mv                |-> read_u16_le(frame.payload, 9),
       board_temperature_centi_c |-> decode_temperature(read_u16_le(frame.payload, 11)),
       solar_current_ma          |-> read_u16_le(frame.payload, 13),
       latched_fault_mask        |-> read_mask_le(frame.payload, 15)]
=============================================================================
