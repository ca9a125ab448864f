--------------------------- MODULE MessageExchange ---------------------------
(***************************************************************************)
(* One message between flight computer and ground: an encoder refuses it   *)
(* or makes its frame, or somebody else makes a frame that is valid as a   *)
(* frame; then each receiver reads it.  The flight computer takes commands *)
(* (main.cpp), the ground client what it prints (ground_client.hpp).       *)
(***************************************************************************)
EXTENDS MessageCodecs

CONSTANTS
  CommandMessages,   \* the messages given to each encoder, some with an
  AckMessages,       \* enumerator or a fault bit that does not exist
  TelemetryMessages,
  ForeignFrames      \* frames of any type around any payload

maximum_u16 == 65535
minimum_i16 == -32768
maximum_i16 == 32767

U16 == 0 .. maximum_u16
I16 == minimum_i16 .. maximum_i16

(* Every field has its C++ type; an enumeration may hold any value.        *)
ASSUME MessagesAssumption ==
  /\ \A given \in CommandMessages :
       /\ given \in [sequence : Nat, command : STRING, period_ms : Nat]
       /\ FitsU32(given.sequence) /\ FitsU32(given.period_ms)
  /\ \A given \in AckMessages :
       /\ given \in [sequence : Nat, command : STRING, status : STRING]
       /\ FitsU32(given.sequence)
  /\ \A given \in TelemetryMessages :
       /\ given \in [sequence : Nat, uptime_ms : [1 .. 4 -> U16], flight_mode : STRING,
                     battery_mv : U16, board_temperature_centi_c : I16,
                     solar_current_ma : U16, latched_fault_mask : SUBSET (0 .. 31)]
       /\ FitsU32(given.sequence)

ASSUME ForeignAssumption ==
  \A frame \in ForeignFrames :
    /\ frame \in [version : Octet, message_type : STRING, payload_length : Nat,
                  sequence : Nat, payload : Seq(Octet)]
    /\ FitsU32(frame.sequence)
    /\ EncodeStatusOf(frame) = "Ok" /\ frame.payload_length <= Len(frame.payload)

VARIABLES
  stage,   \* "idle", "refused", "sent", "heard"
  kind,    \* the encoder that was used, or "Foreign"
  message, \* what it was given
  bytes,   \* the frame
  status,  \* status of the encoder, then of both decoders
  flight,  \* the command the flight computer takes from it
  ground   \* the message the ground client prints

vars == <<stage, kind, message, bytes, status, flight, ground>>

Nothing == [sequence |-> 0]

Init ==
  /\ stage = "idle"
  /\ kind = "Foreign"
  /\ message = Nothing
  /\ bytes = <<>>
  /\ status = [encoder |-> "Ok", flight |-> "Ok", ground |-> "Ok"]
  /\ flight = Nothing
  /\ ground = Nothing

Compose(encoder, given, verdict, frame) ==
  /\ stage = "idle"
  /\ kind' = encoder
  /\ message' = given
  /\ status' = [status EXCEPT !.encoder = verdict]
  /\ IF verdict = "Ok"
     THEN stage' = "sent" /\ bytes' = Encode(frame)
     ELSE stage' = "refused" /\ UNCHANGED bytes
  /\ UNCHANGED <<flight, ground>>

SendCommand == \E given \in CommandMessages :
  Compose("Command", given, EncodeCommandStatus(given), CommandFrame(given))

SendAck == \E given \in AckMessages :
  Compose("CommandAck", given, EncodeAckStatus(given), AckFrame(given))

SendTelemetry == \E given \in TelemetryMessages :
  Compose("Telemetry", given, EncodeTelemetryStatus(given), TelemetryFrame(given))

SendForeign == \E frame \in ForeignFrames : Compose("Foreign", Nothing, "Ok", frame)

(* Seeded defect: an unexpected command frame falls through to telemetry.  *)
PrintAnything(frame) ==
  IF DecodedFrame(frame).message_type = "CommandAck"
  THEN DecodeAckStatus(frame) ELSE DecodeTelemetryStatus(frame)

(* handle_event(): the switch on the type, which decode_telemetry() needs. *)
PrintStatus(frame) ==
  CASE DecodedFrame(frame).message_type = "Telemetry"  -> DecodeTelemetryStatus(frame)
    [] DecodedFrame(frame).message_type = "CommandAck" -> DecodeAckStatus(frame)
    [] DecodedFrame(frame).message_type = "Command"    -> "UnexpectedCommand"

Printed(frame) ==
  IF DecodedFrame(frame).message_type = "CommandAck"
  THEN DecodedAck(frame) ELSE DecodedTelemetry(frame)

Receive ==
  /\ stage = "sent"
  /\ stage' = "heard"
  /\ status' = [status EXCEPT !.flight = DecodeCommandStatus(bytes),
                              !.ground = PrintStatus(bytes)]
  /\ flight' = IF status'.flight = "Ok" THEN DecodedCommand(bytes) ELSE Nothing
  /\ ground' = IF status'.ground = "Ok" THEN Printed(bytes) ELSE Nothing
  /\ UNCHANGED <<kind, message, bytes>>

Next == SendCommand \/ SendAck \/ SendTelemetry \/ SendForeign \/ Receive

Spec == Init /\ [][Next]_vars

-----------------------------------------------------------------------------
(* Properties.                                                             *)

(* Every decoded field is a value of its C++ type, above all the signed    *)
(* temperature.                                                            *)
TypeOK ==
  /\ stage \in {"idle", "refused", "sent", "heard"}
  /\ bytes \in Seq(Octet) /\ Len(bytes) <= maximum_frame_size
  /\ flight # Nothing => flight.command \in DOMAIN CommandCode /\ flight.period_ms \in Nat
  /\ ground # Nothing /\ "status" \notin DOMAIN ground =>
       /\ ground.uptime_ms \in [1 .. 4 -> U16]
       /\ ground.board_temperature_centi_c \in I16
       /\ ground.battery_mv \in U16 /\ ground.solar_current_ma \in U16

(* A message an encoder accepts reaches the receiver it is meant for field *)
(* for field, a period being sent only where the command has one; and the  *)
(* other receiver does not take it for anything.                           *)
RoundTrip ==
  stage = "heard" =>
    /\ kind = "Command" =>
         /\ flight = IF message.command = "SetTelemetryPeriod" THEN message
                     ELSE [message EXCEPT !.period_ms = 0]
         /\ ground = Nothing
    /\ kind \in {"CommandAck", "Telemetry"} => ground = message /\ flight = Nothing

(* Nothing but what our own encoders produce is taken for a message: what  *)
(* a receiver accepts, of whatever type, length and content, encodes back  *)
(* to the very bytes it was read from.  No byte of an accepted frame is    *)
(* ignored, and no frame of one type is read as another, although          *)
(* decode_telemetry() leaves the type to its caller.                       *)
OnlyOurOwn ==
  stage = "heard" =>
    /\ flight # Nothing => bytes = EncodeCommand(flight)
    /\ ground # Nothing =>
         bytes = IF "status" \in DOMAIN ground THEN EncodeAck(ground)
                 ELSE EncodeTelemetry(ground)
=============================================================================
