----------------------------- MODULE MCFrameLine -----------------------------
(***************************************************************************)
(* Frames of each type: an empty one, one whose payload is a sync pair and *)
(* whose payload array is longer than payload_length, the largest sequence *)
(* TLC's integers hold, the largest payload; and frames encode() refuses.  *)
(* The two assumptions are the known answers of frame_codec_test.cpp.      *)
(***************************************************************************)
EXTENDS FrameLine

MCFrame(version, type, length, sequence, payload) ==
  [version |-> version, message_type |-> type, payload_length |-> length,
   sequence |-> sequence, payload |-> payload]

Golden == MCFrame(1, "Telemetry", 3, 305419896, <<16, 32, 48>>)

SmallFrames ==
  { Golden,
    MCFrame(1, "Command", 0, 2147483647, <<>>),
    MCFrame(1, "CommandAck", 2, 42, <<165, 90, 255>>),
    MCFrame(2, "Telemetry", 0, 0, <<>>),
    MCFrame(1, "Undefined", 0, 0, <<>>),
    MCFrame(1, "Telemetry", 64, 7, [i \in 1 .. 64 |-> i]),
    MCFrame(1, "Telemetry", 65, 0, [i \in 1 .. 65 |-> i]) }

(* Every triple of bits of the empty frame, every pair of the other small  *)
(* ones, every bit of the largest.                                         *)
SmallMaxFlips(frame) ==
  CASE frame.payload_length = 0        -> 3
    [] frame.payload_length \in 1 .. 3 -> 2
    [] OTHER                           -> 1

ASSUME CrcCheckValue ==
  crc16_ccitt_false(<<49, 50, 51, 52, 53, 54, 55, 56, 57>>) = 10673

ASSUME GoldenFrame ==
  Encode(Golden) =
    <<165, 90, 1, 1, 3, 0, 120, 86, 52, 18, 16, 32, 48, 15, 164>>
=============================================================================
