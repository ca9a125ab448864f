--------------------------- MODULE MCGroundStream ---------------------------
(***************************************************************************)
(* The scaled-down frame of MCFrameStreamDecoder.  An empty payload is a   *)
(* telemetry message; in a long one the first byte makes it telemetry, an  *)
(* unexpected command, or an acknowledgement with an undefined code.       *)
(***************************************************************************)
EXTENDS GroundStream, SequencesExt

SmallByte == 0 .. 2
SmallLength(low, high) == <<0, 2, 3>>[low + 1]

SmallSum(s) == FoldLeft(LAMBDA a, b : (a + b) % 3, 0, s)
SmallDecode(f) ==
  IF f[Len(f)] = SmallSum(SubSeq(f, 3, Len(f) - 1)) THEN "Ok" ELSE "CrcMismatch"

SmallType(f) ==
  IF Len(f) = 4 THEN "Telemetry" ELSE <<"Telemetry", "Command", "CommandAck">>[f[4] + 1]
SmallSound(f) == SmallType(f) = "Telemetry"
=============================================================================
