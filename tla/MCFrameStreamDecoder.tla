------------------------ MODULE MCFrameStreamDecoder ------------------------
(***************************************************************************)
(* A scaled-down frame: two sync bytes, a one-byte length field, payload,  *)
(* one checksum byte.  Over the three byte values below the length field   *)
(* can announce an empty payload, the largest payload, or an impossible    *)
(* one, so that a false header can swallow a whole frame and the start of  *)
(* the next.                                                               *)
(***************************************************************************)
EXTENDS FrameStreamDecoder, SequencesExt

SmallByte == 0 .. 2
SmallLength(low, high) == <<0, 5, 6>>[low + 1]

SmallSum(s) == FoldLeft(LAMBDA a, b : (a + b) % 3, 0, s)
SmallDecode(f) ==
  IF f[Len(f)] = SmallSum(SubSeq(f, 3, Len(f) - 1)) THEN "Ok" ELSE "CrcMismatch"
=============================================================================
