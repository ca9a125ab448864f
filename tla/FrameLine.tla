------------------------------ MODULE FrameLine ------------------------------
(***************************************************************************)
(* One frame on its way: encode() makes the bytes, the serial line may     *)
(* flip bits, cut the frame short or add a byte, decode() judges what      *)
(* arrives.  The line is the environment; both ends are FrameCodec.        *)
(***************************************************************************)
EXTENDS FrameCodec, FiniteSets

CONSTANTS
  Frames,      \* the frames a sender tries to encode
  MaxFlips(_)  \* bound: bits the line flips in that frame

(* Every field has its C++ type: sequence 32 bits, payload at least the    *)
(* part of its array that an accepted payload_length points into.          *)
ASSUME FramesAssumption ==
  \A frame \in Frames :
    /\ frame \in [version : Octet, message_type : STRING, payload_length : Nat,
                  sequence : Nat, payload : Seq(Octet)]
    /\ frame.sequence \div 16777216 \in Octet
    /\ frame.payload_length <= maximum_payload_size
         => frame.payload_length <= Len(frame.payload)

VARIABLES
  pc,       \* "idle", "line", "refused" or "judged"
  sent,     \* the frame the sender tried to encode
  line,     \* the bytes under way
  flipped,  \* history: positions of the bits the line flipped
  resized,  \* history: the byte the line added (1) or those it cut off (< 0)
  status,   \* the status of the last encode() or decode()
  heard     \* the frame decode() returned, when it was Ok

vars == <<pc, sent, line, flipped, resized, status, heard>>

NoFrame == [payload_length |-> 0]

Init ==
  /\ pc = "idle"
  /\ sent \in Frames
  /\ line = <<>>
  /\ flipped = {}
  /\ resized = 0
  /\ status = "Ok"
  /\ heard = NoFrame

Refuse ==
  /\ pc = "idle"
  /\ EncodeStatusOf(sent) # "Ok"
  /\ status' = EncodeStatusOf(sent)
  /\ pc' = "refused"
  /\ UNCHANGED <<sent, line, flipped, resized, heard>>

Send ==
  /\ pc = "idle"
  /\ EncodeStatusOf(sent) = "Ok"
  /\ line' = Encode(sent)
  /\ pc' = "line"
  /\ UNCHANGED <<sent, flipped, resized, status, heard>>

FlippedBit(byte, bit) == Value(Xor(Bits(byte, 8), {bit}))

(* Bits are flipped from the first to the last: the order does not matter. *)
Flip(position) ==
  /\ pc = "line" /\ resized = 0
  /\ Cardinality(flipped) < MaxFlips(sent)
  /\ \A earlier \in flipped : earlier < position
  /\ line' = [line EXCEPT ![position \div 8 + 1] = FlippedBit(@, position % 8)]
  /\ flipped' = flipped \cup {position}
  /\ UNCHANGED <<pc, sent, resized, status, heard>>

Cut ==
  /\ pc = "line" /\ resized <= 0
  /\ line # <<>>
  /\ line' = SubSeq(line, 1, Len(line) - 1)
  /\ resized' = resized - 1
  /\ UNCHANGED <<pc, sent, flipped, status, heard>>

Lengthen(byte) ==
  /\ pc = "line" /\ resized = 0
  /\ line' = Append(line, byte)
  /\ resized' = resized + 1
  /\ UNCHANGED <<pc, sent, flipped, status, heard>>

Receive ==
  /\ pc = "line"
  /\ status' = DecodeStatusOf(line)
  /\ heard' = IF status' = "Ok" THEN DecodedFrame(line) ELSE NoFrame
  /\ pc' = "judged"
  /\ UNCHANGED <<sent, line, flipped, resized>>

Next ==
  \/ Refuse \/ Send \/ Receive
  \/ \E position \in 0 .. (8 * Len(line) - 1) : Flip(position)
  \/ Cut
  \/ \E byte \in {0, 165} : Lengthen(byte)

Spec == Init /\ [][Next]_vars

-----------------------------------------------------------------------------
(* Properties.                                                             *)

Intact == flipped = {} /\ resized = 0

(* Every buffer stays in its array and every field in its width.           *)
TypeOK ==
  /\ pc \in {"idle", "line", "refused", "judged"}
  /\ sent \in Frames
  /\ line \in Seq(Octet)
  /\ resized <= 0 => Len(line) <= maximum_frame_size
  /\ status \in EncodeStatus \cup DecodeStatus
  /\ heard = NoFrame \/ heard.payload_length \in 0 .. maximum_payload_size

(* The two ends agree on every frame: whatever encode() accepts, decode()  *)
(* accepts as well, and returns field for field what was sent.             *)
RoundTrip ==
  pc = "judged" /\ Intact =>
    /\ status = "Ok"
    /\ heard = [sent EXCEPT !.payload = SubSeq(@, 1, sent.payload_length)]

(* No damage the line is expected to do passes for a frame: flipped bits,  *)
(* wherever they fall (sync, version, type, length, payload, checksum), a  *)
(* cut and a byte too many all end in a rejection.                         *)
DamageDetected == pc = "judged" /\ ~Intact => status # "Ok"

(* A cut frame is reported as Truncated, at whatever byte it was cut, and  *)
(* one with a byte too many as LengthMismatch: the size is judged against  *)
(* the frame's own length field before the checksum is looked for, so that *)
(* no byte outside the frame is read.                                      *)
SizeJudgedFirst ==
  pc = "judged" /\ flipped = {} =>
    /\ resized < 0 => status = "Truncated"
    /\ resized > 0 => status = "LengthMismatch"
=============================================================================
