------------------------- MODULE FrameStreamDecoder -------------------------
(***************************************************************************)
(* apogee::FrameStreamDecoder: finds frames in a byte stream that may hold *)
(* noise, damaged frames and lost bytes (frame_stream_decoder.hpp).  The   *)
(* firmware feeds it one UART byte at a time, the ground client whole      *)
(* socket reads; push() is a loop over push_byte() either way.             *)
(*                                                                         *)
(* The frame geometry and the codec are parameters: the C++ values are     *)
(* 0xA5, 0x5A, 6, 12 and 64, length bytes at offsets 4 and 5, and decode() *)
(* of frame_codec.hpp.  expected_size_ is recomputed before every use and  *)
(* is therefore the operator FrameSize, not state.                         *)
(***************************************************************************)
EXTENDS Integers, Sequences

CONSTANTS
  Byte,                 \* the values of a stream byte
  sync_first,           \* first synchronisation byte
  sync_second,          \* second synchronisation byte
  header_size,          \* bytes needed before the length field can be read
  minimum_frame_size,   \* size of a frame with an empty payload
  maximum_payload_size, \* largest payload the length field may announce
  length_low,           \* offset in the frame of the length's low byte
  length_high,          \* offset in the frame of the length's high byte
  PayloadLength(_, _),  \* the length those two bytes announce
  Decode(_),            \* decode(): status of a complete candidate frame
  MaxStream             \* bound: bytes pushed before the stream ends

maximum_frame_size == minimum_frame_size + maximum_payload_size

ASSUME SyncAssumption ==
  /\ sync_first \in Byte
  /\ sync_second \in Byte
  /\ sync_first # sync_second

ASSUME GeometryAssumption ==
  /\ header_size \in Nat
  /\ length_low \in 2 .. (header_size - 1)
  /\ length_high \in 2 .. (header_size - 1)
  /\ minimum_frame_size \in Nat /\ minimum_frame_size >= header_size
  /\ maximum_payload_size \in Nat
  /\ MaxStream \in Nat

ASSUME LengthAssumption ==
  \A low, high \in Byte : PayloadLength(low, high) \in Nat

VARIABLES
  buffer,    \* buffer_[0 .. size_ - 1]
  pc,        \* "push": between bytes; "process": in process_buffer's loop;
             \* "closed": finish() was called
  received,  \* history: every byte pushed so far
  delivered, \* history: FrameDecoded events, with the position of the frame
  tally,     \* history: where the bytes that left the buffer went
  malformed  \* history: an event other than FrameDecoded was reported

vars == <<buffer, pc, received, delivered, tally, malformed>>

Categories == {"framed", "noise", "rejected", "truncated"}

-----------------------------------------------------------------------------
(* Reading a candidate frame that starts at position p of a byte sequence. *)

SyncAt(s, p) == p + 1 <= Len(s) /\ s[p] = sync_first /\ s[p + 1] = sync_second

LengthAt(s, p) == PayloadLength(s[p + length_low], s[p + length_high])

HeaderAt(s, p) == p + header_size - 1 <= Len(s)

FrameSize(s, p) == minimum_frame_size + LengthAt(s, p)

(* Seeded defect: the length limit is off by one.                          *)
OversizedOffByOne(s, p) ==
  HeaderAt(s, p) /\ LengthAt(s, p) > maximum_payload_size + 1

OversizedAt(s, p) == HeaderAt(s, p) /\ LengthAt(s, p) > maximum_payload_size

CompleteAt(s, p) ==
  /\ HeaderAt(s, p)
  /\ LengthAt(s, p) <= maximum_payload_size
  /\ p + FrameSize(s, p) - 1 <= Len(s)

CandidateAt(s, p) == SubSeq(s, p, p + FrameSize(s, p) - 1)

(* Seeded defects: a rejection empties the buffer; a first sync byte is    *)
(* taken for a frame whatever follows it; one at the very end is dropped.  *)
NoRescanOffset(s, k) == k = Len(s)
FirstByteOffset(s, k) ==
  k = Len(s) \/ (k < Len(s) /\ s[k + 1] = sync_first)
WholePairOffset(s, k) ==
  k = Len(s) \/ SyncAt(s, k + 1)

(* The offsets at which rescan() and align_to_sync() may stop: a sync pair,*)
(* a final byte that could be the first half of one, or the end.           *)
ViableOffset(s, k) ==
  \/ k = Len(s)
  \/ SyncAt(s, k + 1)
  \/ k = Len(s) - 1 /\ s[Len(s)] = sync_first

IsFirstViable(s, from, k) ==
  /\ k \in from .. Len(s)
  /\ ViableOffset(s, k)
  /\ \A j \in from .. (k - 1) : ~ViableOffset(s, j)

(* Seeded defect: one byte too few is removed.                             *)
DropShort(s, k) == SubSeq(s, IF k = 0 THEN 1 ELSE k, Len(s))

Drop(s, k) == SubSeq(s, k + 1, Len(s))

Count(category, n) == [tally EXCEPT ![category] = @ + n]

-----------------------------------------------------------------------------
Init ==
  /\ buffer = <<>>
  /\ pc = "push"
  /\ received = <<>>
  /\ delivered = <<>>
  /\ tally = [c \in Categories |-> 0]
  /\ malformed = FALSE

Receive(byte) ==
  /\ pc = "push"
  /\ Len(received) < MaxStream
  /\ received' = Append(received, byte)

(* push_byte() with an empty buffer: wait for the first sync byte.         *)
HuntFirst(byte) ==
  /\ Receive(byte)
  /\ Len(buffer) = 0
  /\ IF byte = sync_first
     THEN buffer' = <<byte>> /\ UNCHANGED <<tally, malformed>>
     ELSE tally' = Count("noise", 1) /\ malformed' = TRUE /\ UNCHANGED buffer
  /\ UNCHANGED <<pc, delivered>>

(* push_byte() with one buffered byte: the pair is completed, restarted by *)
(* a second first-sync byte, or given up.                                  *)
HuntSecond(byte) ==
  /\ Receive(byte)
  /\ Len(buffer) = 1
  /\ \/ /\ byte = sync_second
        /\ buffer' = Append(buffer, byte)
        /\ UNCHANGED <<tally, malformed>>
     \/ /\ byte = sync_first
        /\ tally' = Count("noise", 1)
        /\ malformed' = TRUE
        /\ UNCHANGED buffer
     \/ /\ byte \notin {sync_first, sync_second}
        /\ buffer' = <<>>
        /\ tally' = Count("noise", 2)
        /\ malformed' = TRUE
  /\ UNCHANGED <<pc, delivered>>

(* push_byte() inside a frame: store the byte and enter process_buffer().  *)
Store(byte) ==
  /\ Receive(byte)
  /\ Len(buffer) >= 2
  /\ buffer' = Append(buffer, byte)
  /\ pc' = "process"
  /\ UNCHANGED <<delivered, tally, malformed>>

(* Seeded defect: waits for the missing bytes inside the loop.             *)
AwaitInLoop ==
  /\ pc = "process"
  /\ ~OversizedAt(buffer, 1) /\ ~CompleteAt(buffer, 1)
  /\ UNCHANGED vars

(* process_buffer() returns: the header or the frame is not complete yet.  *)
AwaitMore ==
  /\ pc = "process"
  /\ ~OversizedAt(buffer, 1) /\ ~CompleteAt(buffer, 1)
  /\ pc' = "push"
  /\ UNCHANGED <<buffer, received, delivered, tally, malformed>>

(* Seeded defect: the loop goes on with fewer bytes than a header has.     *)
LoopAlways(rest) == "process"

LoopOrReturn(rest) == IF Len(rest) < header_size THEN "push" ELSE "process"

(* reject(): the length is impossible or decode() failed.  rescan() keeps  *)
(* what follows the next place a frame could start.                        *)
Reject ==
  /\ pc = "process"
  /\ \/ OversizedAt(buffer, 1)
     \/ CompleteAt(buffer, 1) /\ Decode(CandidateAt(buffer, 1)) # "Ok"
  /\ \E k \in 1 .. Len(buffer) :
       /\ IsFirstViable(buffer, 1, k)
       /\ buffer' = Drop(buffer, k)
       /\ tally' = Count("rejected", k)
  /\ malformed' = TRUE
  /\ pc' = LoopOrReturn(buffer')
  /\ UNCHANGED <<received, delivered>>

(* A frame was decoded: hand it over, remove it, and realign what follows. *)
(* align_to_sync() reports noise unless nothing is left or the rest starts *)
(* with a sync pair; a lone first-sync byte is reported as 0 noise bytes.  *)
Deliver ==
  /\ pc = "process"
  /\ CompleteAt(buffer, 1) /\ Decode(CandidateAt(buffer, 1)) = "Ok"
  /\ delivered' = Append(delivered,
                    [at    |-> Len(received) - Len(buffer) + 1,
                     bytes |-> CandidateAt(buffer, 1)])
  /\ LET rest == Drop(buffer, FrameSize(buffer, 1)) IN
     \E k \in 0 .. Len(rest) :
       /\ IsFirstViable(rest, 0, k)
       /\ buffer' = Drop(rest, k)
       /\ tally' = [tally EXCEPT !["framed"] = @ + FrameSize(buffer, 1),
                                 !["noise"]  = @ + k]
       /\ malformed' = (malformed \/ ~(Len(rest) = 0 \/ SyncAt(rest, 1)))
  /\ pc' = LoopOrReturn(buffer')
  /\ UNCHANGED received

(* Seeded defect: finish() forgets to report the partial frame.            *)
FinishSilently ==
  /\ pc \in {"push", "closed"}
  /\ pc' = "closed"
  /\ buffer' = <<>>
  /\ tally' = Count("truncated", Len(buffer))
  /\ UNCHANGED <<received, delivered, malformed>>

(* finish(): the stream ended; a partial frame is reported as truncated.   *)
Finish ==
  /\ pc \in {"push", "closed"}
  /\ pc' = "closed"
  /\ buffer' = <<>>
  /\ tally' = Count("truncated", Len(buffer))
  /\ malformed' = (malformed \/ Len(buffer) > 0)
  /\ UNCHANGED <<received, delivered>>

Push == \E byte \in Byte : HuntFirst(byte) \/ HuntSecond(byte) \/ Store(byte)

ProcessBuffer == AwaitMore \/ Reject \/ Deliver

Next == Push \/ ProcessBuffer \/ Finish

(* push() is synchronous: once in process_buffer() the loop runs on.       *)
Spec == Init /\ [][Next]_vars /\ WF_vars(ProcessBuffer)

-----------------------------------------------------------------------------
(* Properties.                                                             *)

TypeOK ==
  /\ buffer \in Seq(Byte)
  /\ pc \in {"push", "process", "closed"}
  /\ pc = "process" => Len(buffer) >= 2
  /\ received \in Seq(Byte)
  /\ delivered \in Seq([at : Nat \ {0}, bytes : Seq(Byte)])
  /\ tally \in [Categories -> Nat]
  /\ malformed \in BOOLEAN

(* How many bytes of the stream have been decided on.                      *)
Scanned == Len(received) - Len(buffer) - tally["truncated"]

Covers(d, p) == d.at <= p /\ p < d.at + Len(d.bytes)

Covered(p) == \E n \in 1 .. Len(delivered) : Covers(delivered[n], p)

(* A byte is never written past the end of buffer_, an array of            *)
(* maximum_frame_size bytes, whatever the stream holds: between two bytes  *)
(* there is room for one more.                                             *)
NoOverrun ==
  /\ Len(buffer) <= maximum_frame_size
  /\ pc = "push" => Len(buffer) < maximum_frame_size

(* The moves inside buffer_ (copy_n in rescan, align_to_sync and after a   *)
(* decoded frame) never lose, duplicate or reorder a byte: the buffer is   *)
(* always the unread end of the stream and starts with the sync bytes.     *)
BufferIsStreamSuffix ==
  /\ pc # "closed" => buffer = SubSeq(received, Scanned + 1, Len(received))
  /\ Len(buffer) >= 1 => buffer[1] = sync_first
  /\ Len(buffer) >= 2 => buffer[2] = sync_second

(* Every frame handed to the handler is a run of consecutive stream bytes  *)
(* that decode() accepts, and frames are handed over in stream order       *)
(* without sharing a byte.                                                 *)
DeliveredSound ==
  /\ \A n \in 1 .. Len(delivered) : LET d == delivered[n] IN
       /\ d.bytes = SubSeq(received, d.at, d.at + Len(d.bytes) - 1)
       /\ Decode(d.bytes) = "Ok"
       /\ d.at + Len(d.bytes) - 1 <= Scanned
  /\ \A m, n \in 1 .. Len(delivered) :
       m < n => delivered[m].at + Len(delivered[m].bytes) <= delivered[n].at

(* A position of s at which no frame can start, whatever bytes follow.     *)
Dead(s, p) ==
  \/ s[p] # sync_first
  \/ p + 1 <= Len(s) /\ s[p + 1] # sync_second
  \/ OversizedAt(s, p)
  \/ CompleteAt(s, p) /\ Decode(CandidateAt(s, p)) # "Ok"

(* An intact frame is never lost to the damage around it: every position   *)
(* the decoder has moved past lies in a delivered frame or starts no       *)
(* frame.  With DeliveredSound this fixes the output: it is exactly the    *)
(* left-to-right parse of the stream, however the stream was chunked.      *)
NothingLost == \A p \in 1 .. Scanned : Covered(p) \/ Dead(received, p)

(* A false header can hold back an intact frame, but never for longer than *)
(* one maximum-size frame: a frame that starts maximum_frame_size or more  *)
(* bytes before the end of what was pushed has been dealt with.            *)
BoundedDelay ==
  pc = "push" =>
    \A p \in 1 .. Len(received) :
      /\ SyncAt(received, p)
      /\ CompleteAt(received, p)
      /\ Decode(CandidateAt(received, p)) = "Ok"
      /\ p + maximum_frame_size - 1 <= Len(received)
      => Covered(p)

(* Every byte is accounted for exactly once: it is in a delivered frame,   *)
(* reported as noise, dropped by a rejection, cut off by finish(), or      *)
(* still buffered.                                                         *)
ByteAccounting ==
  Len(received) - Len(buffer) =
    tally["framed"] + tally["noise"] + tally["rejected"] + tally["truncated"]

(* The handler hears of an anomaly exactly when some byte was not part of  *)
(* a frame; the ground client's malformed_input() and its exit status rest *)
(* on this.                                                                *)
MalformedIffLoss ==
  malformed <=>
    tally["noise"] + tally["rejected"] + tally["truncated"] > 0

(* push_byte() always returns: the loop of process_buffer() terminates     *)
(* however many false headers the buffer holds.                            *)
PushReturns == (pc = "process") ~> (pc # "process")
=============================================================================
