---------------------------- MODULE GroundStream ----------------------------
(***************************************************************************)
(* apogee::ground::GroundStreamProcessor (ground_client.hpp) behind its    *)
(* stream decoder, and run_offline() (apogee_ground_client.cpp), which     *)
(* feeds it a file and turns what it saw into the exit status.             *)
(*                                                                         *)
(* The bytes of the file are the bytes pushed.  The 256-byte chunks they   *)
(* are read in leave no trace: feed() pushes byte by byte.                 *)
(***************************************************************************)
EXTENDS FrameStreamDecoder

CONSTANTS
  TypeOf(_),      \* message type of a frame that decode() accepts
  PayloadSound(_) \* its message codec accepts it

VARIABLES
  decoded_messages, \* decoded_messages_
  malformed_input,  \* malformed_input_
  exit              \* what run_offline() returned, -1 while it runs

processor == <<decoded_messages, malformed_input, exit>>

offline_vars == <<vars, processor>>

OfflineInit ==
  /\ Init
  /\ decoded_messages = 0
  /\ malformed_input = FALSE
  /\ exit = -1

(* Which decoded frames are printed: handle_event() and the two printers.  *)
Printable(frame) == TypeOf(frame) \in {"Telemetry", "CommandAck"} /\ PayloadSound(frame)

(* Seeded defect: a frame the message codec refuses is merely not counted. *)
HandleLeniently ==
  /\ decoded_messages' = IF delivered' # delivered /\ Printable(delivered'[Len(delivered')].bytes)
                         THEN decoded_messages + 1 ELSE decoded_messages
  /\ malformed_input' = (malformed_input \/ malformed')

(* handle_event() for the events of one decoder step: a frame is printed   *)
(* and counted or marks the input malformed, as every other event does.    *)
HandleEvents ==
  IF delivered' # delivered /\ ~Printable(delivered'[Len(delivered')].bytes)
  THEN malformed_input' = TRUE /\ UNCHANGED decoded_messages
  ELSE /\ malformed_input' = (malformed_input \/ malformed')
       /\ decoded_messages' = IF delivered' = delivered THEN decoded_messages
                              ELSE decoded_messages + 1

Feed ==
  /\ exit = -1
  /\ Push \/ ProcessBuffer
  /\ HandleEvents
  /\ UNCHANGED exit

Status == IF decoded_messages' = 0 \/ malformed_input' THEN 1 ELSE 0

(* The end of the file: finish(), then the verdict.                        *)
EndOfFile ==
  /\ exit = -1
  /\ Finish
  /\ HandleEvents
  /\ exit' = Status

(* The file cannot be opened, or read on: no finish(), no verdict.         *)
ReadError ==
  /\ exit = -1
  /\ pc = "push"
  /\ exit' = 1
  /\ UNCHANGED <<vars, decoded_messages, malformed_input>>

OfflineNext == Feed \/ EndOfFile \/ ReadError

OfflineSpec == OfflineInit /\ [][OfflineNext]_offline_vars

-----------------------------------------------------------------------------
(* Properties.                                                             *)

(* A whole printable frame, judged without the decoder's state.            *)
MessageFrame(s) ==
  /\ SyncAt(s, 1)
  /\ CompleteAt(s, 1) /\ FrameSize(s, 1) = Len(s)
  /\ Decode(s) = "Ok" /\ Printable(s)

(* s is one message after the other, at least one, and nothing else.       *)
IsRecording(s) ==
  LET messages_up_to[n \in 0 .. Len(s)] ==
        \/ n = 0
        \/ \E k \in 0 .. (n - 1) : messages_up_to[k] /\ MessageFrame(SubSeq(s, k + 1, n))
  IN  Len(s) > 0 /\ messages_up_to[Len(s)]

(* The exit status is a fact about the file alone: 0 if and only if the    *)
(* file is a sequence of messages, whatever the decoder had to collect,    *)
(* reject and search through to find out, and a read that fails never      *)
(* counts as success.                                                      *)
ExitStatusExact ==
  /\ pc = "closed" => (exit = 0 <=> IsRecording(received))
  /\ exit = 0 => pc = "closed"
=============================================================================
