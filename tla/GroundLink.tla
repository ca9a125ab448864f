----------------------------- MODULE GroundLink -----------------------------
(***************************************************************************)
(* The command link from ground to flight computer: ground clients, one    *)
(* session after the other, that may break off in the middle of a frame    *)
(* (send_all() failing, or the process dying); the serial line; and the    *)
(* flight computer's drain(), which feeds its one FrameStreamDecoder and   *)
(* hands every frame to decode_command() (main.cpp).  The UART overruns    *)
(* while the flight computer transmits or sleeps: nobody polls it then.    *)
(* Frames, checksum and decoder are the real ones.                         *)
(***************************************************************************)
EXTENDS MessageCodecs, FiniteSets

CONSTANTS
  Requests,  \* what a user may ask for: [command, period_ms]
  MaxFrames, \* bound: frames begun
  MaxLost,   \* bound: bytes overrun
  MaxBroken  \* bound: frames broken, by the end of a session or by overruns

(* parse() makes no other requests: only a period command has a period.    *)
ASSUME LinkAssumption ==
  /\ \A request \in Requests :
       /\ request \in [command : DOMAIN CommandCode, period_ms : Nat]
       /\ FitsU32(request.period_ms)
       /\ request.command # "SetTelemetryPeriod" => request.period_ms = 0
  /\ MaxFrames \in Nat /\ FitsU32(MaxFrames)
  /\ MaxLost \in Nat /\ MaxBroken \in Nat

VARIABLES
  next_sequence, \* the session's sequencer
  uplink,        \* bytes under way: [byte, number of the frame they belong to]
  attempts,      \* history: frames begun: [message, intact: all its bytes got through]
  handled,       \* history: commands processed: [number, message]
  numbers,       \* history: the frame each received byte belonged to
  lost,          \* history: bytes overrun
  buffer, pc, received, delivered, tally, malformed \* the decoder's

decoder == <<buffer, pc, received, delivered, tally, malformed>>

vars == <<next_sequence, uplink, attempts, handled, numbers, lost, decoder>>

LengthField(low, high) == low + 256 * high

Flight == INSTANCE FrameStreamDecoder WITH
  Byte <- Octet, sync_first <- 165, sync_second <- 90, header_size <- 6,
  length_low <- 4, length_high <- 5, PayloadLength <- LengthField,
  Decode <- DecodeStatusOf, MaxStream <- maximum_frame_size * MaxFrames

Init ==
  /\ Flight!Init
  /\ next_sequence = 1
  /\ uplink = <<>> /\ attempts = <<>> /\ handled = <<>> /\ numbers = <<>>
  /\ lost = 0

(* Seeded defect: the sequencer of a new session counts from 0.            *)
NewSessionAtZero ==
  /\ next_sequence # 1
  /\ next_sequence' = 0
  /\ UNCHANGED <<uplink, attempts, handled, numbers, lost, decoder>>

(* The client ends and a new one starts: another sequencer, which counts   *)
(* from 1 again.  The flight computer's decoder does not notice.           *)
NewSession ==
  /\ next_sequence # 1
  /\ next_sequence' = 1
  /\ UNCHANGED <<uplink, attempts, handled, numbers, lost, decoder>>

Numbered(request, sequence) ==
  [sequence |-> sequence, command |-> request.command, period_ms |-> request.period_ms]

(* One more frame may be broken.                                           *)
MayBreak ==
  Cardinality({number \in 1 .. Len(attempts) : ~attempts[number].intact}) < MaxBroken

(* parse(), encode_command(), send_all(): `count` bytes of the frame leave *)
(* before the session breaks off; all of them when it does not.            *)
SendFrame(request) ==
  LET message == Numbered(request, next_sequence)
      number  == Len(attempts) + 1
  IN  /\ number <= MaxFrames
      /\ \E frame \in {EncodeCommand(message)} : \E count \in 1 .. Len(frame) :
           LET whole == count = Len(frame) IN
           /\ whole \/ MayBreak
           /\ uplink' = uplink \o [i \in 1 .. count |-> [byte |-> frame[i], number |-> number]]
           /\ attempts' = Append(attempts, [message |-> message, intact |-> whole])
           /\ next_sequence' = IF whole THEN next_sequence + 1 ELSE 1
      /\ UNCHANGED <<handled, numbers, lost, decoder>>

(* The flight computer is busy: the next byte overwrites this one.         *)
Overrun ==
  /\ pc = "push"
  /\ uplink # <<>> /\ lost < MaxLost
  /\ attempts[Head(uplink).number].intact => MayBreak
  /\ uplink' = Tail(uplink)
  /\ attempts' = [attempts EXCEPT ![Head(uplink).number].intact = FALSE]
  /\ lost' = lost + 1
  /\ UNCHANGED <<next_sequence, handled, numbers, decoder>>

(* drain(): uart_poll_in() finds a byte and pushes it.                     *)
PollIn ==
  /\ uplink # <<>>
  /\ LET byte == Head(uplink).byte
     IN  Flight!HuntFirst(byte) \/ Flight!HuntSecond(byte) \/ Flight!Store(byte)
  /\ numbers' = Append(numbers, Head(uplink).number)
  /\ uplink' = Tail(uplink)
  /\ UNCHANGED <<next_sequence, attempts, handled, lost>>

(* Seeded defect: the status of the event is not looked at, so that a      *)
(* rejection finds the previous frame in it.                               *)
HandleAnyEvent ==
  LET event == delivered'[Len(delivered')]
      last  == event.at + Len(event.bytes) - 1 IN
  handled' = IF tally' # tally /\ delivered' # <<>> /\ DecodeCommandStatus(event.bytes) = "Ok"
             THEN Append(handled, [number  |-> numbers[last],
                                   message |-> DecodedCommand(event.bytes)])
             ELSE handled

(* handle_stream_event(): a frame that is a command is processed.  It is   *)
(* the command of the frame whose last byte completed it.                  *)
HandleEvent ==
  LET event == delivered'[Len(delivered')]
      last  == event.at + Len(event.bytes) - 1 IN
  handled' = IF delivered' # delivered /\ DecodeCommandStatus(event.bytes) = "Ok"
             THEN Append(handled, [number  |-> numbers[last],
                                   message |-> DecodedCommand(event.bytes)])
             ELSE handled

ProcessBuffer ==
  /\ Flight!ProcessBuffer
  /\ HandleEvent
  /\ UNCHANGED <<next_sequence, uplink, attempts, numbers, lost>>

Next ==
  \/ NewSession \/ \E request \in Requests : SendFrame(request)
  \/ Overrun \/ PollIn \/ ProcessBuffer

Spec == Init /\ [][Next]_vars

-----------------------------------------------------------------------------
(* Properties.                                                             *)

Messages == {Numbered(request, n) : request \in Requests, n \in 1 .. MaxFrames}

Channel == INSTANCE CommandChannel WITH
  Message <- Messages,
  sent    <- [i \in 1 .. Len(attempts) |-> attempts[i].message],
  got     <- handled

CommandMessage == [sequence : Nat, command : DOMAIN CommandCode, period_ms : Nat]

(* That a message handled is one of Messages is part of the channel below. *)
TypeOK ==
  /\ next_sequence \in 1 .. MaxFrames + 1
  /\ \A i \in 1 .. Len(uplink) :
       uplink[i] \in [byte : Octet, number : 1 .. Len(attempts)]
  /\ \A n \in 1 .. Len(handled) :
       handled[n] \in [number : 1 .. Len(attempts), message : CommandMessage]
  /\ Len(numbers) = Len(received) /\ lost \in 0 .. MaxLost

(* Every command the flight computer processes is one that a client sent,  *)
(* in the order they were sent and at most once, although fragments of     *)
(* several sessions and the holes of overruns run together into one byte   *)
(* stream: they never combine into a command.                              *)
ImplementsChannel == Channel!Spec

(* The command with this number was processed, as it was sent.             *)
Served(number) ==
  \E n \in 1 .. Len(handled) :
    handled[n] = [number |-> number, message |-> attempts[number].message]

(* Bytes left over before this command were completed to a frame by its    *)
(* first bytes, and decode() accepted that.                                *)
Swallowed(number) ==
  \E n \in 1 .. Len(delivered) :
    LET d == delivered[n] IN
    numbers[d.at] < number /\ number <= numbers[d.at + Len(d.bytes) - 1]

(* The decoder is waiting for the end of a frame that was never sent: what *)
(* it holds begins in what is left of a frame before this one, broken or   *)
(* swallowed, and reads as a header, but not as the one sent with it.      *)
HeldBack(number) ==
  LET start == numbers[Len(received) - Len(buffer) + 1] IN
  /\ Flight!HeaderAt(buffer, 1)
  /\ start < number
  /\ ~attempts[start].intact \/ Swallowed(start)
  /\ SubSeq(buffer, 1, 6) # SubSeq(EncodeCommand(attempts[start].message), 1, 6)

(* A fragment does not hold up the commands behind it.  The decoder has no *)
(* timeout and no notion of a session, and waits for the rest of a frame   *)
(* that will never come; but as soon as the bytes of an intact command are *)
(* in, it has been processed as it was sent, whatever else is under way    *)
(* and whatever fragments precede it: a fragment's own header announces no *)
(* more than one command can supply.  Two things alone can prevent that:   *)
(* other left-over bytes that read as a header, which delay the command    *)
(* while the decoder waits on them, and left-over bytes that the first     *)
(* ones of this very command complete to a frame with a good checksum.     *)
PromptUnlessHeldBack ==
  pc = "push" =>
    \A number \in 1 .. Len(attempts) :
      /\ attempts[number].intact
      /\ \A i \in 1 .. Len(uplink) : uplink[i].number # number
      => Served(number) \/ HeldBack(number) \/ Swallowed(number)
=============================================================================
