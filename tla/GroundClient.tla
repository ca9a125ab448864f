---------------------------- MODULE GroundClient ----------------------------
(***************************************************************************)
(* The live ground client: run_live() (apogee_ground_client.cpp) and its   *)
(* CommandSequencer (ground_client.hpp).  One thread polls the socket and  *)
(* standard input, feeds what it receives to the stream processor, and     *)
(* sends one command for each valid line.                                  *)
(*                                                                         *)
(* A typed line is its word and its arguments, a frame a number of pieces, *)
(* the socket's input a number of reads.  Only interrupted calls (EINTR)   *)
(* are left out: they repeat the call.                                     *)
(***************************************************************************)
EXTENDS Integers, Sequences, FiniteSets

CONSTANTS
  Lines,      \* lines the user may type
  Kinds,      \* what standard input may be: "terminal", "pipe", "file"
  Files,      \* what such a file may hold
  UInt32,     \* 2^32 in the code
  FrameSize,  \* pieces of a frame: send() may take some of them
  MaxTyped,   \* bound: lines typed
  MaxInbound, \* bound: reads waiting in the socket
  MaxOutbound \* bound: pieces the server has not taken yet

ASSUME ClientAssumption ==
  /\ UInt32 \in Nat \ {0, 1} /\ FrameSize \in Nat \ {0}
  /\ MaxInbound \in Nat /\ MaxOutbound \in Nat \ {0} /\ MaxTyped \in Nat
  /\ Files \subseteq Seq(Lines)

VARIABLES
  pc,       \* where run_live() is
  revents,  \* what poll() reported, as the rest of the turn sees it
  server,   \* "up"; "closed": end of stream; "hungup", "failed": POLLHUP, POLLERR
  inbound,  \* reads waiting in the socket
  outbound, \* pieces sent and not yet taken by the server
  stdin,    \* [kind, lines waiting, half: an unfinished line, closed]
  cin,      \* whole lines in std::cin's buffer, which poll() does not see
  next_sequence, \* sequencer.next_sequence_
  command,  \* the command being sent
  offset,   \* pieces of its frame on the wire
  finished, \* processor.finish() was called
  exit,     \* exit status, -1 while running
  typed,    \* history: every line typed
  sent      \* history: every command sent whole

link == <<server, inbound, outbound>>
input == <<stdin, cin, typed>>
sender == <<next_sequence, command, offset, sent>>
end == <<finished, exit>>

vars == <<pc, revents, link, input, sender, end>>

-----------------------------------------------------------------------------
(* CommandSequencer::parse().                                              *)

Bare(word) == [word |-> word, arguments |-> <<>>]

IsPeriod(line) ==
  /\ line.word = "period"
  /\ Len(line.arguments) = 1 /\ line.arguments[1] \in 0 .. (UInt32 - 1)

ParseStatus(line) ==
  CASE line = Bare("quit")                                           -> "Quit"
    [] line \in {Bare("ping"), Bare("safe")} \/ IsPeriod(line)       -> "Command"
    [] OTHER                                                         -> "InvalidSyntax"

MakeCommand(line, sequence) ==
  [sequence  |-> sequence,
   command   |-> CASE line.word = "ping"   -> "Ping"
                   [] line.word = "safe"   -> "EnterSafeMode"
                   [] line.word = "period" -> "SetTelemetryPeriod",
   period_ms |-> IF line.word = "period" THEN line.arguments[1] ELSE 0]

-----------------------------------------------------------------------------
Idle == [sequence |-> 0, command |-> "Ping", period_ms |-> 0]

Init ==
  /\ pc = "connect"
  /\ revents = [socket |-> {}, stdin |-> {}]
  /\ server = "up" /\ inbound = 0 /\ outbound = 0
  /\ \E kind \in Kinds, file \in Files :
       /\ stdin = [kind |-> kind, half |-> FALSE, closed |-> kind = "file",
                   lines |-> IF kind = "file" THEN file ELSE <<>>]
       /\ typed = stdin.lines
  /\ cin = <<>>
  /\ next_sequence = 1 /\ command = Idle /\ offset = 0 /\ sent = <<>>
  /\ finished = FALSE /\ exit = -1

(* close(socket_fd) and return.                                            *)
Return(status) == pc' = "exited" /\ exit' = status

(* connect_tcp(): one of the addresses answers, or none does.              *)
Connect ==
  /\ pc = "connect"
  /\ (pc' = "poll" /\ UNCHANGED exit) \/ Return(1)
  /\ UNCHANGED <<revents, link, input, sender, finished>>

(* Seeded defect: POLLRDHUP is taken for a hang-up.                        *)
HalfClosedIsHangUp ==
  {event \in {"IN", "HUP", "ERR"} :
     CASE event = "IN"  -> inbound > 0 \/ server # "up"
       [] event = "HUP" -> server \in {"closed", "hungup"}
       [] event = "ERR" -> server = "failed"}

SocketEvents ==
  {event \in {"IN", "HUP", "ERR"} :
     CASE event = "IN"  -> inbound > 0 \/ server # "up"
       [] event = "HUP" -> server = "hungup"
       [] event = "ERR" -> server = "failed"}

(* A file is always readable, a closed terminal reads as empty, a closed   *)
(* pipe hangs up; a terminal does not show a line before it is complete.   *)
StdinEvents ==
  {event \in {"IN", "HUP"} :
     CASE event = "IN" ->
            \/ stdin.lines # <<>> \/ stdin.kind = "file"
            \/ stdin.half
            \/ stdin.kind = "terminal" /\ stdin.closed
       [] event = "HUP" -> stdin.kind = "pipe" /\ stdin.closed}

Poll ==
  /\ pc = "poll"
  /\ SocketEvents # {} \/ StdinEvents # {}
  /\ revents' = [socket |-> SocketEvents, stdin |-> StdinEvents]
  /\ pc' = "recv"
  /\ UNCHANGED <<link, input, sender, end>>

PollFails ==
  /\ pc = "poll"
  /\ Return(1)
  /\ UNCHANGED <<revents, link, input, sender, finished>>

NothingToReceive ==
  /\ pc = "recv" /\ "IN" \notin revents.socket
  /\ pc' = "flags"
  /\ UNCHANGED <<revents, link, input, sender, end>>

(* Seeded defect: back to poll() after a read, standard input must wait.   *)
ReceiveAndPoll ==
  /\ pc = "recv" /\ "IN" \in revents.socket /\ inbound > 0
  /\ inbound' = inbound - 1
  /\ pc' = "poll"
  /\ UNCHANGED <<revents, server, outbound, input, sender, end>>

Receive ==
  /\ pc = "recv" /\ "IN" \in revents.socket /\ inbound > 0
  /\ inbound' = inbound - 1
  /\ pc' = "flags"
  /\ UNCHANGED <<revents, server, outbound, input, sender, end>>

(* recv() returns 0, or an error.                                          *)
ReceiveEnds ==
  /\ pc = "recv" /\ "IN" \in revents.socket /\ inbound = 0 /\ server # "up"
  /\ IF server = "failed"
     THEN Return(1) /\ UNCHANGED finished
     ELSE Return(0) /\ finished' = TRUE
  /\ UNCHANGED <<revents, link, input, sender>>

(* Seeded defect: standard input is read whether poll() found any or not.  *)
ReadStdinAnyway ==
  /\ pc = "flags"
  /\ CASE "ERR" \in revents.socket -> Return(1) /\ UNCHANGED finished
       [] "ERR" \notin revents.socket /\ "HUP" \in revents.socket ->
            Return(0) /\ finished' = TRUE
       [] OTHER -> pc' = "getline" /\ UNCHANGED end
  /\ UNCHANGED <<revents, link, input, sender>>

(* The flags of the socket, whatever is left to receive.                   *)
CheckSocket ==
  /\ pc = "flags"
  /\ CASE "ERR" \in revents.socket -> Return(1) /\ UNCHANGED finished
       [] "ERR" \notin revents.socket /\ "HUP" \in revents.socket ->
            Return(0) /\ finished' = TRUE
       [] OTHER ->
            /\ pc' = IF "IN" \in revents.stdin THEN "getline" ELSE "hangup"
            /\ UNCHANGED end
  /\ UNCHANGED <<revents, link, input, sender>>

(* std::getline() with an empty buffer: a terminal gives up one line, a    *)
(* pipe or a file all there is.                                            *)
Refill ==
  /\ pc = "getline" /\ cin = <<>> /\ stdin.lines # <<>>
  /\ LET count == IF stdin.kind = "terminal" THEN 1 ELSE Len(stdin.lines) IN
       /\ cin' = SubSeq(stdin.lines, 1, count)
       /\ stdin' = [stdin EXCEPT !.lines = SubSeq(@, count + 1, Len(@))]
  /\ UNCHANGED <<pc, revents, link, sender, end, typed>>

EndOfInput ==
  /\ pc = "getline" /\ cin = <<>> /\ stdin.lines = <<>> /\ stdin.closed
  /\ Return(0)
  /\ UNCHANGED <<revents, link, input, sender, finished>>

(* Seeded defects: an invalid line uses up a sequence number; the number   *)
(* does not wrap.                                                          *)
CountEveryLine(line) == (next_sequence + 1) % UInt32

CountWithoutWrap(line) ==
  IF ParseStatus(line) = "Command" THEN next_sequence + 1 ELSE next_sequence

SequenceAfter(line) ==
  IF ParseStatus(line) = "Command" THEN (next_sequence + 1) % UInt32 ELSE next_sequence

(* getline() returns a line: leave, complain and poll again, or send.      *)
HandleLine ==
  /\ pc = "getline" /\ cin # <<>>
  /\ cin' = Tail(cin)
  /\ next_sequence' = SequenceAfter(Head(cin))
  /\ CASE ParseStatus(Head(cin)) = "Quit" -> Return(0) /\ UNCHANGED <<command, offset>>
       [] ParseStatus(Head(cin)) = "InvalidSyntax" ->
            pc' = "poll" /\ UNCHANGED <<exit, command, offset>>
       [] ParseStatus(Head(cin)) = "Command" ->
            /\ command' = MakeCommand(Head(cin), next_sequence)
            /\ offset' = 0
            /\ pc' = "send" /\ UNCHANGED exit
  /\ UNCHANGED <<revents, link, stdin, typed, sent, finished>>

(* Seeded defect: send() once and hope.                                    *)
SendOnce ==
  /\ pc = "send" /\ server # "failed"
  /\ \E count \in 1 .. (FrameSize - offset) :
       /\ outbound + count <= MaxOutbound
       /\ offset' = offset + count
       /\ outbound' = outbound + count
  /\ sent' = Append(sent, command) /\ pc' = "hangup"
  /\ UNCHANGED <<revents, server, inbound, input, next_sequence, command, end>>

(* One send() of send_all(): as many pieces as the socket takes.           *)
Send ==
  /\ pc = "send" /\ server # "failed"
  /\ \E count \in 1 .. (FrameSize - offset) :
       /\ outbound + count <= MaxOutbound
       /\ offset' = offset + count
       /\ outbound' = outbound + count
  /\ IF offset' = FrameSize
     THEN sent' = Append(sent, command) /\ pc' = "hangup"
     ELSE UNCHANGED <<sent, pc>>
  /\ UNCHANGED <<revents, server, inbound, input, next_sequence, command, end>>

SendFails ==
  /\ pc = "send" /\ server # "up"
  /\ Return(1)
  /\ UNCHANGED <<revents, link, input, sender, finished>>

CheckStdin ==
  /\ pc = "hangup"
  /\ IF "HUP" \in revents.stdin THEN Return(0) ELSE pc' = "poll" /\ UNCHANGED exit
  /\ UNCHANGED <<revents, link, input, sender, finished>>

Client ==
  \/ Connect \/ Poll \/ NothingToReceive \/ Receive \/ ReceiveEnds \/ CheckSocket
  \/ Refill \/ EndOfInput \/ HandleLine \/ Send \/ SendFails \/ CheckStdin

-----------------------------------------------------------------------------
(* The other side of the socket, and the user.                             *)

ServerSends ==
  /\ server = "up" /\ inbound < MaxInbound
  /\ inbound' = inbound + 1
  /\ UNCHANGED <<pc, revents, server, outbound, input, sender, end>>

ServerTakes ==
  /\ server = "up" /\ outbound > 0
  /\ outbound' = outbound - 1
  /\ UNCHANGED <<pc, revents, server, inbound, input, sender, end>>

ServerGoes(how) ==
  /\ server \in {"up", "closed"} /\ how # server
  /\ server' = how
  /\ UNCHANGED <<pc, revents, inbound, outbound, input, sender, end>>

User == ~stdin.closed /\ UNCHANGED <<pc, revents, link, cin, sender, end>>

Type(line) ==
  /\ User
  /\ Len(typed) < MaxTyped
  /\ stdin' = [stdin EXCEPT !.lines = Append(@, line), !.half = FALSE]
  /\ typed' = Append(typed, line)

TypeHalf ==
  /\ User
  /\ stdin.kind = "pipe" /\ Len(typed) < MaxTyped
  /\ stdin' = [stdin EXCEPT !.half = TRUE]
  /\ UNCHANGED typed

(* An unfinished last line counts as a line: it was typed before.          *)
CloseStdin ==
  /\ User
  /\ ~stdin.half
  /\ stdin' = [stdin EXCEPT !.closed = TRUE]
  /\ UNCHANGED typed

Environment ==
  \/ ServerSends \/ ServerTakes \/ \E how \in {"closed", "hungup", "failed"} : ServerGoes(how)
  \/ (\E line \in Lines : Type(line)) \/ TypeHalf \/ CloseStdin

Next == Client \/ PollFails \/ Environment

(* The client runs, and the server takes what it is sent.                  *)
Spec == Init /\ [][Next]_vars /\ WF_vars(Client) /\ WF_vars(ServerTakes)
-----------------------------------------------------------------------------
(* Properties.                                                             *)

Command == [sequence : 0 .. (UInt32 - 1), period_ms : 0 .. (UInt32 - 1),
            command : {"Ping", "EnterSafeMode", "SetTelemetryPeriod"}]

TypeOK ==
  /\ pc \in {"connect", "poll", "recv", "flags", "getline", "send", "hangup", "exited"}
  /\ revents \in [socket : SUBSET {"IN", "HUP", "ERR"}, stdin : SUBSET {"IN", "HUP"}]
  /\ server \in {"up", "closed", "hungup", "failed"}
  /\ inbound \in 0 .. MaxInbound /\ outbound \in 0 .. MaxOutbound
  /\ stdin \in [kind : Kinds, lines : Seq(Lines), half : BOOLEAN, closed : BOOLEAN]
  /\ cin \in Seq(Lines) /\ typed \in Seq(Lines)
  /\ next_sequence \in 0 .. (UInt32 - 1)
  /\ command \in Command /\ sent \in Seq(Command)
  /\ offset \in 0 .. FrameSize
  /\ finished \in BOOLEAN /\ exit \in {-1, 0, 1}

(* How many of the typed lines getline() has returned.                     *)
Taken == Len(typed) - Len(stdin.lines) - Len(cin)

(* The valid ones among the first k typed lines.                           *)
ValidLines(k) == {j \in 1 .. k : ParseStatus(typed[j]) = "Command"}

(* The commands on the wire are the valid lines taken so far, in the order *)
(* they were typed and numbered from 1 without a gap: no line is skipped   *)
(* or taken twice between the kernel, std::cin and a busy socket, and what *)
(* was not sent used up no number.  Only the last may still be under way.  *)
SentInOrder ==
  LET commands == Cardinality(ValidLines(Taken))
  IN  /\ next_sequence = (1 + commands) % UInt32
      /\ Len(sent) \in {commands - 1, commands}
      /\ Len(sent) < commands => pc = "send" \/ exit = 1
      /\ \A k \in ValidLines(Taken) :
           LET n == Cardinality(ValidLines(k)) IN
           n <= Len(sent) => sent[n] = MakeCommand(typed[k], n % UInt32)

(* A partial send() never leaves a fragment of a command for the flight    *)
(* computer's decoder, unless the connection itself broke: while the       *)
(* client does anything else, and when it ends with status 0, every frame  *)
(* it began is on the wire whole.                                          *)
WholeFrames == pc # "send" /\ exit # 1 => offset \in {0, FrameSize}

(* finish() has the last word: the processor is finished only when the     *)
(* server is gone, and after an orderly end of stream everything that was  *)
(* received before it has been printed first.                              *)
FinishedLast == finished => server # "up" /\ (server = "closed" => inbound = 0)

(* At a terminal or from a file every line is taken in the end, however    *)
(* much telemetry keeps arriving.  For a pipe this is not so: see README.  *)
LinesServed ==
  stdin.kind = "pipe" \/ \A n \in 1 .. MaxTyped :
    Len(typed) >= n ~> Taken >= n \/ exit # -1

(* The socket is served whatever is typed, unless the user leaves a line   *)
(* in a pipe unfinished: std::getline() waits for the rest of it.          *)
SocketServed ==
  \/ []<>stdin.half
  \/ inbound = MaxInbound ~> inbound < MaxInbound \/ exit # -1
=============================================================================
