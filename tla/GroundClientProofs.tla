-------------------------- MODULE GroundClientProofs --------------------------
(***************************************************************************)
(* For every set of lines, every kind of standard input, every size of the *)
(* socket's buffers and every way the server may go: the live client keeps *)
(* its types, sends the valid lines in order and without a gap, leaves no  *)
(* fragment of a frame behind unless the connection broke, and finishes    *)
(* the processor last.                                                     *)
(***************************************************************************)
EXTENDS GroundClient, SequenceTheorems, FiniteSetTheorems, TLAPS

(* While the client runs it has no exit status.                            *)
Running == pc # "exited" => exit = -1

(* A hang-up that poll() reported lasts.                                   *)
HangUpLasts == "HUP" \in revents.socket => server = "hungup"

(* The inductive invariant.                                                *)
IInv == TypeOK /\ Running /\ HangUpLasts /\ WholeFrames /\ FinishedLast

-----------------------------------------------------------------------------
(* Facts about the sequencer.                                              *)

(* A sequence number stays one, whether it is counted or not.              *)
LEMMA SequenceStays ==
  ASSUME next_sequence \in 0 .. (UInt32 - 1), NEW line
  PROVE  SequenceAfter(line) \in 0 .. (UInt32 - 1)
<1>1. UInt32 \in Nat \ {0}
  BY ClientAssumption
<1>2. (next_sequence + 1) % UInt32 \in 0 .. (UInt32 - 1)
  BY <1>1
<1>3. QED
  BY <1>2 DEF SequenceAfter

(* parse() returns one of three statuses.                                  *)
LEMMA Statuses ==
  ASSUME NEW line
  PROVE  ParseStatus(line) \in {"Quit", "Command", "InvalidSyntax"}
  BY DEF ParseStatus

(* A valid line makes a command of the wire's types.                       *)
LEMMA CommandMade ==
  ASSUME NEW line, ParseStatus(line) = "Command",
         NEW sequence \in 0 .. (UInt32 - 1)
  PROVE  MakeCommand(line, sequence) \in Command
<1>1. 0 \in 0 .. (UInt32 - 1)
  BY ClientAssumption
<1>2. \/ line = Bare("ping") \/ line = Bare("safe")
      \/ IsPeriod(line)
  BY DEF ParseStatus
<1>3. CASE line = Bare("ping")
  <2>1. line.word = "ping"
    BY <1>3 DEF Bare
  <2>2. QED
    BY <1>1, <2>1 DEF MakeCommand, Command
<1>4. CASE line = Bare("safe")
  <2>1. line.word = "safe"
    BY <1>4 DEF Bare
  <2>2. QED
    BY <1>1, <2>1 DEF MakeCommand, Command
<1>5. CASE IsPeriod(line)
  <2>1. line.word = "period" /\ line.arguments[1] \in 0 .. (UInt32 - 1)
    BY <1>5 DEF IsPeriod
  <2>2. QED
    BY <2>1 DEF MakeCommand, Command
<1>6. QED
  BY <1>2, <1>3, <1>4, <1>5

-----------------------------------------------------------------------------
(* Both parts of a sequence are sequences.                                 *)
LEMMA SplitSeq ==
  ASSUME NEW S, NEW s \in Seq(S), NEW k \in Nat, k <= Len(s)
  PROVE  SubSeq(s, 1, k) \in Seq(S) /\ SubSeq(s, k + 1, Len(s)) \in Seq(S)
<1>1. Len(s) \in Nat
  BY LenProperties
<1>2. \A i \in 1 .. k : s[i] \in S
  <2>1. \A i \in 1 .. k : i \in 1 .. Len(s)
    BY <1>1
  <2>2. QED
    BY <2>1, ElementOfSeq
<1>3. \A i \in (k + 1) .. Len(s) : s[i] \in S
  <2>1. \A i \in (k + 1) .. Len(s) : i \in 1 .. Len(s)
    BY <1>1
  <2>2. QED
    BY <2>1, ElementOfSeq
<1>4. 1 \in Int /\ k \in Int /\ k + 1 \in Int /\ Len(s) \in Int
  BY <1>1
<1>5. SubSeq(s, 1, k) \in Seq(S)
  BY <1>2, <1>4, SubSeqProperties
<1>6. SubSeq(s, k + 1, Len(s)) \in Seq(S)
  BY <1>3, <1>4, SubSeqProperties
<1>7. QED
  BY <1>5, <1>6

(* The client as it starts satisfies the invariant.                        *)
LEMMA InitIInv == Init => IInv
<1> SUFFICES ASSUME Init PROVE IInv
  OBVIOUS
<1>1. PICK kind \in Kinds, file \in Files :
        /\ stdin = [kind |-> kind, half |-> FALSE, closed |-> kind = "file",
                    lines |-> IF kind = "file" THEN file ELSE <<>>]
        /\ typed = stdin.lines
  BY DEF Init
<1>2. stdin \in [kind : Kinds, lines : Seq(Lines), half : BOOLEAN, closed : BOOLEAN]
  <2>1. file \in Seq(Lines) /\ <<>> \in Seq(Lines)
    BY ClientAssumption, EmptySeq
  <2>2. (IF kind = "file" THEN file ELSE <<>>) \in Seq(Lines)
    BY <2>1
  <2>3. QED
    BY <1>1, <2>2
<1>3. typed \in Seq(Lines) /\ cin \in Seq(Lines) /\ sent \in Seq(Command)
  BY <1>1, <1>2, EmptySeq DEF Init
<1>4. /\ 0 \in 0 .. MaxInbound /\ 0 \in 0 .. MaxOutbound /\ 0 \in 0 .. FrameSize
      /\ 0 \in 0 .. (UInt32 - 1) /\ 1 \in 0 .. (UInt32 - 1)
  BY ClientAssumption
<1>5. command \in Command
  BY <1>4 DEF Init, Idle, Command
<1>6. TypeOK
  BY <1>2, <1>3, <1>4, <1>5 DEF Init, TypeOK
<1>7. Running /\ HangUpLasts /\ WholeFrames /\ FinishedLast
  BY DEF Init, Running, HangUpLasts, WholeFrames, FinishedLast
<1>8. QED
  BY <1>6, <1>7 DEF IInv

-----------------------------------------------------------------------------
(* Every step keeps the variables' types.                                  *)
LEMMA NextTypeOK ==
  ASSUME TypeOK, [Next]_vars
  PROVE  TypeOK'
<1> USE DEF link, input, sender, end
<1>1. CASE Connect \/ PollFails
  BY <1>1 DEF Connect, PollFails, Return, TypeOK
<1>2. CASE Poll
  <2>1. SocketEvents \in SUBSET {"IN", "HUP", "ERR"} /\ StdinEvents \in SUBSET {"IN", "HUP"}
    BY DEF SocketEvents, StdinEvents
  <2>2. revents' \in [socket : SUBSET {"IN", "HUP", "ERR"}, stdin : SUBSET {"IN", "HUP"}]
    BY <1>2, <2>1 DEF Poll
  <2>3. QED
    BY <1>2, <2>2 DEF Poll, TypeOK
<1>3. CASE NothingToReceive \/ EndOfInput \/ SendFails
  BY <1>3 DEF NothingToReceive, EndOfInput, SendFails, Return, TypeOK
<1>4. CASE Receive
  <2>1. inbound' \in 0 .. MaxInbound
    BY <1>4, ClientAssumption DEF Receive, TypeOK
  <2>2. QED
    BY <1>4, <2>1 DEF Receive, TypeOK
<1>5. CASE ReceiveEnds \/ CheckSocket \/ CheckStdin
  <2>1. /\ pc' \in {"poll", "getline", "hangup", "exited"}
        /\ finished' \in BOOLEAN /\ exit' \in {-1, 0, 1}
    BY <1>5 DEF ReceiveEnds, CheckSocket, CheckStdin, Return, TypeOK
  <2>2. UNCHANGED <<revents, link, input, sender>>
    BY <1>5 DEF ReceiveEnds, CheckSocket, CheckStdin
  <2>3. QED
    BY <2>1, <2>2 DEF TypeOK
<1>6. CASE Refill
  <2> DEFINE count == IF stdin.kind = "terminal" THEN 1 ELSE Len(stdin.lines)
  <2>1. /\ count \in Nat /\ count <= Len(stdin.lines)
        /\ cin' = SubSeq(stdin.lines, 1, count)
        /\ stdin' = [stdin EXCEPT !.lines = SubSeq(@, count + 1, Len(@))]
    <3>1. stdin.lines \in Seq(Lines) /\ stdin.lines # <<>>
      BY <1>6 DEF Refill, TypeOK
    <3>2. Len(stdin.lines) \in Nat /\ 1 <= Len(stdin.lines)
      BY <3>1, EmptySeq, LenProperties
    <3>3. QED
      BY <1>6, <3>2 DEF Refill
  <2> HIDE DEF count
  <2>2. stdin.lines \in Seq(Lines)
    BY DEF TypeOK
  <2>3. SubSeq(stdin.lines, 1, count) \in Seq(Lines)
    BY <2>1, <2>2, SplitSeq
  <2>4. SubSeq(stdin.lines, count + 1, Len(stdin.lines)) \in Seq(Lines)
    BY <2>1, <2>2, SplitSeq
  <2>5. stdin' \in [kind : Kinds, lines : Seq(Lines), half : BOOLEAN, closed : BOOLEAN]
    BY <2>1, <2>4 DEF TypeOK
  <2>6. QED
    BY <1>6, <2>1, <2>3, <2>5 DEF Refill, TypeOK
<1>7. CASE HandleLine
  <2>1. cin \in Seq(Lines) /\ cin # <<>> /\ cin' \in Seq(Lines) /\ Head(cin) \in Lines
    BY <1>7, HeadTailProperties DEF HandleLine, TypeOK
  <2>2. next_sequence' \in 0 .. (UInt32 - 1)
    BY <1>7, SequenceStays DEF HandleLine, TypeOK
  <2>3. 0 \in 0 .. FrameSize
    BY ClientAssumption
  <2>4. CASE ParseStatus(Head(cin)) = "Command"
    <3>1. /\ command' = MakeCommand(Head(cin), next_sequence)
          /\ offset' = 0 /\ pc' = "send" /\ exit' = exit
      BY <1>7, <2>4 DEF HandleLine
    <3>2. command' \in Command
      BY <2>4, <3>1, CommandMade DEF TypeOK
    <3>3. QED
      BY <1>7, <2>1, <2>2, <2>3, <3>1, <3>2 DEF HandleLine, TypeOK
  <2>5. CASE ParseStatus(Head(cin)) \in {"Quit", "InvalidSyntax"}
    <3>1. command' = command /\ offset' = offset
      BY <1>7, <2>5 DEF HandleLine
    <3>2. pc' \in {"poll", "exited"} /\ exit' \in {exit, 0}
      BY <1>7, <2>5 DEF HandleLine, Return
    <3>3. QED
      BY <1>7, <2>1, <2>2, <3>1, <3>2 DEF HandleLine, TypeOK
  <2>6. QED
    BY <2>4, <2>5, Statuses
<1>8. CASE Send
  <2>1. PICK count \in 1 .. (FrameSize - offset) :
          /\ outbound + count <= MaxOutbound
          /\ offset' = offset + count
          /\ outbound' = outbound + count
    BY <1>8 DEF Send
  <2>2. offset' \in 0 .. FrameSize /\ outbound' \in 0 .. MaxOutbound
    BY <2>1, ClientAssumption DEF TypeOK
  <2>3. sent' \in Seq(Command) /\ pc' \in {"send", "hangup"}
    <3>1. Append(sent, command) \in Seq(Command) /\ sent \in Seq(Command)
      BY AppendProperties DEF TypeOK
    <3>2. \/ sent' = Append(sent, command) /\ pc' = "hangup"
          \/ sent' = sent /\ pc' = pc
      BY <1>8 DEF Send
    <3>3. QED
      BY <1>8, <3>1, <3>2 DEF Send
  <2>4. QED
    BY <1>8, <2>2, <2>3 DEF Send, TypeOK
<1>9. CASE ServerSends \/ ServerTakes
  <2>1. inbound' \in 0 .. MaxInbound /\ outbound' \in 0 .. MaxOutbound
    BY <1>9, ClientAssumption DEF ServerSends, ServerTakes, TypeOK
  <2>2. QED
    BY <1>9, <2>1 DEF ServerSends, ServerTakes, TypeOK
<1>10. CASE \E how \in {"closed", "hungup", "failed"} : ServerGoes(how)
  BY <1>10 DEF ServerGoes, TypeOK
<1>11. ASSUME NEW line \in Lines, Type(line) PROVE TypeOK'
  <2>1. typed' \in Seq(Lines) /\ Append(stdin.lines, line) \in Seq(Lines)
    BY <1>11, AppendProperties DEF Type, TypeOK
  <2>2. stdin' \in [kind : Kinds, lines : Seq(Lines), half : BOOLEAN, closed : BOOLEAN]
    BY <1>11, <2>1 DEF Type, TypeOK
  <2>3. QED
    BY <1>11, <2>1, <2>2 DEF Type, User, TypeOK
<1>12. CASE TypeHalf \/ CloseStdin
  <2>1. stdin' \in [kind : Kinds, lines : Seq(Lines), half : BOOLEAN, closed : BOOLEAN]
    BY <1>12 DEF TypeHalf, CloseStdin, TypeOK
  <2>2. QED
    BY <1>12, <2>1 DEF TypeHalf, CloseStdin, User, TypeOK
<1>13. CASE UNCHANGED vars
  BY <1>13 DEF vars, TypeOK
<1>14. QED
  BY <1>1, <1>2, <1>3, <1>4, <1>5, <1>6, <1>7, <1>8, <1>9, <1>10, <1>11, <1>12, <1>13
  DEF Next, Client, Environment

-----------------------------------------------------------------------------
(* Between sends no frame is half sent, unless the connection broke.       *)
LEMMA NextWholeFrames ==
  ASSUME IInv, [Next]_vars
  PROVE  Running' /\ WholeFrames'
<1> USE DEF link, input, sender, end
<1>1. Running /\ WholeFrames /\ TypeOK
  BY DEF IInv
<1>2. CASE Connect \/ PollFails \/ ReceiveEnds \/ CheckSocket \/ EndOfInput \/ CheckStdin
  <2>1. /\ pc # "send" /\ pc # "exited" /\ offset' = offset
        /\ pc' # "exited" => exit' = exit
    BY <1>2 DEF Connect, PollFails, ReceiveEnds, CheckSocket, EndOfInput, CheckStdin, Return
  <2>2. QED
    BY <1>1, <2>1 DEF Running, WholeFrames
<1>3. CASE Poll \/ NothingToReceive \/ Receive \/ Refill
  <2>1. /\ pc # "send" /\ pc # "exited" /\ offset' = offset /\ exit' = exit
    BY <1>3 DEF Poll, NothingToReceive, Receive, Refill
  <2>2. QED
    BY <1>1, <2>1 DEF Running, WholeFrames
<1>4. CASE HandleLine
  <2>1. CASE ParseStatus(Head(cin)) = "Command"
    <3>1. offset' = 0 /\ exit' = exit /\ pc = "getline"
      BY <1>4, <2>1 DEF HandleLine
    <3>2. QED
      BY <1>1, <3>1 DEF Running, WholeFrames
  <2>2. CASE ParseStatus(Head(cin)) \in {"Quit", "InvalidSyntax"}
    <3>1. offset' = offset /\ pc = "getline"
      BY <1>4, <2>2 DEF HandleLine
    <3>2. pc' # "exited" => exit' = exit
      BY <1>4, <2>2 DEF HandleLine, Return
    <3>3. QED
      BY <1>1, <3>1, <3>2 DEF Running, WholeFrames
  <2>3. QED
    BY <2>1, <2>2, Statuses
<1>5. CASE Send
  <2>1. exit' = exit /\ pc = "send"
    BY <1>5 DEF Send
  <2>2. (pc' = "hangup" /\ offset' = FrameSize) \/ pc' = pc
    BY <1>5 DEF Send
  <2>3. QED
    BY <1>1, <2>1, <2>2 DEF Running, WholeFrames
<1>6. CASE SendFails
  BY <1>6 DEF SendFails, Return, Running, WholeFrames
<1>7. CASE Environment \/ UNCHANGED vars
  <2>1. pc' = pc /\ offset' = offset /\ exit' = exit
    BY <1>7 DEF Environment, ServerSends, ServerTakes, ServerGoes, Type, TypeHalf,
                CloseStdin, User, vars
  <2>2. QED
    BY <1>1, <2>1 DEF Running, WholeFrames
<1>8. QED
  BY <1>2, <1>3, <1>4, <1>5, <1>6, <1>7 DEF Next, Client

(* The processor is finished only when nothing more can come of the server *)
(* or it hung up.                                                          *)
LEMMA NextFinishedLast ==
  ASSUME IInv, [Next]_vars
  PROVE  HangUpLasts' /\ FinishedLast'
<1> USE DEF link, input, sender, end
<1>1. HangUpLasts /\ FinishedLast /\ TypeOK
  BY DEF IInv
<1>2. CASE Poll
  <2>1. "HUP" \in revents'.socket => server = "hungup"
    BY <1>2 DEF Poll, SocketEvents
  <2>2. server' = server /\ inbound' = inbound /\ finished' = finished
    BY <1>2 DEF Poll
  <2>3. QED
    BY <1>1, <2>1, <2>2 DEF HangUpLasts, FinishedLast
<1>3. CASE Receive
  <2>1. /\ revents' = revents /\ server' = server /\ finished' = finished
        /\ inbound # 0
    BY <1>3 DEF Receive
  <2>2. QED
    BY <1>1, <2>1 DEF HangUpLasts, FinishedLast
<1>4. CASE ReceiveEnds
  BY <1>1, <1>4 DEF ReceiveEnds, HangUpLasts, FinishedLast
<1>5. CASE CheckSocket
  <2>1. /\ revents' = revents /\ server' = server /\ inbound' = inbound
        /\ finished' = finished \/ "HUP" \in revents.socket
    BY <1>5 DEF CheckSocket
  <2>2. QED
    BY <1>1, <2>1 DEF HangUpLasts, FinishedLast
<1>6. CASE \/ Connect \/ PollFails \/ NothingToReceive \/ Refill \/ EndOfInput
           \/ HandleLine \/ Send \/ SendFails \/ CheckStdin
           \/ ServerTakes \/ (\E line \in Lines : Type(line)) \/ TypeHalf \/ CloseStdin
           \/ UNCHANGED vars
  <2>1. /\ revents' = revents /\ server' = server /\ inbound' = inbound
        /\ finished' = finished
    BY <1>6 DEF Connect, PollFails, NothingToReceive, Refill, EndOfInput, HandleLine,
                Send, SendFails, CheckStdin, ServerTakes, Type, TypeHalf, CloseStdin,
                User, vars
  <2>2. QED
    BY <1>1, <2>1 DEF HangUpLasts, FinishedLast
<1>7. CASE ServerSends
  <2>1. revents' = revents /\ server' = server /\ finished' = finished /\ server = "up"
    BY <1>7 DEF ServerSends
  <2>2. QED
    BY <1>1, <2>1 DEF HangUpLasts, FinishedLast
<1>8. ASSUME NEW how \in {"closed", "hungup", "failed"}, ServerGoes(how)
      PROVE  HangUpLasts' /\ FinishedLast'
  <2>1. /\ revents' = revents /\ server' = how /\ inbound' = inbound
        /\ finished' = finished /\ server \in {"up", "closed"} /\ how # server
    BY <1>8 DEF ServerGoes
  <2>2. QED
    BY <1>1, <2>1 DEF HangUpLasts, FinishedLast
<1>9. QED
  BY <1>2, <1>3, <1>4, <1>5, <1>6, <1>7, <1>8 DEF Next, Client, Environment

(* Every reachable state of the live client satisfies the invariant.       *)
THEOREM Invariance == Spec => []IInv
<1>1. Init => IInv
  BY InitIInv
<1>2. IInv /\ [Next]_vars => IInv'
  BY NextTypeOK, NextWholeFrames, NextFinishedLast DEF IInv
<1>3. QED
  BY <1>1, <1>2, PTL DEF Spec

(* The variables keep their types: in particular the sequence number wraps *)
(* and the socket's buffers are respected.                                 *)
THEOREM TypeCorrect == Spec => []TypeOK
  BY Invariance, PTL DEF IInv

(* No fragment of a frame is left on a connection that still works.        *)
THEOREM FramesWhole == Spec => []WholeFrames
  BY Invariance, PTL DEF IInv

(* finish() is never called while more could be received in an orderly     *)
(* way.                                                                    *)
THEOREM ProcessorFinishedLast == Spec => []FinishedLast
  BY Invariance, PTL DEF IInv

-----------------------------------------------------------------------------
(* The sender.                                                             *)

(* What was typed and not yet taken is in std::cin's buffer or still in    *)
(* the kernel, in the order it was typed.                                  *)
InputKept ==
  /\ Len(cin) + Len(stdin.lines) <= Len(typed)
  /\ \A i \in 1 .. Len(cin) : cin[i] = typed[Taken + i]
  /\ \A i \in 1 .. Len(stdin.lines) : stdin.lines[i] = typed[Taken + Len(cin) + i]

(* While a command is sent it is the one of the last line taken, and one   *)
(* ahead of those on the wire; otherwise all are on the wire, unless the   *)
(* connection broke.                                                       *)
Sending ==
  LET commands == Cardinality(ValidLines(Taken))
  IN  /\ pc = "send" =>
           /\ Taken \in ValidLines(Taken)
           /\ Len(sent) = commands - 1
           /\ command = MakeCommand(typed[Taken], commands % UInt32)
      /\ pc # "send" /\ exit # 1 => Len(sent) = commands

(* Counting on modulo 2^32 is counting on.                                 *)
LEMMA CountOn ==
  ASSUME NEW a \in Nat, NEW U \in Nat \ {0}
  PROVE  ((a % U) + 1) % U = (a + 1) % U
<1> DEFINE r == a % U
           q == a \div U
<1>1. r \in 0 .. (U - 1) /\ q \in Nat /\ a = U * q + r
  OBVIOUS
<1> HIDE DEF r, q
<1>2. CASE r + 1 < U
  <2>1. (a + 1) % U = r + 1
    BY <1>1, <1>2
  <2>2. (r + 1) % U = r + 1
    BY <1>1, <1>2
  <2>3. QED
    BY <2>1, <2>2 DEF r
<1>3. CASE r + 1 = U
  <2>1. a + 1 = U * (q + 1)
    BY <1>1, <1>3
  <2>2. (a + 1) % U = 0
    BY <1>1, <2>1
  <2>3. (r + 1) % U = 0
    BY <1>1, <1>3
  <2>4. QED
    BY <2>2, <2>3 DEF r
<1>4. QED
  BY <1>1, <1>2, <1>3

(* The valid lines are finitely many, and more lines hold no fewer.        *)
LEMMA ValidCount ==
  ASSUME NEW m \in Nat, NEW k \in 0 .. m
  PROVE  /\ IsFiniteSet(ValidLines(m)) /\ Cardinality(ValidLines(m)) \in Nat
         /\ Cardinality(ValidLines(k)) <= Cardinality(ValidLines(m))
<1>1. IsFiniteSet(1 .. m)
  BY FS_Interval
<1>2. ValidLines(m) \subseteq 1 .. m
  BY DEF ValidLines
<1>3. IsFiniteSet(ValidLines(m))
  BY <1>1, <1>2, FS_Subset
<1>4. ValidLines(k) \subseteq ValidLines(m)
  BY DEF ValidLines
<1>5. QED
  BY <1>3, <1>4, FS_Subset, FS_CardinalityType

(* One more line is one more command or none.                              *)
LEMMA ValidNext ==
  ASSUME NEW m \in Nat
  PROVE  /\ Cardinality(ValidLines(0)) = 0
         /\ ParseStatus(typed[m + 1]) = "Command" =>
              /\ m + 1 \in ValidLines(m + 1)
              /\ Cardinality(ValidLines(m + 1)) = Cardinality(ValidLines(m)) + 1
         /\ ParseStatus(typed[m + 1]) # "Command" => ValidLines(m + 1) = ValidLines(m)
<1>1. ValidLines(0) = {}
  BY DEF ValidLines
<1>2. Cardinality(ValidLines(0)) = 0
  BY <1>1, FS_EmptySet
<1>3. 1 .. (m + 1) = (1 .. m) \cup {m + 1} /\ m + 1 \notin 1 .. m
  OBVIOUS
<1>4. ASSUME ParseStatus(typed[m + 1]) = "Command"
      PROVE  /\ m + 1 \in ValidLines(m + 1)
             /\ Cardinality(ValidLines(m + 1)) = Cardinality(ValidLines(m)) + 1
  <2>1. ValidLines(m + 1) = ValidLines(m) \cup {m + 1} /\ m + 1 \notin ValidLines(m)
    BY <1>3, <1>4 DEF ValidLines
  <2>2. IsFiniteSet(ValidLines(m))
    BY ValidCount
  <2>3. QED
    BY <2>1, <2>2, FS_AddElement
<1>5. ASSUME ParseStatus(typed[m + 1]) # "Command"
      PROVE  ValidLines(m + 1) = ValidLines(m)
  BY <1>3, <1>5 DEF ValidLines
<1>6. QED
  BY <1>2, <1>4, <1>5

(* Lines that are typed later do not change what was taken.                *)
LEMMA ValidKept ==
  ASSUME NEW m \in Nat, \A j \in 1 .. m : typed'[j] = typed[j], NEW k \in 0 .. m
  PROVE  ValidLines(k)' = ValidLines(k)
  BY DEF ValidLines

(* How many lines were taken, in numbers.                                  *)
LEMMA TakenNat ==
  ASSUME TypeOK, InputKept
  PROVE  /\ Len(typed) \in Nat /\ Len(cin) \in Nat /\ Len(stdin.lines) \in Nat
         /\ Taken \in Nat /\ Taken + Len(cin) + Len(stdin.lines) = Len(typed)
<1>1. Len(typed) \in Nat /\ Len(cin) \in Nat /\ Len(stdin.lines) \in Nat
  BY LenProperties DEF TypeOK
<1>2. QED
  BY <1>1 DEF Taken, InputKept

(* A step that takes no line and sends nothing leaves the sender as it was.*)
LEMMA SenderKept ==
  ASSUME Sending, SentInOrder, Taken \in Nat,
         Taken' = Taken, \A j \in 1 .. Taken : typed'[j] = typed[j],
         sent' = sent, next_sequence' = next_sequence, command' = command,
         \/ (pc' = "send" <=> pc = "send") /\ exit' = exit
         \/ pc # "send" /\ pc' # "send" /\ exit # 1
         \/ pc = "send" /\ pc' # "send" /\ exit' = 1
  PROVE  Sending' /\ SentInOrder'
<1> DEFINE T == Taken
           C == Cardinality(ValidLines(T))
<1>1. /\ \A k \in 0 .. T : ValidLines(k)' = ValidLines(k)
      /\ T' = T /\ \A j \in 1 .. T : typed'[j] = typed[j]
  BY ValidKept
<1>2. ValidLines(Taken)' = ValidLines(T) /\ ValidLines(T) \subseteq 1 .. T
  BY <1>1 DEF ValidLines
<1> HIDE DEF T
<1>3. /\ pc = "send" => /\ T \in ValidLines(T)
                        /\ Len(sent) = C - 1
                        /\ command = MakeCommand(typed[T], C % UInt32)
      /\ pc # "send" /\ exit # 1 => Len(sent) = C
  BY DEF Sending, T
<1>4. /\ next_sequence = (1 + C) % UInt32
      /\ Len(sent) \in {C - 1, C}
      /\ Len(sent) < C => pc = "send" \/ exit = 1
      /\ \A k \in ValidLines(T) :
           Cardinality(ValidLines(k)) <= Len(sent)
             => sent[Cardinality(ValidLines(k))]
                  = MakeCommand(typed[k], Cardinality(ValidLines(k)) % UInt32)
  BY DEF SentInOrder, T
<1>5. Cardinality(ValidLines(Taken))' = C
  BY <1>2
<1>6. C \in Nat
  BY ValidCount DEF T
<1> HIDE DEF C
<1>7. Sending'
  <2>1. ASSUME pc' = "send"
        PROVE  /\ T \in ValidLines(Taken)'
               /\ Len(sent') = C - 1
               /\ command' = MakeCommand(typed'[T], C % UInt32)
    <3>1. pc = "send"
      BY <2>1
    <3>2. T \in ValidLines(T) /\ typed'[T] = typed[T]
      BY <1>1, <1>2, <1>3, <3>1
    <3>3. QED
      BY <1>2, <1>3, <3>1, <3>2
  <2>2. ASSUME pc' # "send", exit' # 1 PROVE Len(sent') = C
    BY <1>3, <2>2
  <2>3. QED
    BY <1>1, <1>5, <2>1, <2>2 DEF Sending, T
<1>8. SentInOrder'
  <2>1. next_sequence' = (1 + C) % UInt32 /\ Len(sent') \in {C - 1, C}
    BY <1>4
  <2>2. Len(sent') < C => pc' = "send" \/ exit' = 1
    BY <1>3, <1>4, <1>6
  <2>3. ASSUME NEW k \in ValidLines(Taken)',
               Cardinality(ValidLines(k))' <= Len(sent')
        PROVE  sent'[Cardinality(ValidLines(k))']
                 = MakeCommand(typed'[k], Cardinality(ValidLines(k))' % UInt32)
    <3>1. k \in ValidLines(T) /\ k \in 1 .. T /\ k \in 0 .. T
      BY <1>2, <2>3
    <3>2. ValidLines(k)' = ValidLines(k) /\ typed'[k] = typed[k]
      BY <1>1, <3>1
    <3>3. QED
      BY <1>4, <2>3, <3>1, <3>2
  <2>4. QED
    BY <1>5, <2>1, <2>2, <2>3 DEF SentInOrder
<1>9. QED
  BY <1>7, <1>8

(* Before anything is taken nothing was sent.                              *)
LEMMA InitSender == Init => InputKept /\ Sending /\ SentInOrder
<1> SUFFICES ASSUME Init PROVE InputKept /\ Sending /\ SentInOrder
  OBVIOUS
<1>1. TypeOK
  BY InitIInv DEF IInv
<1>2. /\ typed = stdin.lines /\ cin = <<>> /\ Len(cin) = 0 /\ sent = <<>> /\ Len(sent) = 0
      /\ next_sequence = 1 /\ pc = "connect" /\ exit = -1
  BY DEF Init
<1>3. Len(typed) \in Nat
  BY <1>1, LenProperties DEF TypeOK
<1>4. Taken = 0 /\ InputKept
  <2> DEFINE n == Len(typed)
  <2>1. /\ n \in Nat /\ Len(stdin.lines) = n /\ Len(cin) = 0
        /\ \A i \in 1 .. n : stdin.lines[i] = typed[i]
    BY <1>2, <1>3
  <2>2. Taken = n - Len(stdin.lines) - Len(cin)
    BY DEF Taken
  <2> HIDE DEF n
  <2>3. Taken = 0
    BY <2>1, <2>2
  <2>4. Len(cin) + Len(stdin.lines) <= n
    BY <2>1
  <2>5. \A i \in 1 .. Len(stdin.lines) : stdin.lines[i] = typed[Taken + Len(cin) + i]
    BY <2>1, <2>3
  <2>6. \A i \in 1 .. Len(cin) : cin[i] = typed[Taken + i]
    BY <2>1
  <2>7. QED
    BY <2>3, <2>4, <2>5, <2>6 DEF InputKept, n
<1>5. Cardinality(ValidLines(Taken)) = 0 /\ ValidLines(Taken) = {}
  <2>1. ValidLines(0) = {}
    BY DEF ValidLines
  <2>2. QED
    BY <1>4, <2>1, FS_EmptySet
<1>6. 1 % UInt32 = 1
  BY ClientAssumption
<1>7. QED
  BY <1>2, <1>4, <1>5, <1>6 DEF Sending, SentInOrder

(* Both parts of a sequence, element by element.                           *)
LEMMA SplitParts ==
  ASSUME NEW S, NEW s \in Seq(S), NEW k \in Nat, k <= Len(s)
  PROVE  /\ Len(SubSeq(s, 1, k)) = k
         /\ \A i \in 1 .. k : SubSeq(s, 1, k)[i] = s[i]
         /\ Len(SubSeq(s, k + 1, Len(s))) = Len(s) - k
         /\ \A i \in 1 .. (Len(s) - k) : SubSeq(s, k + 1, Len(s))[i] = s[k + i]
<1> DEFINE n == Len(s)
           front == SubSeq(s, 1, k)
           rest == SubSeq(s, k + 1, n)
<1>1. n \in Nat /\ k <= n
  BY LenProperties
<1>2. \A i \in 1 .. n : s[i] \in S
  BY ElementOfSeq
<1> HIDE DEF n
<1>3. (\A i \in 1 .. k : s[i] \in S) /\ (\A i \in (k + 1) .. n : s[i] \in S)
  BY <1>1, <1>2
<1>4. /\ Len(front) = IF 1 <= k THEN k - 1 + 1 ELSE 0
      /\ \A i \in 1 .. (k - 1 + 1) : front[i] = s[1 + i - 1]
  <2>1. 1 \in Int /\ k \in Int /\ 1 <= k + 1
    OBVIOUS
  <2>2. QED
    BY <1>3, <2>1, SubSeqProperties
<1>5. /\ Len(rest) = IF k + 1 <= n THEN n - (k + 1) + 1 ELSE 0
      /\ \A i \in 1 .. (n - (k + 1) + 1) : rest[i] = s[(k + 1) + i - 1]
  <2>1. k + 1 \in Int /\ n \in Int /\ k + 1 <= n + 1
    BY <1>1
  <2>2. QED
    BY <1>3, <2>1, SubSeqProperties
<1> HIDE DEF front, rest
<1>6. Len(front) = k /\ \A i \in 1 .. k : front[i] = s[i]
  <2>1. k - 1 + 1 = k /\ \A i \in Int : 1 + i - 1 = i
    OBVIOUS
  <2>2. Len(front) = k
    BY <1>4
  <2>3. QED
    BY <1>4, <2>1, <2>2
<1>7. Len(rest) = n - k /\ \A i \in 1 .. (n - k) : rest[i] = s[k + i]
  <2>1. n - (k + 1) + 1 = n - k /\ \A i \in Int : (k + 1) + i - 1 = k + i
    BY <1>1
  <2>2. Len(rest) = n - k
    BY <1>1, <1>5
  <2>3. QED
    BY <1>5, <2>1, <2>2
<1>8. QED
  BY <1>6, <1>7 DEF front, rest, n

(* What getline() moves from the kernel to std::cin's buffer.              *)
LEMMA Refilled ==
  ASSUME TypeOK, Refill
  PROVE  /\ Len(cin) = 0 /\ typed' = typed
         /\ Len(cin') \in 1 .. Len(stdin.lines)
         /\ Len(stdin'.lines) = Len(stdin.lines) - Len(cin')
         /\ \A i \in 1 .. Len(cin') : cin'[i] = stdin.lines[i]
         /\ \A i \in 1 .. Len(stdin'.lines) : stdin'.lines[i] = stdin.lines[Len(cin') + i]
<1> DEFINE lines == stdin.lines
           count == IF stdin.kind = "terminal" THEN 1 ELSE Len(lines)
<1>1. /\ cin = <<>> /\ Len(cin) = 0 /\ lines # <<>> /\ lines \in Seq(Lines)
      /\ typed' = typed
      /\ cin' = SubSeq(lines, 1, count)
      /\ stdin'.lines = SubSeq(lines, count + 1, Len(lines))
  BY DEF Refill, TypeOK
<1>2. Len(lines) \in Nat /\ Len(lines) # 0
  BY <1>1, EmptySeq, LenProperties
<1>3. count \in 1 .. Len(lines)
  BY <1>2
<1> HIDE DEF count, lines
<1>4. count \in Nat /\ count <= Len(lines)
  BY <1>2, <1>3
<1>5. /\ Len(cin') = count
      /\ \A i \in 1 .. count : cin'[i] = lines[i]
      /\ Len(stdin'.lines) = Len(lines) - count
      /\ \A i \in 1 .. (Len(lines) - count) : stdin'.lines[i] = lines[count + i]
  BY <1>1, <1>4, SplitParts
<1>6. QED
  BY <1>1, <1>3, <1>5 DEF lines

(* What getline() takes from std::cin's buffer.                            *)
LEMMA LineTaken ==
  ASSUME TypeOK, InputKept, HandleLine
  PROVE  /\ typed' = typed /\ stdin' = stdin /\ Len(cin) # 0
         /\ Len(cin') = Len(cin) - 1
         /\ \A i \in 1 .. Len(cin') : cin'[i] = cin[i + 1]
         /\ Head(cin) = cin[1]
         /\ Taken' = Taken + 1
<1>1. cin \in Seq(Lines) /\ cin # <<>> /\ cin' = Tail(cin)
      /\ typed' = typed /\ stdin' = stdin
  BY DEF TypeOK, HandleLine
<1>2. Len(cin) \in Nat /\ Len(cin) # 0
  BY <1>1, EmptySeq, LenProperties
<1>3. /\ Len(cin') = Len(cin) - 1 /\ Head(cin) = cin[1]
      /\ \A i \in 1 .. Len(cin') : cin'[i] = cin[i + 1]
  BY <1>1, <1>2, HeadTailProperties
<1>4. Taken' = Taken + 1
  <2> DEFINE l == Len(stdin.lines)
             t == Len(typed)
             c == Len(cin)
  <2>1. l \in Nat /\ t \in Nat /\ c \in Nat
    BY TakenNat
  <2>2. Taken = t - l - c /\ Taken' = t - l - Len(cin') /\ Len(cin') = c - 1
    BY <1>1, <1>3 DEF Taken
  <2> HIDE DEF l, t, c
  <2>3. QED
    BY <2>1, <2>2
<1>5. QED
  BY <1>1, <1>2, <1>3, <1>4

(* What the user adds.                                                     *)
LEMMA LineTyped ==
  ASSUME TypeOK, InputKept, NEW line \in Lines, Type(line)
  PROVE  /\ cin' = cin /\ Taken' = Taken
         /\ Len(typed') = Len(typed) + 1 /\ typed'[Len(typed) + 1] = line
         /\ \A i \in 1 .. Len(typed) : typed'[i] = typed[i]
         /\ Len(stdin'.lines) = Len(stdin.lines) + 1
         /\ stdin'.lines[Len(stdin.lines) + 1] = line
         /\ \A i \in 1 .. Len(stdin.lines) : stdin'.lines[i] = stdin.lines[i]
<1> DEFINE lines == stdin.lines
<1>1. /\ typed' = Append(typed, line) /\ cin' = cin
      /\ stdin'.lines = Append(lines, line)
      /\ typed \in Seq(Lines) /\ lines \in Seq(Lines)
  BY DEF Type, User, TypeOK, link, input, sender, end
<1> HIDE DEF lines
<1>2. /\ Len(typed') = Len(typed) + 1 /\ typed'[Len(typed) + 1] = line
      /\ \A i \in 1 .. Len(typed) : typed'[i] = typed[i]
  BY <1>1, AppendProperties
<1>3. /\ Len(stdin'.lines) = Len(lines) + 1 /\ stdin'.lines[Len(lines) + 1] = line
      /\ \A i \in 1 .. Len(lines) : stdin'.lines[i] = lines[i]
  BY <1>1, AppendProperties
<1>4. Taken' = Taken
  <2> DEFINE l == Len(lines)
             t == Len(typed)
             c == Len(cin)
  <2>1. l \in Nat /\ t \in Nat /\ c \in Nat
    BY TakenNat DEF lines
  <2>2. Taken = t - l - c /\ Taken' = Len(typed') - Len(stdin'.lines) - c
    BY <1>1 DEF Taken, lines
  <2>3. Len(typed') = t + 1 /\ Len(stdin'.lines) = l + 1
    BY <1>2, <1>3
  <2> HIDE DEF l, t, c
  <2>4. QED
    BY <2>1, <2>2, <2>3
<1>5. QED
  BY <1>1, <1>2, <1>3, <1>4 DEF lines

(* No line is lost, doubled or overtaken on its way to getline().          *)
LEMMA NextInputKept ==
  ASSUME TypeOK, InputKept, [Next]_vars
  PROVE  InputKept'
<1> USE DEF link, input, sender, end
<1> DEFINE l == Len(stdin.lines)
           c == Len(cin)
           t == Len(typed)
<1>1. l \in Nat /\ c \in Nat /\ t \in Nat /\ Taken \in Nat /\ Taken + c + l = t
  BY TakenNat
<1>2. /\ \A i \in 1 .. c : cin[i] = typed[Taken + i]
      /\ \A i \in 1 .. l : stdin.lines[i] = typed[Taken + c + i]
  BY DEF InputKept
<1>3. CASE typed' = typed /\ cin' = cin /\ stdin'.lines = stdin.lines
  BY <1>3 DEF InputKept, Taken
<1>4. CASE Refill
  <2> DEFINE n == Len(cin')
  <2>1. /\ c = 0 /\ typed' = typed /\ n \in 1 .. l /\ Len(stdin'.lines) = l - n
        /\ \A i \in 1 .. n : cin'[i] = stdin.lines[i]
        /\ \A i \in 1 .. (l - n) : stdin'.lines[i] = stdin.lines[n + i]
    BY <1>4, Refilled
  <2>2. Taken = t - l - c /\ Taken' = t - Len(stdin'.lines) - n
    BY <2>1 DEF Taken
  <2>3. InputKept' <=> /\ n + Len(stdin'.lines) <= t
                       /\ \A i \in 1 .. n : cin'[i] = typed[Taken' + i]
                       /\ \A i \in 1 .. Len(stdin'.lines) :
                            stdin'.lines[i] = typed[Taken' + n + i]
    BY <2>1 DEF InputKept
  <2> HIDE DEF l, c, t, n
  <2>4. Taken' = Taken /\ n + Len(stdin'.lines) <= t
    BY <1>1, <2>1, <2>2
  <2>5. \A i \in 1 .. l : stdin.lines[i] = typed[Taken + i]
    BY <1>1, <1>2, <2>1
  <2>6. \A i \in 1 .. n : cin'[i] = typed[Taken' + i]
    BY <1>1, <2>1, <2>4, <2>5
  <2>7. ASSUME NEW i \in 1 .. Len(stdin'.lines)
        PROVE  stdin'.lines[i] = typed[Taken' + n + i]
    <3>1. n + i \in 1 .. l /\ i \in 1 .. (l - n) /\ Taken + (n + i) = Taken' + n + i
      BY <1>1, <2>1, <2>4
    <3>2. QED
      BY <2>1, <2>5, <3>1
  <2>8. QED
    BY <2>3, <2>4, <2>6, <2>7
<1>5. CASE HandleLine
  <2> DEFINE n == Len(cin')
  <2>1. /\ typed' = typed /\ stdin' = stdin /\ c # 0 /\ n = c - 1 /\ Taken' = Taken + 1
        /\ \A i \in 1 .. n : cin'[i] = cin[i + 1]
    BY <1>5, LineTaken
  <2>2. InputKept' <=> /\ n + l <= t
                       /\ \A i \in 1 .. n : cin'[i] = typed[Taken' + i]
                       /\ \A i \in 1 .. l : stdin.lines[i] = typed[Taken' + n + i]
    BY <2>1 DEF InputKept
  <2> HIDE DEF l, c, t, n
  <2>3. n + l <= t
    BY <1>1, <2>1
  <2>4. ASSUME NEW i \in 1 .. n PROVE cin'[i] = typed[Taken' + i]
    <3>1. i + 1 \in 1 .. c /\ Taken + (i + 1) = Taken' + i
      BY <1>1, <2>1
    <3>2. QED
      BY <1>2, <2>1, <3>1
  <2>5. ASSUME NEW i \in 1 .. l PROVE stdin.lines[i] = typed[Taken' + n + i]
    <3>1. Taken + c + i = Taken' + n + i
      BY <1>1, <2>1
    <3>2. QED
      BY <1>2, <3>1
  <2>6. QED
    BY <2>2, <2>3, <2>4, <2>5
<1>6. ASSUME NEW line \in Lines, Type(line) PROVE InputKept'
  <2> DEFINE m == Len(stdin'.lines)
  <2>1. /\ cin' = cin /\ Taken' = Taken /\ Len(typed') = t + 1 /\ m = l + 1
        /\ typed'[t + 1] = line /\ stdin'.lines[l + 1] = line
        /\ \A i \in 1 .. t : typed'[i] = typed[i]
        /\ \A i \in 1 .. l : stdin'.lines[i] = stdin.lines[i]
    BY <1>6, LineTyped
  <2>2. InputKept' <=> /\ c + m <= Len(typed')
                       /\ \A i \in 1 .. c : cin[i] = typed'[Taken' + i]
                       /\ \A i \in 1 .. m : stdin'.lines[i] = typed'[Taken' + c + i]
    BY <2>1 DEF InputKept
  <2> HIDE DEF l, c, t, m
  <2>3. c + m <= Len(typed')
    BY <1>1, <2>1
  <2>4. ASSUME NEW i \in 1 .. c PROVE cin[i] = typed'[Taken' + i]
    <3>1. Taken + i \in 1 .. t
      BY <1>1
    <3>2. QED
      BY <1>2, <2>1, <3>1
  <2>5. ASSUME NEW i \in 1 .. m PROVE stdin'.lines[i] = typed'[Taken' + c + i]
    <3>1. CASE i \in 1 .. l
      <4>1. Taken + c + i \in 1 .. t
        BY <1>1, <3>1
      <4>2. QED
        BY <1>2, <2>1, <3>1, <4>1
    <3>2. CASE i = l + 1
      <4>1. Taken + c + i = t + 1
        BY <1>1, <3>2
      <4>2. QED
        BY <2>1, <3>2, <4>1
    <3>3. QED
      BY <1>1, <2>1, <3>1, <3>2
  <2>6. QED
    BY <2>2, <2>3, <2>4, <2>5
<1>7. CASE TypeHalf \/ CloseStdin
  BY <1>3, <1>7 DEF TypeHalf, CloseStdin, User, TypeOK
<1>8. CASE \/ Connect \/ PollFails \/ Poll \/ NothingToReceive \/ Receive \/ ReceiveEnds
           \/ CheckSocket \/ EndOfInput \/ Send \/ SendFails \/ CheckStdin
           \/ ServerSends \/ ServerTakes \/ UNCHANGED vars
           \/ \E how \in {"closed", "hungup", "failed"} : ServerGoes(how)
  BY <1>3, <1>8 DEF Connect, PollFails, Poll, NothingToReceive, Receive, ReceiveEnds,
       CheckSocket, EndOfInput, Send, SendFails, CheckStdin, ServerSends, ServerTakes,
       ServerGoes, vars
<1>9. QED
  BY <1>4, <1>5, <1>6, <1>7, <1>8 DEF Next, Client, Environment

(* Taking a line: the next number is used up if it is a command, and only  *)
(* then.                                                                   *)
LEMMA TakeSender ==
  ASSUME TypeOK, Running, InputKept, Sending, SentInOrder, HandleLine
  PROVE  Sending' /\ SentInOrder'
<1> USE DEF link, input, sender, end
<1> DEFINE T == Taken
           C == Cardinality(ValidLines(T))
           line == Head(cin)
<1>1. /\ typed' = typed /\ sent' = sent /\ pc = "getline" /\ exit = -1
      /\ next_sequence' = SequenceAfter(line)
  BY DEF HandleLine, Running
<1>2. T \in Nat /\ T' = T + 1
  BY LineTaken, TakenNat
<1>3. line = typed[T + 1]
  <2>1. line = cin[1] /\ Len(cin) # 0 /\ Len(cin) \in Nat
    BY LineTaken, TakenNat
  <2>2. 1 \in 1 .. Len(cin)
    BY <2>1
  <2>3. QED
    BY <2>1, <2>2 DEF InputKept
<1>4. \A k \in 0 .. (T + 1) : ValidLines(k)' = ValidLines(k)
  <2>1. ASSUME NEW k \in 0 .. (T + 1) PROVE ValidLines(k)' = ValidLines(k)
    BY <1>1 DEF ValidLines
  <2>2. QED
    BY <2>1
<1>5. /\ next_sequence = (1 + C) % UInt32 /\ Len(sent) = C
      /\ \A k \in ValidLines(T) :
           Cardinality(ValidLines(k)) <= Len(sent)
             => sent[Cardinality(ValidLines(k))]
                  = MakeCommand(typed[k], Cardinality(ValidLines(k)) % UInt32)
  BY <1>1 DEF SentInOrder, Sending
<1>6. C \in Nat
  BY <1>2, ValidCount
<1>7. ValidLines(Taken)' = ValidLines(T + 1)
  BY <1>1, <1>2 DEF ValidLines
<1>8. \A k \in ValidLines(T + 1) : k \in 1 .. (T + 1) /\ (k <= T => k \in ValidLines(T))
  BY <1>2 DEF ValidLines
<1> HIDE DEF T, C, line
<1>9. ASSUME NEW k \in ValidLines(Taken)', k \in ValidLines(T),
             Cardinality(ValidLines(k))' <= Len(sent')
      PROVE  sent'[Cardinality(ValidLines(k))']
               = MakeCommand(typed'[k], Cardinality(ValidLines(k))' % UInt32)
  <2>1. k \in 0 .. (T + 1)
    BY <1>2, <1>7, <1>8, <1>9
  <2>2. ValidLines(k)' = ValidLines(k)
    BY <1>4, <2>1
  <2>3. QED
    BY <1>1, <1>5, <1>9, <2>2
<1>10. CASE ParseStatus(line) = "Command"
  <2>1. /\ T + 1 \in ValidLines(T + 1) /\ Cardinality(ValidLines(T + 1)) = C + 1
    BY <1>2, <1>3, <1>10, ValidNext DEF C
  <2>2. /\ command' = MakeCommand(line, next_sequence) /\ pc' = "send" /\ exit' = exit
    BY <1>10 DEF HandleLine, line
  <2>3. next_sequence' = (1 + (C + 1)) % UInt32
    <3>1. next_sequence' = (((C + 1) % UInt32) + 1) % UInt32
      BY <1>1, <1>5, <1>6, <1>10 DEF SequenceAfter
    <3>2. C + 1 \in Nat /\ UInt32 \in Nat \ {0} /\ (C + 1) + 1 = 1 + (C + 1)
      BY <1>6, ClientAssumption
    <3>3. QED
      BY <3>1, <3>2, CountOn
  <2>4. Cardinality(ValidLines(Taken))' = C + 1
    BY <1>7, <2>1
  <2>5. Sending'
    <3>1. command' = MakeCommand(typed'[T + 1], (C + 1) % UInt32)
      BY <1>1, <1>3, <1>5, <1>6, <2>2
    <3>2. Taken' = T + 1
      BY <1>2 DEF T
    <3>3. Len(sent') = (C + 1) - 1
      BY <1>1, <1>5, <1>6
    <3>4. QED
      BY <1>7, <2>1, <2>2, <2>4, <3>1, <3>2, <3>3 DEF Sending
  <2>6. ASSUME NEW k \in ValidLines(Taken)',
               Cardinality(ValidLines(k))' <= Len(sent')
        PROVE  k \in ValidLines(T)
    <3>1. k \in ValidLines(T + 1) /\ k \in 1 .. (T + 1)
      BY <1>7, <1>8
    <3>2. ASSUME k = T + 1 PROVE FALSE
      <4>1. ValidLines(k)' = ValidLines(T + 1)
        BY <1>2, <1>4, <3>2
      <4>2. Cardinality(ValidLines(k))' = C + 1
        BY <2>1, <4>1
      <4>3. QED
        BY <1>1, <1>5, <1>6, <2>6, <4>2
    <3>3. QED
      BY <1>2, <1>8, <3>1, <3>2
  <2>7. Len(sent') \in {(C + 1) - 1, C + 1} /\ pc' = "send"
    BY <1>1, <1>5, <1>6, <2>2
  <2>8. QED
    BY <1>9, <2>3, <2>4, <2>5, <2>6, <2>7 DEF SentInOrder
<1>11. CASE ParseStatus(line) \in {"Quit", "InvalidSyntax"}
  <2>1. ValidLines(T + 1) = ValidLines(T)
    BY <1>2, <1>3, <1>11, ValidNext
  <2>2. pc' \in {"poll", "exited"}
    BY <1>11 DEF HandleLine, Return, line
  <2>3. next_sequence' = (1 + C) % UInt32
    BY <1>1, <1>5, <1>11 DEF SequenceAfter
  <2>4. ValidLines(Taken)' = ValidLines(T) /\ Cardinality(ValidLines(Taken))' = C
    BY <1>7, <2>1 DEF C
  <2>5. Sending'
    BY <1>1, <1>5, <2>2, <2>4 DEF Sending
  <2>6. Len(sent') = C
    BY <1>1, <1>5
  <2>7. ASSUME NEW k \in ValidLines(Taken)' PROVE k \in ValidLines(T)
    BY <2>4
  <2>8. QED
    BY <1>6, <1>9, <2>3, <2>4, <2>5, <2>6, <2>7 DEF SentInOrder
<1>12. QED
  BY <1>10, <1>11, Statuses

(* The last piece of a frame: its command is on the wire.                  *)
LEMMA WireSender ==
  ASSUME TypeOK, InputKept, Sending, SentInOrder, Send, pc' = "hangup"
  PROVE  Sending' /\ SentInOrder'
<1> USE DEF link, input, sender, end
<1> DEFINE T == Taken
           C == Cardinality(ValidLines(T))
<1>1. /\ pc = "send" /\ sent' = Append(sent, command) /\ typed' = typed
      /\ stdin' = stdin /\ cin' = cin /\ next_sequence' = next_sequence /\ exit' = exit
  BY DEF Send
<1>2. /\ T \in Nat /\ Taken' = T
  BY <1>1, TakenNat DEF Taken
<1>3. \A k \in 0 .. T : ValidLines(k)' = ValidLines(k)
  BY <1>1 DEF ValidLines
<1>4. /\ T \in ValidLines(T) /\ Len(sent) = C - 1
      /\ command = MakeCommand(typed[T], C % UInt32)
      /\ next_sequence = (1 + C) % UInt32
      /\ \A k \in ValidLines(T) :
           Cardinality(ValidLines(k)) <= Len(sent)
             => sent[Cardinality(ValidLines(k))]
                  = MakeCommand(typed[k], Cardinality(ValidLines(k)) % UInt32)
  BY <1>1 DEF Sending, SentInOrder
<1>5. T \in Nat \ {0} /\ ValidLines(Taken)' = ValidLines(T) /\ ValidLines(T) \subseteq 1 .. T
  BY <1>1, <1>2, <1>4 DEF ValidLines
<1>6. C \in Nat
  BY <1>2, ValidCount
<1>7. C = Cardinality(ValidLines(T - 1)) + 1
  <2>1. T - 1 \in Nat /\ (T - 1) + 1 = T
    BY <1>5
  <2>2. ParseStatus(typed[T]) = "Command"
    BY <1>4 DEF ValidLines
  <2> HIDE DEF T
  <2>3. QED
    BY <2>1, <2>2, ValidNext
<1>8. /\ Len(sent') = C /\ sent'[C] = command
      /\ \A n \in 1 .. (C - 1) : sent'[n] = sent[n]
  <2>1. sent \in Seq(Command) /\ Len(sent) \in Nat
    BY LenProperties DEF TypeOK
  <2>2. Len(sent) + 1 = C
    BY <1>4, <1>6, <2>1
  <2>3. QED
    BY <1>1, <1>4, <2>1, <2>2, AppendProperties
<1>9. ASSUME NEW k \in ValidLines(T)
      PROVE  /\ Cardinality(ValidLines(k)) \in 1 .. C
             /\ k # T => Cardinality(ValidLines(k)) \in 1 .. (C - 1)
  <2>1. k \in 1 .. T
    BY <1>5
  <2>2. Cardinality(ValidLines(k)) \in Nat \ {0}
    <3>1. k - 1 \in Nat /\ (k - 1) + 1 = k /\ ParseStatus(typed[k]) = "Command"
      BY <1>5, <2>1 DEF ValidLines
    <3>2. Cardinality(ValidLines(k)) = Cardinality(ValidLines(k - 1)) + 1
      BY <3>1, ValidNext
    <3>3. Cardinality(ValidLines(k - 1)) \in Nat
      BY <3>1, ValidCount
    <3>4. QED
      BY <3>2, <3>3
  <2> HIDE DEF T
  <2>3. Cardinality(ValidLines(k)) <= C
    <3>1. k \in 0 .. T
      BY <1>2, <2>1
    <3>2. QED
      BY <1>2, <3>1, ValidCount
  <2>4. ASSUME k # T PROVE Cardinality(ValidLines(k)) <= C - 1
    <3>1. k \in 0 .. (T - 1) /\ T - 1 \in Nat
      BY <1>5, <2>1, <2>4
    <3>2. Cardinality(ValidLines(k)) <= Cardinality(ValidLines(T - 1))
      BY <3>1, ValidCount
    <3>3. Cardinality(ValidLines(T - 1)) \in Nat
      BY <3>1, ValidCount
    <3> HIDE DEF C
    <3>4. QED
      BY <1>7, <3>2, <3>3, <2>2
  <2> HIDE DEF C
  <2>5. QED
    BY <1>6, <2>2, <2>3, <2>4
<1> HIDE DEF T, C
<1>10. Cardinality(ValidLines(Taken))' = C
  BY <1>5 DEF C
<1>11. Sending'
  BY <1>8, <1>10 DEF Sending
<1>12. ASSUME NEW k \in ValidLines(Taken)'
       PROVE  sent'[Cardinality(ValidLines(k))']
                = MakeCommand(typed'[k], Cardinality(ValidLines(k))' % UInt32)
  <2>1. k \in ValidLines(T) /\ k \in 0 .. T
    BY <1>2, <1>5
  <2>2. ValidLines(k)' = ValidLines(k)
    BY <1>3, <2>1
  <2>3. CASE k = T
    <3>1. Cardinality(ValidLines(k))' = C
      BY <2>2, <2>3 DEF C
    <3>2. QED
      BY <1>1, <1>4, <1>8, <2>3, <3>1
  <2>4. CASE k # T
    <3>1. Cardinality(ValidLines(k)) \in 1 .. (C - 1)
      BY <1>9, <2>1, <2>4
    <3>2. Cardinality(ValidLines(k)) <= Len(sent)
      BY <1>4, <1>6, <3>1
    <3>3. sent[Cardinality(ValidLines(k))]
            = MakeCommand(typed[k], Cardinality(ValidLines(k)) % UInt32)
      BY <1>4, <2>1, <3>2
    <3>4. QED
      BY <1>1, <1>8, <2>2, <3>1, <3>3
  <2>5. QED
    BY <2>3, <2>4
<1>13. SentInOrder'
  <2>1. next_sequence' = (1 + C) % UInt32
    BY <1>1, <1>4
  <2>2. Len(sent') \in {C - 1, C} /\ ~(Len(sent') < C)
    BY <1>6, <1>8
  <2>3. QED
    BY <1>10, <1>12, <2>1, <2>2 DEF SentInOrder
<1>14. QED
  BY <1>11, <1>13

(* Every step keeps the order and the numbers.                             *)
LEMMA NextSender ==
  ASSUME IInv, InputKept, Sending, SentInOrder, [Next]_vars
  PROVE  Sending' /\ SentInOrder'
<1> USE DEF link, input, sender, end
<1>1. TypeOK /\ Running
  BY DEF IInv
<1>2. Taken \in Nat
  BY <1>1, TakenNat
<1>3. CASE \/ Connect \/ PollFails \/ Poll \/ NothingToReceive \/ Receive \/ ReceiveEnds
           \/ CheckSocket \/ EndOfInput \/ SendFails \/ CheckStdin
           \/ ServerSends \/ ServerTakes \/ UNCHANGED vars
           \/ \E how \in {"closed", "hungup", "failed"} : ServerGoes(how)
  <2>1. /\ typed' = typed /\ cin' = cin /\ stdin' = stdin
        /\ sent' = sent /\ next_sequence' = next_sequence /\ command' = command
    BY <1>3 DEF Connect, PollFails, Poll, NothingToReceive, Receive, ReceiveEnds,
         CheckSocket, EndOfInput, SendFails, CheckStdin, ServerSends, ServerTakes,
         ServerGoes, vars
  <2>2. CASE SendFails
    <3>1. pc = "send" /\ pc' # "send" /\ exit' = 1
      BY <2>2 DEF SendFails, Return
    <3>2. QED
      BY <1>2, <2>1, <3>1, SenderKept DEF Taken
  <2>3. CASE \/ ServerSends \/ ServerTakes \/ UNCHANGED vars
             \/ \E how \in {"closed", "hungup", "failed"} : ServerGoes(how)
    <3>1. pc' = pc /\ exit' = exit
      BY <2>3 DEF ServerSends, ServerTakes, ServerGoes, vars
    <3>2. QED
      BY <1>2, <2>1, <3>1, SenderKept DEF Taken
  <2>4. CASE \/ Connect \/ PollFails \/ Poll \/ NothingToReceive \/ Receive \/ ReceiveEnds
             \/ CheckSocket \/ EndOfInput \/ CheckStdin
    <3>1. pc # "send" /\ pc' # "send" /\ pc # "exited"
      BY <2>4 DEF Connect, PollFails, Poll, NothingToReceive, Receive, ReceiveEnds,
           CheckSocket, EndOfInput, CheckStdin, Return
    <3>2. exit # 1
      BY <1>1, <3>1 DEF Running
    <3>3. QED
      BY <1>2, <2>1, <3>1, <3>2, SenderKept DEF Taken
  <2>5. QED
    BY <1>3, <2>2, <2>3, <2>4
<1>4. CASE Refill
  <2>1. /\ typed' = typed /\ sent' = sent /\ next_sequence' = next_sequence
        /\ command' = command /\ pc' = pc /\ exit' = exit
    BY <1>4 DEF Refill
  <2>2. Taken' = Taken
    <3> DEFINE l == Len(stdin.lines)
               c == Len(cin)
               t == Len(typed)
               n == Len(cin')
    <3>1. l \in Nat /\ t \in Nat
      BY <1>1, TakenNat
    <3>2. c = 0 /\ n \in 1 .. l /\ Len(stdin'.lines) = l - n
      BY <1>1, <1>4, Refilled
    <3>3. Taken = t - l - c /\ Taken' = t - Len(stdin'.lines) - n
      BY <2>1 DEF Taken
    <3> HIDE DEF l, c, t, n
    <3>4. QED
      BY <3>1, <3>2, <3>3
  <2>3. QED
    BY <1>2, <2>1, <2>2, SenderKept
<1>5. CASE HandleLine
  BY <1>1, <1>5, TakeSender
<1>6. CASE Send
  <2>1. CASE pc' = "hangup"
    BY <1>1, <1>6, <2>1, WireSender
  <2>2. CASE pc' # "hangup"
    <3>1. /\ typed' = typed /\ cin' = cin /\ stdin' = stdin /\ sent' = sent
          /\ next_sequence' = next_sequence /\ command' = command
          /\ pc' = pc /\ exit' = exit
      BY <1>6, <2>2 DEF Send
    <3>2. QED
      BY <1>2, <3>1, SenderKept DEF Taken
  <2>3. QED
    BY <2>1, <2>2
<1>7. ASSUME NEW line \in Lines, Type(line) PROVE Sending' /\ SentInOrder'
  <2>1. /\ sent' = sent /\ next_sequence' = next_sequence /\ command' = command
        /\ pc' = pc /\ exit' = exit
    BY <1>7 DEF Type, User
  <2>2. Taken' = Taken /\ \A i \in 1 .. Len(typed) : typed'[i] = typed[i]
    BY <1>1, <1>7, LineTyped
  <2>3. \A j \in 1 .. Taken : j \in 1 .. Len(typed)
    <3> DEFINE l == Len(stdin.lines)
               c == Len(cin)
               t == Len(typed)
    <3>1. l \in Nat /\ c \in Nat /\ t \in Nat /\ Taken + c + l = t
      BY <1>1, TakenNat
    <3> HIDE DEF l, c, t
    <3>2. \A j \in 1 .. Taken : j \in 1 .. t
      BY <1>2, <3>1
    <3>3. QED
      BY <3>2 DEF t
  <2>4. QED
    BY <1>2, <2>1, <2>2, <2>3, SenderKept
<1>8. CASE TypeHalf \/ CloseStdin
  <2>1. /\ typed' = typed /\ cin' = cin /\ stdin'.lines = stdin.lines
        /\ sent' = sent /\ next_sequence' = next_sequence /\ command' = command
        /\ pc' = pc /\ exit' = exit
    BY <1>1, <1>8 DEF TypeHalf, CloseStdin, User, TypeOK
  <2>2. QED
    BY <1>2, <2>1, SenderKept DEF Taken
<1>9. QED
  BY <1>3, <1>4, <1>5, <1>6, <1>7, <1>8 DEF Next, Client, Environment

(* The commands on the wire are the valid lines taken, in order and        *)
(* numbered without a gap, whatever standard input is and the server does. *)
THEOREM CommandsInOrder == Spec => []SentInOrder
<1>1. Init => IInv /\ InputKept /\ Sending /\ SentInOrder
  BY InitIInv, InitSender
<1>2. IInv /\ InputKept /\ Sending /\ SentInOrder /\ [Next]_vars
        => (IInv /\ InputKept /\ Sending /\ SentInOrder)'
  <2> SUFFICES ASSUME IInv, InputKept, Sending, SentInOrder, [Next]_vars
               PROVE  (IInv /\ InputKept /\ Sending /\ SentInOrder)'
    OBVIOUS
  <2>1. TypeOK' /\ Running' /\ WholeFrames' /\ HangUpLasts' /\ FinishedLast'
    BY NextTypeOK, NextWholeFrames, NextFinishedLast DEF IInv
  <2>2. InputKept' /\ Sending' /\ SentInOrder'
    BY NextInputKept, NextSender DEF IInv
  <2>3. QED
    BY <2>1, <2>2 DEF IInv
<1>3. QED
  BY <1>1, <1>2, PTL DEF Spec
=============================================================================
