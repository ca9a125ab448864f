------------------------- MODULE GroundStreamProofs -------------------------
(***************************************************************************)
(* For every file, codec and geometry: the exit status of the offline mode *)
(* is 0 exactly when every byte of the file belongs to a printed message.  *)
(***************************************************************************)
EXTENDS GroundStream, FrameStreamDecoderProofs, WellFoundedInduction

(* The bytes the decoder has decided on, truncated ones included.          *)
Decided == Len(received) - Len(buffer)

(* A step that hands over nothing, and a step that hands over a frame.     *)
Quiet ==
  /\ delivered' = delivered
  /\ tally'["framed"] = tally["framed"]
  /\ Decided <= Decided'

Hands(f) ==
  /\ f \in Seq(Byte)
  /\ delivered' = Append(delivered, [at |-> Decided + 1, bytes |-> f])
  /\ tally'["framed"] = tally["framed"] + Len(f)
  /\ Decided + Len(f) <= Decided'

(* An anomaly was reported exactly when some decided byte is in no frame:  *)
(* MalformedIffLoss is about counters, this is about the bytes.            *)
Exact == malformed <=> \E p \in 1 .. Decided : ~Covered(p)

Refused == \E n \in 1 .. Len(delivered) : ~Printable(delivered[n].bytes)

Printed == \E n \in 1 .. Len(delivered) : Printable(delivered[n].bytes)

-----------------------------------------------------------------------------
(* An anomaly was reported exactly when more was decided than framed.      *)
Balanced ==
  /\ Decided \in Nat /\ tally["framed"] \in Nat
  /\ Decided >= tally["framed"]
  /\ malformed <=> Decided > tally["framed"]

(* What the invariant of the decoder says of the numbers involved.         *)
LEMMA Books == IInv => Balanced
<1> SUFFICES ASSUME IInv PROVE Balanced
  OBVIOUS
<1>1. /\ TypeOK /\ Shape /\ ByteAccounting /\ MalformedIffLoss
  BY DEF IInv
<1>2. /\ tally["framed"] \in Nat /\ tally["noise"] \in Nat
      /\ tally["rejected"] \in Nat /\ tally["truncated"] \in Nat
      /\ Len(received) \in Nat /\ Len(buffer) \in Nat
      /\ malformed \in BOOLEAN
  BY <1>1 DEF TypeOK, Categories
<1>3. Len(buffer) + tally["truncated"] <= Len(received)
  BY <1>1 DEF Shape
<1>4. /\ Decided \in Nat /\ Decided <= Len(received)
  BY <1>2, <1>3 DEF Decided
<1>5. Decided = tally["framed"] + tally["noise"] + tally["rejected"] + tally["truncated"]
  BY <1>1 DEF ByteAccounting, Decided
<1>6. malformed <=> tally["noise"] + tally["rejected"] + tally["truncated"] > 0
  BY <1>1 DEF MalformedIffLoss
<1>7. /\ Decided >= tally["framed"]
      /\ tally["noise"] + tally["rejected"] + tally["truncated"] > 0
           <=> Decided > tally["framed"]
  BY <1>2, <1>4, <1>5
<1>8. QED
  BY <1>2, <1>4, <1>6, <1>7, Zenon DEF Balanced

(* A delivered frame lies within the bytes decided on.                     *)
LEMMA WithinDecided ==
  ASSUME IInv, NEW p \in Nat, Covered(p)
  PROVE  p <= Decided
<1>1. TypeOK /\ Shape /\ DeliveredSound
  BY DEF IInv
<1>2. PICK n \in 1 .. Len(delivered) : Covers(delivered[n], p)
  BY DEF Covered
<1> DEFINE d == delivered[n]
<1>3. d.at \in Nat /\ Len(d.bytes) \in Nat
  <2>1. d \in [at : Nat \ {0}, bytes : Seq(Byte)]
    BY <1>1, <1>2, ElementOfSeq DEF TypeOK
  <2>2. QED
    BY <2>1
<1>4. d.at + Len(d.bytes) - 1 <= Scanned
  BY <1>1, <1>2 DEF DeliveredSound
<1>5. p < d.at + Len(d.bytes)
  BY <1>2 DEF Covers
<1>6. Scanned \in Nat /\ Scanned <= Decided
  <2>1. tally["truncated"] \in Nat /\ Len(received) \in Nat /\ Len(buffer) \in Nat
    BY <1>1 DEF TypeOK, Categories
  <2>2. QED
    BY <1>1, <2>1, ScannedType DEF Scanned, Decided
<1>7. Decided \in Nat
  BY Books DEF Balanced
<1> HIDE DEF d
<1>8. QED
  BY <1>3, <1>4, <1>5, <1>6, <1>7

-----------------------------------------------------------------------------
(* Every step of the decoder is of one of the two kinds.                   *)
LEMMA StepKinds ==
  ASSUME IInv, [Next]_vars
  PROVE  Quiet \/ \E f : Hands(f)
<1>1. /\ TypeOK /\ Shape
      /\ buffer \in Seq(Byte) /\ received \in Seq(Byte)
      /\ Len(received) \in Nat /\ Len(buffer) \in Nat
      /\ tally \in [Categories -> Nat]
  BY DEF IInv, TypeOK
<1>2. CASE Push
  <2>1. PICK byte \in Byte : HuntFirst(byte) \/ HuntSecond(byte) \/ Store(byte)
    BY <1>2 DEF Push
  <2>2. received' = Append(received, byte) /\ delivered' = delivered
    BY <2>1 DEF HuntFirst, HuntSecond, Store, Receive
  <2>3. Len(received') = Len(received) + 1
    BY <1>1, <2>2, AppendFacts
  <2>4. Len(buffer') <= Len(buffer) + 1 /\ Len(buffer') \in Nat
    <3>1. \/ buffer' = buffer
          \/ Len(buffer) = 0 /\ buffer' = <<byte>>
          \/ buffer' = Append(buffer, byte)
          \/ buffer' = <<>>
      BY <2>1 DEF HuntFirst, HuntSecond, Store
    <3>2. Len(Append(buffer, byte)) = Len(buffer) + 1
      BY <1>1, AppendFacts
    <3>3. CASE buffer' = buffer
      BY <1>1, <3>3
    <3>4. CASE Len(buffer) = 0 /\ buffer' = <<byte>>
      BY <3>4
    <3>5. CASE buffer' = Append(buffer, byte)
      BY <1>1, <3>2, <3>5
    <3>6. CASE buffer' = <<>>
      BY <1>1, <3>6
    <3>7. QED
      BY <3>1, <3>3, <3>4, <3>5, <3>6
  <2>5. tally'["framed"] = tally["framed"]
    <3>1. tally' = tally \/ tally' = Count("noise", 1) \/ tally' = Count("noise", 2)
      BY <2>1 DEF HuntFirst, HuntSecond, Store
    <3>2. QED
      BY <1>1, <3>1 DEF Count, Categories
  <2>6. QED
    BY <1>1, <2>2, <2>3, <2>4, <2>5 DEF Quiet, Decided
<1>3. CASE AwaitMore
  BY <1>1, <1>3 DEF AwaitMore, Quiet, Decided
<1>4. CASE Reject
  <2>1. PICK k \in 1 .. Len(buffer) :
          buffer' = Drop(buffer, k) /\ tally' = Count("rejected", k)
    BY <1>4 DEF Reject
  <2>2. Len(buffer') = Len(buffer) - k
    BY <1>1, <2>1, DropFacts
  <2>3. tally'["framed"] = tally["framed"]
    BY <1>1, <2>1 DEF Count, Categories
  <2>4. received' = received /\ delivered' = delivered
    BY <1>4 DEF Reject
  <2>5. QED
    BY <1>1, <2>1, <2>2, <2>3, <2>4 DEF Quiet, Decided
<1>5. CASE Deliver
  <2> DEFINE n == FrameSize(buffer, 1)
             rest == Drop(buffer, n)
             f == CandidateAt(buffer, 1)
  <2>1. /\ CompleteAt(buffer, 1) /\ received' = received
        /\ delivered' = Append(delivered, [at |-> Decided + 1, bytes |-> f])
        /\ pc = "process"
    BY <1>5 DEF Deliver, Decided
  <2>2. PICK k \in 0 .. Len(rest) :
          /\ buffer' = Drop(rest, k)
          /\ tally' = [tally EXCEPT !["framed"] = @ + n, !["noise"] = @ + k]
    BY <1>5 DEF Deliver
  <2>3. n \in Nat /\ n <= Len(buffer)
    <3>1. HeaderAt(buffer, 1) /\ 1 + n - 1 <= Len(buffer)
      BY <2>1 DEF CompleteAt
    <3>2. 1 \in 1 .. Len(buffer)
      BY <1>1, <2>1 DEF Shape
    <3>3. n \in Nat
      BY <1>1, <3>1, <3>2, LengthNat
    <3>4. QED
      BY <1>1, <3>1, <3>3
  <2>4. f \in Seq(Byte) /\ Len(f) = n
    <3>1. f = SubSeq(buffer, 1, n)
      BY <2>3 DEF CandidateAt
    <3> HIDE DEF f, n
    <3>2. \A i \in 1 .. n : buffer[i] \in Byte
      BY <1>1, <2>3, ElementOfSeq
    <3>3. QED
      BY <2>3, <3>1, <3>2, SubSeqProperties
  <2> HIDE DEF n, f
  <2>5. rest \in Seq(Byte) /\ Len(rest) = Len(buffer) - n
    BY <1>1, <2>3, DropFacts
  <2> HIDE DEF rest
  <2>6. Len(buffer') = Len(rest) - k
    BY <2>2, <2>5, DropFacts
  <2>7. tally'["framed"] = tally["framed"] + n
    BY <1>1, <2>2 DEF Categories
  <2>8. Decided + Len(f) <= Decided'
    BY <1>1, <2>1, <2>2, <2>3, <2>4, <2>5, <2>6 DEF Decided
  <2>9. Hands(f)
    BY <2>1, <2>4, <2>7, <2>8 DEF Hands
  <2>10. QED
    BY <2>9
<1>6. CASE Finish
  <2>1. /\ buffer' = <<>> /\ received' = received /\ delivered' = delivered
        /\ tally' = Count("truncated", Len(buffer))
    BY <1>6 DEF Finish
  <2>2. tally'["framed"] = tally["framed"]
    BY <1>1, <2>1 DEF Count, Categories
  <2>3. QED
    BY <1>1, <2>1, <2>2 DEF Quiet, Decided
<1>7. CASE UNCHANGED vars
  BY <1>1, <1>7 DEF vars, Quiet, Decided
<1>8. QED
  BY <1>2, <1>3, <1>4, <1>5, <1>6, <1>7 DEF Next, ProcessBuffer

(* What was reported stays reported: losses are never taken back.          *)
LEMMA ReportsStay ==
  ASSUME IInv, [Next]_vars, malformed
  PROVE  malformed'
<1>1. Balanced'
  <2>1. IInv' => Balanced'
    BY Books, PTL
  <2>2. QED
    BY <2>1, NextIInv
<1>2. /\ Decided \in Nat /\ tally["framed"] \in Nat
      /\ Decided > tally["framed"]
  BY Books, Zenon DEF Balanced
<1>3. /\ Decided' \in Nat /\ tally'["framed"] \in Nat
      /\ malformed' <=> Decided' > tally'["framed"]
  BY <1>1, Zenon DEF Balanced
<1>4. Decided' > tally'["framed"]
  <2>1. CASE Quiet
    BY <1>2, <1>3, <2>1 DEF Quiet
  <2>2. CASE \E f : Hands(f)
    <3>1. PICK f : Hands(f)
      BY <2>2
    <3>2. Len(f) \in Nat
      BY <3>1 DEF Hands
    <3>3. QED
      BY <1>2, <1>3, <3>1, <3>2 DEF Hands
  <2>3. QED
    BY <2>1, <2>2, StepKinds
<1>5. QED
  BY <1>3, <1>4, Zenon

(* Which positions are covered after a step: as before, or also those of   *)
(* the frame that was handed over.                                         *)
LEMMA CoveredAfter ==
  ASSUME IInv, NEW f, Hands(f), NEW p \in Nat
  PROVE  Covered(p)' <=> Covered(p) \/ (Decided + 1 <= p /\ p <= Decided + Len(f))
<1> DEFINE Event == [at : Nat \ {0}, bytes : Seq(Byte)]
           new == [at |-> Decided + 1, bytes |-> f]
           N == Len(delivered)
<1>1. Decided \in Nat /\ f \in Seq(Byte) /\ Len(f) \in Nat
  BY Books DEF Hands, Balanced
<1>2. delivered \in Seq(Event) /\ new \in Event
  BY <1>1 DEF IInv, TypeOK
<1>3. delivered' = Append(delivered, new)
  BY DEF Hands
<1> HIDE DEF Event
<1>4. /\ N \in Nat /\ Len(delivered') = N + 1
      /\ delivered'[N + 1] = new
      /\ \A n \in 1 .. N : delivered'[n] = delivered[n]
  <2> HIDE DEF new
  <2>1. QED
    BY <1>2, <1>3, Appended
<1>5. Covers(new, p) <=> (Decided + 1 <= p /\ p <= Decided + Len(f))
  BY <1>1 DEF Covers
<1> HIDE DEF new, N
<1>6. Covered(p)' <=> \E n \in 1 .. (N + 1) : Covers(delivered'[n], p)
  BY <1>4 DEF Covered, Covers
<1>7. (\E n \in 1 .. (N + 1) : Covers(delivered'[n], p))
        <=> (\E n \in 1 .. N : Covers(delivered[n], p)) \/ Covers(new, p)
  <2>1. ASSUME NEW n \in 1 .. (N + 1), Covers(delivered'[n], p)
        PROVE  (\E m \in 1 .. N : Covers(delivered[m], p)) \/ Covers(new, p)
    BY <1>4, <2>1, EarlierOrLast
  <2>2. ASSUME NEW n \in 1 .. N, Covers(delivered[n], p)
        PROVE  \E m \in 1 .. (N + 1) : Covers(delivered'[m], p)
    BY <1>4, <2>2
  <2>3. ASSUME Covers(new, p)
        PROVE  \E m \in 1 .. (N + 1) : Covers(delivered'[m], p)
    BY <1>4, <2>3
  <2>4. QED
    BY <2>1, <2>2, <2>3
<1>8. QED
  BY <1>5, <1>6, <1>7 DEF Covered, N

(* The exactness of the reports is kept by every step: a byte that is      *)
(* decided on without a frame is reported and stays uncovered, and nothing *)
(* is reported without one.                                                *)
LEMMA NextExact ==
  ASSUME IInv, Exact, [Next]_vars
  PROVE  Exact'
<1>1. Balanced /\ Balanced'
  <2>1. IInv' => Balanced'
    BY Books, PTL
  <2>2. QED
    BY <2>1, NextIInv, Books
<1>2. /\ Decided \in Nat /\ tally["framed"] \in Nat /\ Decided >= tally["framed"]
      /\ Decided' \in Nat /\ tally'["framed"] \in Nat /\ Decided' >= tally'["framed"]
  BY <1>1 DEF Balanced
<1>3. CASE Quiet
  <2>1. \A p : Covered(p)' <=> Covered(p)
    BY <1>3 DEF Quiet, Covered, Covers
  <2>2. CASE Decided' = Decided
    <3>1. malformed' <=> malformed
      <4>1. Decided' > tally'["framed"] <=> Decided > tally["framed"]
        BY <1>3, <2>2 DEF Quiet
      <4>2. QED
        BY <1>1, <4>1, Zenon DEF Balanced
    <3>2. QED
      BY <2>1, <2>2, <3>1, Zenon DEF Exact
  <2>3. CASE Decided' # Decided
    <3>1. Decided' > tally'["framed"] /\ Decided' > Decided
      BY <1>2, <1>3, <2>3 DEF Quiet
    <3>2. malformed'
      BY <1>1, <3>1, Zenon DEF Balanced
    <3>3. PICK q \in 1 .. Decided' : q = Decided'
      BY <1>2, <3>1
    <3>4. ~Covered(q)
      BY <1>2, <3>1, <3>3, WithinDecided
    <3>5. ~Covered(q)'
      BY <2>1, <3>4
    <3>6. QED
      BY <3>2, <3>5, Zenon DEF Exact
  <2>4. QED
    BY <2>2, <2>3
<1>4. CASE \E f : Hands(f)
  <2>1. PICK f : Hands(f)
    BY <1>4
  <2>2. /\ Len(f) \in Nat /\ tally'["framed"] = tally["framed"] + Len(f)
        /\ Decided + Len(f) <= Decided'
    BY <2>1 DEF Hands
  <2>3. CASE malformed
    <3>1. PICK p \in 1 .. Decided : ~Covered(p)
      BY <2>3, Zenon DEF Exact
    <3>2. p \in Nat /\ p \in 1 .. Decided' /\ ~(Decided + 1 <= p)
      BY <1>2, <2>2
    <3>3. ~Covered(p)'
      BY <2>1, <3>1, <3>2, CoveredAfter
    <3>4. malformed'
      BY <2>3, ReportsStay, Zenon
    <3>5. QED
      BY <3>2, <3>3, <3>4, Zenon DEF Exact
  <2>4. CASE ~malformed
    <3>1. ~(Decided > tally["framed"])
      BY <1>1, <2>4, Zenon DEF Balanced
    <3>2. CASE Decided' = Decided + Len(f)
      <4>1. ~(Decided' > tally'["framed"])
        BY <1>2, <2>2, <3>1, <3>2
      <4>2. ~malformed'
        BY <1>1, <4>1, Zenon DEF Balanced
      <4>3. ASSUME NEW p \in 1 .. Decided' PROVE Covered(p)'
        <5>1. p \in Nat /\ (p \in 1 .. Decided \/ (Decided + 1 <= p /\ p <= Decided + Len(f)))
          BY <1>2, <2>2, <3>2
        <5>2. p \in 1 .. Decided => Covered(p)
          BY <2>4, Zenon DEF Exact
        <5>3. QED
          BY <2>1, <5>1, <5>2, CoveredAfter
      <4>4. QED
        BY <4>2, <4>3, Zenon DEF Exact
    <3>3. CASE Decided' # Decided + Len(f)
      <4>1. Decided' > tally'["framed"] /\ Decided' > Decided + Len(f)
        BY <1>2, <2>2, <3>1, <3>3
      <4>2. malformed'
        BY <1>1, <4>1, Zenon DEF Balanced
      <4>3. PICK q \in 1 .. Decided' : q = Decided'
        BY <1>2, <4>1
      <4>4. ~Covered(q)
        BY <1>2, <2>2, <4>1, <4>3, WithinDecided
      <4>5. ~Covered(q)'
        <5>1. q \in Nat /\ ~(q <= Decided + Len(f))
          BY <1>2, <2>2, <4>1, <4>3
        <5>2. QED
          BY <2>1, <4>4, <5>1, CoveredAfter
      <4>6. QED
        BY <4>2, <4>5, Zenon DEF Exact
    <3>4. QED
      BY <3>2, <3>3
  <2>5. QED
    BY <2>3, <2>4
<1>5. QED
  BY <1>3, <1>4, StepKinds

-----------------------------------------------------------------------------
(* What a step of the decoder and its handler does to the verdict.         *)

(* The messages printed and refused so far, after one more frame.          *)
LEMMA VerdictAfter ==
  ASSUME IInv, NEW f, Hands(f)
  PROVE  /\ delivered' # delivered
         /\ delivered'[Len(delivered')].bytes = f
         /\ Printed' <=> Printed \/ Printable(f)
         /\ Refused' <=> Refused \/ ~Printable(f)
<1> DEFINE Event == [at : Nat \ {0}, bytes : Seq(Byte)]
           new == [at |-> Decided + 1, bytes |-> f]
           N == Len(delivered)
<1>1. Decided \in Nat /\ f \in Seq(Byte)
  BY Books DEF Hands, Balanced
<1>2. delivered \in Seq(Event) /\ new \in Event
  BY <1>1 DEF IInv, TypeOK
<1>3. delivered' = Append(delivered, new)
  BY DEF Hands
<1>4. new.bytes = f
  OBVIOUS
<1> HIDE DEF Event, new
<1>5. /\ N \in Nat /\ Len(delivered') = N + 1 /\ delivered' # delivered
      /\ delivered'[N + 1] = new
      /\ \A n \in 1 .. N : delivered'[n] = delivered[n]
  BY <1>2, <1>3, Appended
<1> HIDE DEF N
<1>6. N + 1 \in 1 .. (N + 1) /\ \A n \in 1 .. N : n \in 1 .. (N + 1)
  BY <1>5
<1>7. \A n \in 1 .. (N + 1) : n \in 1 .. N \/ n = N + 1
  BY <1>5, EarlierOrLast
<1>8. Printed' <=> Printed \/ Printable(f)
  <2>1. Printed' <=> \E n \in 1 .. (N + 1) : Printable(delivered'[n].bytes)
    BY <1>5 DEF Printed, Printable
  <2>2. Printed <=> \E n \in 1 .. N : Printable(delivered[n].bytes)
    BY DEF Printed, N
  <2>3. QED
    BY <1>4, <1>5, <1>6, <1>7, <2>1, <2>2
<1>9. Refused' <=> Refused \/ ~Printable(f)
  <2>1. Refused' <=> \E n \in 1 .. (N + 1) : ~Printable(delivered'[n].bytes)
    BY <1>5 DEF Refused, Printable
  <2>2. Refused <=> \E n \in 1 .. N : ~Printable(delivered[n].bytes)
    BY DEF Refused, N
  <2>3. QED
    BY <1>4, <1>5, <1>6, <1>7, <2>1, <2>2
<1>10. QED
  BY <1>4, <1>5, <1>8, <1>9

(* The verdict so far: what malformed_input_ and decoded_messages_ say.    *)
Verdict ==
  /\ malformed_input \in BOOLEAN
  /\ malformed_input <=> malformed \/ Refused
  /\ decoded_messages \in Nat
  /\ decoded_messages > 0 <=> Printed

(* A step of the decoder with the handling of its events keeps it.         *)
LEMMA NextVerdict ==
  ASSUME IInv, Verdict, [Next]_vars, HandleEvents
  PROVE  Verdict'
<1>1. malformed => malformed'
  BY ReportsStay
<1>2. CASE delivered' = delivered
  <2>1. (Printed' <=> Printed) /\ (Refused' <=> Refused)
    BY <1>2 DEF Printed, Refused, Printable
  <2>2. decoded_messages' = decoded_messages
        /\ malformed_input' = (malformed_input \/ malformed')
    BY <1>2, Zenon DEF HandleEvents
  <2>3. /\ malformed_input' \in BOOLEAN
        /\ malformed_input' <=> malformed' \/ Refused'
    BY <1>1, <2>1, <2>2, Zenon DEF Verdict
  <2>4. decoded_messages' \in Nat /\ (decoded_messages' > 0 <=> Printed')
    BY <2>1, <2>2, Zenon DEF Verdict
  <2>5. QED
    BY <2>3, <2>4, Zenon DEF Verdict
<1>3. CASE \E f : Hands(f)
  <2>1. PICK f : Hands(f)
    BY <1>3
  <2>2. /\ delivered' # delivered
        /\ delivered'[Len(delivered')].bytes = f
        /\ Printed' <=> Printed \/ Printable(f)
        /\ Refused' <=> Refused \/ ~Printable(f)
    BY <2>1, VerdictAfter
  <2>3. CASE Printable(f)
    <3>1. decoded_messages' = decoded_messages + 1
          /\ malformed_input' = (malformed_input \/ malformed')
      BY <2>2, <2>3, Zenon DEF HandleEvents
    <3>2. /\ malformed_input' \in BOOLEAN
          /\ malformed_input' <=> malformed' \/ Refused'
      BY <1>1, <2>2, <2>3, <3>1, Zenon DEF Verdict
    <3>3. decoded_messages' \in Nat /\ decoded_messages' > 0
      BY <3>1 DEF Verdict
    <3>4. QED
      BY <2>2, <2>3, <3>2, <3>3, Zenon DEF Verdict
  <2>4. CASE ~Printable(f)
    <3>1. decoded_messages' = decoded_messages /\ malformed_input' = TRUE
      BY <2>2, <2>4, Zenon DEF HandleEvents
    <3>2. /\ malformed_input' \in BOOLEAN
          /\ malformed_input' <=> malformed' \/ Refused'
      BY <2>2, <2>4, <3>1, Zenon
    <3>3. decoded_messages' \in Nat /\ (decoded_messages' > 0 <=> Printed')
      BY <2>2, <2>4, <3>1, Zenon DEF Verdict
    <3>4. QED
      BY <3>2, <3>3, Zenon DEF Verdict
  <2>5. QED
    BY <2>3, <2>4
<1>4. QED
  BY <1>2, <1>3, StepKinds DEF Quiet

(* The exit status once there is one.                                      *)
Decision ==
  /\ exit \in {-1, 0, 1}
  /\ exit = -1 => pc # "closed"
  /\ pc = "closed" =>
       exit = IF decoded_messages = 0 \/ malformed_input THEN 1 ELSE 0
  /\ exit = 0 => pc = "closed"

(* Every reachable state of the offline mode satisfies the invariant.      *)
THEOREM OfflineInvariance == OfflineSpec => [](IInv /\ Exact /\ Verdict /\ Decision)
<1> DEFINE Inv == IInv /\ Exact /\ Verdict /\ Decision
<1>1. OfflineInit => Inv
  <2> SUFFICES ASSUME OfflineInit PROVE Inv
    OBVIOUS
  <2>1. Init /\ decoded_messages = 0 /\ malformed_input = FALSE /\ exit = -1
    BY DEF OfflineInit
  <2>2. IInv
    BY <2>1, InitIInv
  <2>3. /\ Len(received) = 0 /\ Len(buffer) = 0 /\ Len(delivered) = 0
        /\ malformed = FALSE /\ pc = "push"
    BY <2>1 DEF Init
  <2>4. Decided = 0 /\ ~Printed /\ ~Refused
    BY <2>3 DEF Decided, Printed, Refused
  <2>5. Exact
    BY <2>3, <2>4 DEF Exact
  <2>6. malformed_input \in BOOLEAN /\ (malformed_input <=> malformed \/ Refused)
    BY <2>1, <2>3, <2>4, Zenon
  <2>7. decoded_messages \in Nat /\ (decoded_messages > 0 <=> Printed)
    BY <2>1, <2>4
  <2>8. Verdict
    BY <2>6, <2>7, Zenon DEF Verdict
  <2>9. Decision
    BY <2>1, <2>3 DEF Decision
  <2>10. QED
    BY <2>2, <2>5, <2>8, <2>9
<1>2. Inv /\ [OfflineNext]_offline_vars => Inv'
  <2> SUFFICES ASSUME IInv, Exact, Verdict, Decision, [OfflineNext]_offline_vars
               PROVE  Inv'
    OBVIOUS
  <2>1. ASSUME [Next]_vars PROVE IInv' /\ Exact'
    BY <2>1, NextIInv, NextExact
  <2>2. CASE Feed
    <3>1. Next /\ HandleEvents /\ exit' = exit /\ exit = -1
      BY <2>2 DEF Feed, Next
    <3>2. pc' # "closed"
      BY <2>2, <3>1 DEF Feed, Decision, Push, HuntFirst, HuntSecond, Store, ProcessBuffer,
                        AwaitMore, Reject, Deliver, LoopOrReturn
    <3>3. Decision'
      BY <3>1, <3>2 DEF Decision
    <3>4. Verdict'
      BY <3>1, NextVerdict
    <3>5. QED
      BY <2>1, <3>1, <3>3, <3>4
  <2>3. CASE EndOfFile
    <3>1. Next /\ HandleEvents /\ exit' = Status /\ pc' = "closed"
      BY <2>3 DEF EndOfFile, Next, Finish
    <3>2. Decision'
      BY <3>1 DEF Decision, Status
    <3>3. Verdict'
      BY <3>1, NextVerdict
    <3>4. QED
      BY <2>1, <3>1, <3>2, <3>3
  <2>4. CASE ReadError
    <3>1. /\ UNCHANGED vars /\ UNCHANGED <<decoded_messages, malformed_input>>
          /\ exit' = 1 /\ pc = "push" /\ pc' = pc /\ malformed' = malformed
          /\ delivered' = delivered
      BY <2>4, Zenon DEF ReadError, vars
    <3>2. Decision'
      BY <3>1 DEF Decision
    <3>3. Verdict'
      BY <3>1, Zenon DEF Verdict, Printed, Refused, Printable
    <3>4. QED
      BY <2>1, <3>1, <3>2, <3>3
  <2>5. CASE UNCHANGED offline_vars
    <3>1. UNCHANGED vars /\ UNCHANGED <<decoded_messages, malformed_input, exit>>
          /\ malformed' = malformed /\ delivered' = delivered /\ pc' = pc
      BY <2>5, Zenon DEF offline_vars, processor, vars
    <3>2. Decision' /\ Verdict'
      BY <3>1, Zenon DEF Decision, Verdict, Printed, Refused, Printable
    <3>3. QED
      BY <2>1, <3>1, <3>2
  <2>6. QED
    BY <2>2, <2>3, <2>4, <2>5 DEF OfflineNext
<1> HIDE DEF Inv
<1>3. OfflineSpec => []Inv
  BY <1>1, <1>2, PTL DEF OfflineSpec
<1>4. QED
  BY <1>3 DEF Inv

-----------------------------------------------------------------------------
(* The properties, for every geometry, codec and file.                     *)

(* The exit status in terms of what was handed over: every byte belongs to *)
(* a delivered frame, every delivered frame was printed, and there was one.*)
AllPrinted ==
  /\ delivered # <<>>
  /\ \A n \in 1 .. Len(delivered) : Printable(delivered[n].bytes)
  /\ \A p \in 1 .. Len(received) : Covered(p)

CleanExit == pc = "closed" => (exit = 0 <=> AllPrinted)

(* At the end of the file the status is 0 exactly when every byte belongs  *)
(* to a delivered frame, every delivered frame was printed, and there was  *)
(* one.                                                                    *)
THEOREM StatusSound == OfflineSpec => []CleanExit
<1>1. IInv /\ Exact /\ Verdict /\ Decision => CleanExit
  <2> SUFFICES ASSUME IInv, Exact, Verdict, Decision, pc = "closed"
               PROVE  exit = 0 <=> AllPrinted
    BY DEF CleanExit
  <2>1. Decided = Len(received) /\ Len(received) \in Nat
    <3>1. buffer = <<>> /\ received \in Seq(Byte)
      BY DEF IInv, Shape, TypeOK
    <3>2. Len(buffer) = 0 /\ Len(received) \in Nat
      BY <3>1
    <3>3. QED
      BY <3>2 DEF Decided
  <2>2. exit = 0 <=> decoded_messages # 0 /\ ~malformed_input
    BY DEF Decision
  <2>3. decoded_messages # 0 <=> Printed
    BY DEF Verdict
  <2>4. ~malformed_input <=> ~malformed /\ ~Refused
    BY Zenon DEF Verdict
  <2>5. ~malformed <=> \A p \in 1 .. Len(received) : Covered(p)
    BY <2>1, Zenon DEF Exact
  <2>6. Printed /\ ~Refused <=> delivered # <<>> /\ ~Refused
    <3>1. delivered \in Seq([at : Nat \ {0}, bytes : Seq(Byte)])
      BY DEF IInv, TypeOK
    <3>2. ASSUME delivered # <<>> PROVE 1 \in 1 .. Len(delivered)
      BY <3>1, <3>2
    <3>3. Printed => delivered # <<>>
      BY DEF Printed
    <3>4. ASSUME delivered # <<>>, ~Refused PROVE Printed
      BY <3>2, <3>4 DEF Refused, Printed
    <3>5. QED
      BY <3>3, <3>4
  <2>7. QED
    BY <2>2, <2>3, <2>4, <2>5, <2>6, Zenon DEF AllPrinted, Refused
<1>2. QED
  BY <1>1, OfflineInvariance, PTL
-----------------------------------------------------------------------------
(* The exit status as a fact about the file alone.                         *)

(* What is left when a file ends in the middle of a frame is not a frame.  *)
Partial == pc = "closed" /\ Scanned < Len(received) => ~CompleteAt(received, Scanned + 1)

(* Induction over the natural numbers, for a set: the least natural number *)
(* outside of it would have a predecessor in it.                           *)
LEMMA SetInduction ==
  ASSUME NEW S, 0 \in S, \A n \in Nat : n \in S => n + 1 \in S
  PROVE  \A n \in Nat : n \in S
<1> DEFINE T == Nat \ S
<1>1. SUFFICES ASSUME T # {} PROVE FALSE
  OBVIOUS
<1>2. PICK m \in T : \A k \in T : <<k, m>> \notin OpToRel(<, Nat)
  BY <1>1, WFMin, NatLessThanWellFounded, Zenon
<1>3. \A k \in Nat : k < m => <<k, m>> \in OpToRel(<, Nat)
  BY Zenon DEF OpToRel
<1>4. m - 1 \in Nat /\ m - 1 < m /\ (m - 1) + 1 = m
  OBVIOUS
<1>5. m - 1 \in S
  BY <1>2, <1>3, <1>4, Zenon
<1>6. QED
  BY <1>4, <1>5

(* The same with the hypothesis for every smaller number.                  *)
LEMMA StrongSetInduction ==
  ASSUME NEW S,
         \A n \in Nat : (\A k \in Nat : k < n => k \in S) => n \in S
  PROVE  \A n \in Nat : n \in S
<1> DEFINE T == {n \in Nat : \A k \in Nat : k < n => k \in S}
<1>1. 0 \in T
  OBVIOUS
<1>2. ASSUME NEW n \in Nat, n \in T PROVE n + 1 \in T
  <2>1. n \in S
    BY <1>2
  <2>2. \A k \in Nat : k < n + 1 => k < n \/ k = n
    OBVIOUS
  <2>3. QED
    BY <1>2, <2>1, <2>2
<1>3. \A n \in Nat : n \in T
  <2> HIDE DEF T
  <2>1. QED
    BY <1>1, <1>2, SetInduction
<1>4. QED
  BY <1>3

(* What finish() cuts off is no complete frame: it was waited for.         *)
LEMMA NextPartial ==
  ASSUME IInv, Partial, [Next]_vars
  PROVE  Partial'
<1>1. /\ TypeOK /\ Shape /\ Waiting
      /\ buffer \in Seq(Byte) /\ received \in Seq(Byte)
      /\ Len(received) \in Nat /\ Len(buffer) \in Nat
      /\ tally \in [Categories -> Nat]
  BY DEF IInv, TypeOK
<1>2. CASE pc' # "closed"
  BY <1>2 DEF Partial
<1>3. CASE UNCHANGED vars
  BY <1>3 DEF vars, Partial, Scanned
<1>4. CASE Finish
  <2>1. /\ pc \in {"push", "closed"} /\ received' = received /\ Len(buffer') = 0
        /\ tally' = Count("truncated", Len(buffer))
    BY <1>4 DEF Finish
  <2>2. tally'["truncated"] = tally["truncated"] + Len(buffer)
    BY <1>1, <2>1 DEF Count, Categories
  <2>3. Scanned' = Scanned
    BY <1>1, <2>1, <2>2 DEF Scanned, Categories
  <2>4. CASE pc = "closed"
    BY <2>1, <2>3, <2>4 DEF Partial
  <2>5. CASE pc = "push"
    <3>1. ~CompleteAt(buffer, 1) /\ ~OversizedAt(buffer, 1) /\ tally["truncated"] = 0
      BY <1>1, <2>5 DEF Waiting, Shape
    <3>2. Scanned + Len(buffer) = Len(received) /\ Scanned \in Nat
      BY <1>1, <3>1 DEF Scanned, Shape
    <3>3. \A i \in 1 .. Len(buffer) : buffer[i] = received[Scanned + i]
      BY <1>1, <3>1, <3>2 DEF Shape, Scanned
    <3>4. SUFFICES ASSUME Scanned < Len(received), CompleteAt(received, Scanned + 1)
                   PROVE  FALSE
      BY <2>1, <2>3 DEF Partial
    <3>5. HeaderAt(buffer, 1)
      BY <1>1, <3>2, <3>4, GeometryAssumption DEF CompleteAt, HeaderAt
    <3>6. 1 \in 1 .. Len(buffer)
      BY <3>2, <3>4, <1>1
    <3>7. /\ LengthAt(received, Scanned + 1) = LengthAt(buffer, 1)
          /\ FrameSize(received, Scanned + 1) = FrameSize(buffer, 1)
      <4> DEFINE o == Scanned
      <4>1. /\ o \in Nat /\ o + Len(buffer) <= Len(received)
            /\ \A i \in 1 .. Len(buffer) : buffer[i] = received[o + i]
        BY <1>1, <3>2, <3>3
      <4> HIDE DEF o
      <4>2. LengthAt(received, o + 1) = LengthAt(buffer, 1)
            /\ FrameSize(received, o + 1) = FrameSize(buffer, 1)
        BY <1>1, <3>5, <3>6, <4>1, Embedding
      <4>3. QED
        BY <4>2 DEF o
    <3>8. FrameSize(buffer, 1) \in Nat
      BY <1>1, <3>5, <3>6, LengthNat
    <3>9. CompleteAt(buffer, 1)
      BY <1>1, <3>2, <3>4, <3>5, <3>7, <3>8 DEF CompleteAt
    <3>10. QED
      BY <3>1, <3>9
  <2>6. QED
    BY <2>1, <2>4, <2>5
<1>5. pc' # "closed" \/ Finish \/ UNCHANGED vars
  BY DEF Next, Push, HuntFirst, HuntSecond, Store, ProcessBuffer, AwaitMore, Reject,
         Deliver, LoopOrReturn, Receive
<1>6. QED
  BY <1>2, <1>3, <1>4, <1>5

(* Both hold throughout, whatever happens around the decoder.              *)
LEMMA WholeAndPartial == OfflineSpec => [](Framed /\ Partial)
<1>1. OfflineInit => Framed /\ Partial
  BY DEF OfflineInit, Init, Framed, Partial
<1>2. IInv /\ Framed /\ Partial /\ [OfflineNext]_offline_vars => (Framed /\ Partial)'
  <2> SUFFICES ASSUME IInv, Framed, Partial, [OfflineNext]_offline_vars
               PROVE  (Framed /\ Partial)'
    OBVIOUS
  <2>1. [Next]_vars
    BY DEF OfflineNext, Feed, EndOfFile, ReadError, Next, offline_vars
  <2>2. QED
    BY <2>1, NextFramed, NextPartial
<1>3. QED
  BY <1>1, <1>2, OfflineInvariance, PTL DEF OfflineSpec

-----------------------------------------------------------------------------
(* The recursive function of IsRecording is well defined: the positions    *)
(* that messages lead up to are the least set closed under appending one.  *)
LEMMA RecordingDefined ==
  ASSUME NEW s, NEW N \in Nat
  PROVE  \E g : g = [n \in 0 .. N |->
                      \/ n = 0
                      \/ \E k \in 0 .. (n - 1) : g[k] /\ MessageFrame(SubSeq(s, k + 1, n))]
<1> DEFINE M(k, n) == MessageFrame(SubSeq(s, k + 1, n))
           Closed(E) == /\ 0 \in E
                        /\ \A n \in 0 .. N : \A k \in 0 .. (n - 1) :
                             k \in E /\ M(k, n) => n \in E
           G == {n \in 0 .. N : \A E \in SUBSET (0 .. N) : Closed(E) => n \in E}
           g == [n \in 0 .. N |-> n \in G]
<1>1. Closed(G)
  <2>1. 0 \in G
    OBVIOUS
  <2>2. ASSUME NEW n \in 0 .. N, NEW k \in 0 .. (n - 1), k \in G, M(k, n)
        PROVE  n \in G
    <3> HIDE DEF M
    <3>1. QED
      BY <2>2
  <2> HIDE DEF G, M
  <2>3. QED
    BY <2>1, <2>2
<1>2. ASSUME NEW n \in G, n # 0
      PROVE  \E k \in 0 .. (n - 1) : k \in G /\ M(k, n)
  <2> HIDE DEF M
  <2>1. SUFFICES ASSUME ~ \E k \in 0 .. (n - 1) : k \in G /\ M(k, n)
                 PROVE  FALSE
    OBVIOUS
  <2> DEFINE E == G \ {n}
  <2>2. E \in SUBSET (0 .. N) /\ Closed(E)
    <3> HIDE DEF G
    <3>1. G \subseteq 0 .. N
      BY DEF G
    <3>2. QED
      BY <1>1, <1>2, <2>1, <3>1
  <2>3. n \in E
    BY <2>2
  <2>4. QED
    BY <2>3
<1>3. ASSUME NEW n \in 0 .. N
      PROVE  n \in G <=> n = 0 \/ \E k \in 0 .. (n - 1) : g[k] /\ M(k, n)
  <2> HIDE DEF M
  <2>1. \A k \in 0 .. (n - 1) : g[k] <=> k \in G
    <3>1. \A k \in 0 .. (n - 1) : k \in 0 .. N
      OBVIOUS
    <3> HIDE DEF G
    <3>2. QED
      BY <3>1, Zenon
  <2> HIDE DEF G, g
  <2>2. 0 \in G
    BY <1>1
  <2>3. QED
    BY <1>1, <1>2, <2>1, <2>2, Zenon
<1> HIDE DEF G, M
<1>4. g = [n \in 0 .. N |-> n = 0 \/ \E k \in 0 .. (n - 1) : g[k] /\ M(k, n)]
  <2> DEFINE h == [n \in 0 .. N |-> n = 0 \/ \E k \in 0 .. (n - 1) : g[k] /\ M(k, n)]
  <2>1. \A n \in 0 .. N :
          (n \in G) = (n = 0 \/ \E k \in 0 .. (n - 1) : g[k] /\ M(k, n))
    BY <1>3
  <2>2. \A n \in 0 .. N : g[n] = h[n]
    BY <2>1, Zenon
  <2>3. QED
    BY <2>2, Zenon
<1> HIDE DEF g
<1>5. QED
  BY <1>4, Zenon DEF M

(* What IsRecording says, one step of the recursion at a time.             *)
LEMMA RecordingUnfolds ==
  ASSUME NEW s, Len(s) \in Nat
  PROVE  \E f :
           /\ IsRecording(s) <=> Len(s) > 0 /\ f[Len(s)]
           /\ \A n \in 0 .. Len(s) :
                f[n] <=> \/ n = 0
                         \/ \E k \in 0 .. (n - 1) : f[k] /\ MessageFrame(SubSeq(s, k + 1, n))
<1> DEFINE N == Len(s)
           f == CHOOSE g : g = [n \in 0 .. N |->
                  \/ n = 0
                  \/ \E k \in 0 .. (n - 1) : g[k] /\ MessageFrame(SubSeq(s, k + 1, n))]
<1>1. f = [n \in 0 .. N |->
             \/ n = 0
             \/ \E k \in 0 .. (n - 1) : f[k] /\ MessageFrame(SubSeq(s, k + 1, n))]
  <2>1. \E g : g = [n \in 0 .. N |->
                    \/ n = 0
                    \/ \E k \in 0 .. (n - 1) : g[k] /\ MessageFrame(SubSeq(s, k + 1, n))]
    BY RecordingDefined
  <2>2. QED
    BY <2>1, Zenon
<1>2. IsRecording(s) <=> N > 0 /\ f[N]
  BY Zenon DEF IsRecording
<1> HIDE DEF f
<1>3. \A n \in 0 .. N :
        f[n] <=> \/ n = 0
                 \/ \E k \in 0 .. (n - 1) : f[k] /\ MessageFrame(SubSeq(s, k + 1, n))
  <2> SUFFICES ASSUME NEW n \in 0 .. N
               PROVE  f[n] <=> \/ n = 0
                               \/ \E k \in 0 .. (n - 1) :
                                    f[k] /\ MessageFrame(SubSeq(s, k + 1, n))
    OBVIOUS
  <2>1. f[n] = (\/ n = 0
                \/ \E k \in 0 .. (n - 1) : f[k] /\ MessageFrame(SubSeq(s, k + 1, n)))
    BY <1>1, Zenon
  <2>2. QED
    BY <2>1, Zenon
<1>4. QED
  BY <1>2, <1>3, Zenon

-----------------------------------------------------------------------------
(* A message of the recording that starts where the decoder has got to is  *)
(* handed over, and printed.                                               *)
LEMMA MessageIsDelivered ==
  ASSUME IInv, Framed, Partial, pc = "closed",
         NEW k \in Nat, k <= Scanned,
         k = 0 \/ \E i \in 1 .. Len(delivered) :
                    delivered[i].at + Len(delivered[i].bytes) - 1 = k,
         NEW n \in Nat, k < n, n <= Len(received),
         MessageFrame(SubSeq(received, k + 1, n))
  PROVE  \E j \in 1 .. Len(delivered) :
           /\ delivered[j].at = k + 1
           /\ delivered[j].at + Len(delivered[j].bytes) - 1 = n
           /\ Printable(delivered[j].bytes)
<1> DEFINE f == SubSeq(received, k + 1, n)
<1>1. /\ received \in Seq(Byte) /\ Len(received) \in Nat
      /\ k + 1 \in 1 .. Len(received) /\ n \in (k + 1) .. Len(received)
  BY DEF IInv, TypeOK
<1>2. WholeFrame(f) /\ Printable(f)
  BY DEF MessageFrame, WholeFrame
<1>3. CompleteAt(received, k + 1)
  BY <1>1, <1>2, WholeInStream
<1>4. k + 1 <= Scanned
  <2>1. Scanned \in Nat /\ Scanned <= Len(received)
    BY ScannedBounds
  <2>2. QED
    BY <1>1, <1>3, <2>1 DEF Partial
<1>5. PICK j \in 1 .. Len(delivered) :
        /\ delivered[j].at = k + 1
        /\ delivered[j].at + Len(delivered[j].bytes) - 1 = n
  <2> HIDE DEF f
  <2>1. WholeFrame(SubSeq(received, k + 1, n))
    BY <1>2 DEF f
  <2>2. QED
    BY <1>1, <1>4, <2>1, NextIsDelivered
<1>6. delivered[j].bytes = f
  BY <1>5, DeliveredFacts
<1>7. QED
  BY <1>2, <1>5, <1>6

(* A frame that covers the byte in front of another one ends with it.      *)
LEMMA FrameBefore ==
  ASSUME IInv, Framed, NEW k \in Nat,
         NEW i \in 1 .. Len(delivered), delivered[i].at = k + 1,
         NEW j \in 1 .. Len(delivered), Covers(delivered[j], k)
  PROVE  delivered[j].at + Len(delivered[j].bytes) - 1 = k
<1> DEFINE b == delivered[i].at
           m == Len(delivered[i].bytes)
           a == delivered[j].at
           l == Len(delivered[j].bytes)
<1>1. b \in Nat /\ m \in Nat /\ a \in Nat /\ l \in Nat /\ b = k + 1
  BY DeliveredFacts
<1>2. a <= k /\ k < a + l
  BY DEF Covers
<1>3. (i < j => b + m <= a) /\ (j < i => a + l <= b)
  BY DEF IInv, DeliveredSound
<1> HIDE DEF a, b, l, m
<1>4. j < i
  <2>1. i # j
    BY <1>1, <1>2 DEF a, b
  <2>2. ~(i < j)
    BY <1>1, <1>2, <1>3
  <2>3. QED
    BY <2>1, <2>2
<1>5. a + l - 1 = k
  BY <1>1, <1>2, <1>3, <1>4
<1>6. QED
  BY <1>5 DEF a, l

(* A file whose every byte was handed over in printed frames is the        *)
(* sequence of those frames.                                               *)
LEMMA PrintedIsRecording ==
  ASSUME IInv, Framed, AllPrinted
  PROVE  IsRecording(received)
<1>1. received \in Seq(Byte) /\ Len(received) \in Nat
      /\ delivered \in Seq([at : Nat \ {0}, bytes : Seq(Byte)])
  BY DEF IInv, TypeOK
<1>2. PICK f :
        /\ IsRecording(received) <=> Len(received) > 0 /\ f[Len(received)]
        /\ \A n \in 0 .. Len(received) :
             f[n] <=> \/ n = 0
                      \/ \E k \in 0 .. (n - 1) :
                           f[k] /\ MessageFrame(SubSeq(received, k + 1, n))
  BY <1>1, RecordingUnfolds
<1> DEFINE EndsAt(i, n) == delivered[i].at + Len(delivered[i].bytes) - 1 = n
           Edge(n) == n = 0 \/ \E i \in 1 .. Len(delivered) : EndsAt(i, n)
           S == {n \in Nat : n <= Len(received) /\ Edge(n) => f[n]}
<1>3. Len(received) > 0
  <2>1. 1 \in 1 .. Len(delivered)
    BY <1>1 DEF AllPrinted
  <2> DEFINE a == delivered[1].at
             l == Len(delivered[1].bytes)
  <2>2. a \in Nat \ {0} /\ l \in Nat \ {0} /\ a + l - 1 <= Len(received)
    BY <2>1, DeliveredFacts
  <2> HIDE DEF a, l
  <2>3. QED
    BY <1>1, <2>2
<1>4. ASSUME NEW k \in Nat, k <= Len(received),
             NEW i \in 1 .. Len(delivered), delivered[i].at = k + 1
      PROVE  Edge(k)
  <2>1. CASE k = 0
    BY <2>1
  <2>2. CASE k # 0
    <3>1. PICK j \in 1 .. Len(delivered) : Covers(delivered[j], k)
      BY <1>1, <1>4, <2>2 DEF AllPrinted, Covered
    <3>2. EndsAt(j, k)
      BY <1>4, <3>1, FrameBefore
    <3>3. QED
      BY <3>2
  <2>3. QED
    BY <2>1, <2>2
<1>5. ASSUME NEW n \in Nat, \A k \in Nat : k < n => k \in S
      PROVE  n \in S
  <2>1. SUFFICES ASSUME n <= Len(received), Edge(n) PROVE f[n]
    OBVIOUS
  <2>2. n \in 0 .. Len(received)
    BY <1>1, <2>1
  <2>3. CASE n = 0
    BY <1>2, <2>2, <2>3, Zenon
  <2>4. CASE n # 0
    <3>1. PICK i \in 1 .. Len(delivered) : EndsAt(i, n)
      BY <2>1, <2>4
    <3> DEFINE a == delivered[i].at
               l == Len(delivered[i].bytes)
               k == a - 1
    <3>2. /\ a \in Nat \ {0} /\ l \in Nat \ {0} /\ a + l - 1 = n
          /\ delivered[i].bytes = SubSeq(received, a, n)
          /\ WholeFrame(delivered[i].bytes)
      BY <3>1, DeliveredFacts
    <3>3. Printable(delivered[i].bytes)
      BY DEF AllPrinted
    <3> HIDE DEF a, l
    <3>4. k \in Nat /\ k < n /\ k <= Len(received) /\ k + 1 = a /\ k \in 0 .. (n - 1)
      BY <1>1, <2>1, <3>2
    <3>5. MessageFrame(SubSeq(received, k + 1, n))
      BY <3>2, <3>3, <3>4 DEF MessageFrame, WholeFrame
    <3> HIDE DEF k
    <3>6. Edge(k)
      <4> HIDE DEF Edge
      <4>1. QED
        BY <1>4, <3>4 DEF a
    <3>7. k \in S
      BY <1>5, <3>4
    <3> HIDE DEF Edge
    <3>8. f[k]
      BY <3>4, <3>6, <3>7, Zenon
    <3>9. \E m \in 0 .. (n - 1) : f[m] /\ MessageFrame(SubSeq(received, m + 1, n))
      BY <3>4, <3>5, <3>8, Zenon
    <3>10. QED
      BY <1>2, <2>2, <3>9, Zenon
  <2>5. QED
    BY <2>3, <2>4
<1>6. \A n \in Nat : n \in S
  <2> HIDE DEF S
  <2>1. QED
    BY <1>5, StrongSetInduction
<1>7. Edge(Len(received))
  <2> DEFINE N == Len(received)
  <2>1. PICK j \in 1 .. Len(delivered) : Covers(delivered[j], N)
    BY <1>1, <1>3 DEF AllPrinted, Covered
  <2> DEFINE a == delivered[j].at
             l == Len(delivered[j].bytes)
  <2>2. a \in Nat /\ l \in Nat /\ a + l - 1 <= N /\ N < a + l
    BY <2>1, DeliveredFacts DEF Covers
  <2>3. EndsAt(j, N) <=> a + l - 1 = N
    OBVIOUS
  <2> HIDE DEF a, l, N, EndsAt
  <2>4. a + l - 1 = N
    BY <1>1, <2>2 DEF N
  <2>5. QED
    BY <2>3, <2>4 DEF N
<1>8. f[Len(received)]
  <2>1. Len(received) \in S /\ Len(received) <= Len(received)
    BY <1>1, <1>6
  <2> HIDE DEF Edge
  <2>2. QED
    BY <1>7, <2>1, Zenon
<1>9. QED
  BY <1>2, <1>3, <1>8, Zenon

(* A file that is a sequence of messages was handed over and printed to    *)
(* its last byte.                                                          *)
LEMMA RecordingIsPrinted ==
  ASSUME IInv, Framed, Partial, pc = "closed", IsRecording(received)
  PROVE  AllPrinted
<1>1. received \in Seq(Byte) /\ Len(received) \in Nat
      /\ delivered \in Seq([at : Nat \ {0}, bytes : Seq(Byte)])
  BY DEF IInv, TypeOK
<1>2. PICK f :
        /\ IsRecording(received) <=> Len(received) > 0 /\ f[Len(received)]
        /\ \A n \in 0 .. Len(received) :
             f[n] <=> \/ n = 0
                      \/ \E k \in 0 .. (n - 1) :
                           f[k] /\ MessageFrame(SubSeq(received, k + 1, n))
  BY <1>1, RecordingUnfolds
<1>3. Len(received) > 0 /\ f[Len(received)]
  BY <1>2, Zenon
<1> DEFINE EndsAt(i, n) == delivered[i].at + Len(delivered[i].bytes) - 1 = n
           Edge(n) == n = 0 \/ \E i \in 1 .. Len(delivered) : EndsAt(i, n)
           InPrinted(p) == \E j \in 1 .. Len(delivered) :
                             Covers(delivered[j], p) /\ Printable(delivered[j].bytes)
           Shown(n) == Edge(n) /\ \A p \in 1 .. n : InPrinted(p)
           S == {n \in Nat : n <= Len(received) /\ f[n] => Shown(n)}
<1>4. ASSUME NEW n \in Nat, n <= Len(received), NEW k \in 0 .. (n - 1), Shown(k),
             MessageFrame(SubSeq(received, k + 1, n))
      PROVE  Shown(n)
  <2>1. k \in Nat /\ k < n
    OBVIOUS
  <2>2. k <= Scanned
    <3>1. CASE k = 0
      <4>1. tally["truncated"] \in Nat /\ Len(received) - Len(buffer) >= tally["truncated"]
            /\ Len(buffer) \in Nat
        BY DEF IInv, TypeOK, Shape, Categories
      <4>2. QED
        BY <1>1, <3>1, <4>1 DEF Scanned
    <3>2. CASE k # 0
      BY <1>4, <3>2, DeliveredFacts
    <3>3. QED
      BY <3>1, <3>2
  <2>3. PICK j \in 1 .. Len(delivered) :
          /\ delivered[j].at = k + 1
          /\ delivered[j].at + Len(delivered[j].bytes) - 1 = n
          /\ Printable(delivered[j].bytes)
    BY <1>4, <2>1, <2>2, MessageIsDelivered
  <2>4. Edge(n)
    BY <2>3
  <2>5. ASSUME NEW p \in 1 .. n PROVE InPrinted(p)
    <3>1. CASE p <= k
      BY <1>4, <2>1, <3>1
    <3>2. CASE k < p
      <4> DEFINE a == delivered[j].at
                 l == Len(delivered[j].bytes)
      <4>1. a = k + 1 /\ a + l - 1 = n /\ l \in Nat
        BY <2>3, DeliveredFacts
      <4>2. Covers(delivered[j], p) <=> a <= p /\ p < a + l
        BY DEF Covers
      <4> HIDE DEF a, l
      <4>3. a <= p /\ p < a + l
        BY <2>1, <3>2, <4>1
      <4>4. QED
        BY <2>3, <4>2, <4>3
    <3>3. QED
      BY <2>1, <3>1, <3>2
  <2>6. QED
    BY <2>4, <2>5
<1>5. ASSUME NEW n \in Nat, \A k \in Nat : k < n => k \in S
      PROVE  n \in S
  <2> HIDE DEF Shown
  <2>1. SUFFICES ASSUME n <= Len(received), f[n] PROVE Shown(n)
    BY Zenon
  <2>2. n \in 0 .. Len(received)
    BY <1>1, <2>1
  <2>3. CASE n = 0
    BY <2>3 DEF Shown
  <2>4. CASE n # 0
    <3>1. PICK k \in 0 .. (n - 1) : f[k] /\ MessageFrame(SubSeq(received, k + 1, n))
      BY <1>2, <2>1, <2>2, <2>4, Zenon
    <3>2. k \in Nat /\ k < n /\ k <= Len(received)
      BY <1>1, <2>1
    <3>3. k \in S
      BY <1>5, <3>2
    <3>4. Shown(k)
      BY <3>1, <3>2, <3>3, Zenon
    <3>5. QED
      BY <1>4, <2>1, <3>1, <3>4
  <2>5. QED
    BY <2>3, <2>4
<1>6. \A n \in Nat : n \in S
  <2> HIDE DEF S
  <2>1. QED
    BY <1>5, StrongSetInduction
<1>7. Shown(Len(received))
  <2> HIDE DEF Shown
  <2>1. Len(received) \in S /\ Len(received) <= Len(received)
    BY <1>1, <1>6
  <2>2. QED
    BY <1>3, <2>1, Zenon
<1>8. \A p \in 1 .. Len(received) : InPrinted(p)
  BY <1>7
<1>9. \A p \in 1 .. Len(received) : Covered(p)
  BY <1>8 DEF Covered
<1>10. delivered # <<>>
  <2>1. 1 \in 1 .. Len(received)
    BY <1>1, <1>3
  <2>2. QED
    BY <1>8, <2>1
<1>11. ASSUME NEW n \in 1 .. Len(delivered) PROVE Printable(delivered[n].bytes)
  <2> DEFINE a == delivered[n].at
             l == Len(delivered[n].bytes)
  <2>1. a \in Nat \ {0} /\ l \in Nat \ {0} /\ a + l - 1 <= Len(received)
    BY DeliveredFacts
  <2>2. Covers(delivered[n], a) <=> a <= a /\ a < a + l
    BY DEF Covers
  <2> HIDE DEF a, l
  <2>3. a \in 1 .. Len(received) /\ a <= a /\ a < a + l /\ a \in Nat
    BY <1>1, <2>1
  <2>4. PICK j \in 1 .. Len(delivered) :
          Covers(delivered[j], a) /\ Printable(delivered[j].bytes)
    BY <1>8, <2>3
  <2>5. j = n
    BY <2>2, <2>3, <2>4, CoveredOnce
  <2>6. QED
    BY <2>4, <2>5
<1>12. QED
  BY <1>9, <1>10, <1>11 DEF AllPrinted

(* The exit status is a fact about the file alone: 0 if and only if the    *)
(* file is one message after the other, for every geometry, codec and      *)
(* file, and never when a read failed.                                     *)
THEOREM StatusIsAboutTheFile == OfflineSpec => []ExitStatusExact
<1>1. IInv /\ Framed /\ Partial /\ Decision /\ CleanExit => ExitStatusExact
  <2> SUFFICES ASSUME IInv, Framed, Partial, Decision, CleanExit
               PROVE  ExitStatusExact
    OBVIOUS
  <2>1. exit = 0 => pc = "closed"
    BY DEF Decision
  <2>2. ASSUME pc = "closed" PROVE exit = 0 <=> IsRecording(received)
    <3>1. exit = 0 <=> AllPrinted
      BY <2>2 DEF CleanExit
    <3>2. AllPrinted => IsRecording(received)
      BY PrintedIsRecording
    <3>3. IsRecording(received) => AllPrinted
      BY <2>2, RecordingIsPrinted
    <3>4. QED
      BY <3>1, <3>2, <3>3
  <2>3. QED
    BY <2>1, <2>2 DEF ExitStatusExact
<1>2. QED
  BY <1>1, OfflineInvariance, WholeAndPartial, StatusSound, PTL
=============================================================================
