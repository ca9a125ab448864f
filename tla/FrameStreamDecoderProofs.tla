---------------------- MODULE FrameStreamDecoderProofs ----------------------
(***************************************************************************)
(* For every geometry, every decode() and every stream: the decoder stays  *)
(* inside its buffer and its output is exactly the left-to-right parse of  *)
(* the stream.                                                             *)
(***************************************************************************)
EXTENDS FrameStreamDecoder, SequenceTheorems, TLAPS

(* Between bytes the buffer holds no finished or impossible frame.         *)
Waiting == pc = "push" => ~OversizedAt(buffer, 1) /\ ~CompleteAt(buffer, 1)

(* Until something was rejected the buffer grows by one byte at a time and *)
(* never holds more than the frame it is collecting.                       *)
NoSurplus ==
  ~malformed /\ pc = "process" /\ HeaderAt(buffer, 1)
    => Len(buffer) <= FrameSize(buffer, 1)

Shape ==
  /\ pc = "closed" => buffer = <<>>
  /\ pc # "closed" => tally["truncated"] = 0
  /\ pc = "process" => Len(buffer) >= 2
  /\ Len(buffer) + tally["truncated"] <= Len(received)
  /\ \A i \in 1 .. Len(buffer) :
       buffer[i] = received[Len(received) - Len(buffer) + i]
  /\ Len(buffer) >= 1 => buffer[1] = sync_first
  /\ Len(buffer) >= 2 => buffer[2] = sync_second

(* The inductive invariant.                                                *)
IInv ==
  /\ TypeOK
  /\ Shape
  /\ NoOverrun
  /\ Waiting
  /\ NoSurplus
  /\ DeliveredSound
  /\ NothingLost
  /\ ByteAccounting
  /\ MalformedIffLoss

-----------------------------------------------------------------------------
(* Facts about the operators on byte sequences.                            *)

(* Drop removes exactly the first k bytes.                                 *)
LEMMA DropFacts ==
  ASSUME NEW s \in Seq(Byte), NEW k \in 0 .. Len(s)
  PROVE  /\ Drop(s, k) \in Seq(Byte)
         /\ Len(Drop(s, k)) = Len(s) - k
         /\ \A i \in 1 .. (Len(s) - k) : Drop(s, k)[i] = s[k + i]
  BY SubSeqProperties DEF Drop

(* The announced length of a complete header is a natural number.          *)
LEMMA LengthNat ==
  ASSUME NEW s \in Seq(Byte), NEW p \in 1 .. Len(s), HeaderAt(s, p)
  PROVE  LengthAt(s, p) \in Nat /\ FrameSize(s, p) \in Nat
                                /\ FrameSize(s, p) >= minimum_frame_size
<1>1. p + length_low \in 1 .. Len(s) /\ p + length_high \in 1 .. Len(s)
  BY GeometryAssumption DEF HeaderAt
<1>2. s[p + length_low] \in Byte /\ s[p + length_high] \in Byte
  BY <1>1, ElementOfSeq
<1>3. LengthAt(s, p) \in Nat
  BY <1>2, LengthAssumption DEF LengthAt
<1>4. QED
  BY <1>3, GeometryAssumption DEF FrameSize

(* What is known of a candidate stays true when s is seen as a part of a   *)
(* longer stream t: a header, an impossible length, a complete frame.      *)
LEMMA Embedding ==
  ASSUME NEW s \in Seq(Byte), NEW t \in Seq(Byte), NEW o \in Nat,
         o + Len(s) <= Len(t),
         \A i \in 1 .. Len(s) : s[i] = t[o + i],
         NEW p \in 1 .. Len(s), HeaderAt(s, p)
  PROVE  /\ HeaderAt(t, o + p)
         /\ LengthAt(t, o + p) = LengthAt(s, p)
         /\ FrameSize(t, o + p) = FrameSize(s, p)
         /\ OversizedAt(s, p) => OversizedAt(t, o + p)
         /\ CompleteAt(s, p) => /\ CompleteAt(t, o + p)
                                /\ CandidateAt(t, o + p) = CandidateAt(s, p)
<1>1. HeaderAt(t, o + p)
  BY GeometryAssumption DEF HeaderAt
<1>2. p + length_low \in 1 .. Len(s) /\ p + length_high \in 1 .. Len(s)
  BY GeometryAssumption DEF HeaderAt
<1>3. /\ s[p + length_low] = t[o + p + length_low]
      /\ s[p + length_high] = t[o + p + length_high]
  BY <1>2, GeometryAssumption
<1>4. LengthAt(t, o + p) = LengthAt(s, p)
  BY <1>3 DEF LengthAt
<1>5. FrameSize(t, o + p) = FrameSize(s, p)
  BY <1>4 DEF FrameSize
<1>6. OversizedAt(s, p) => OversizedAt(t, o + p)
  BY <1>1, <1>4 DEF OversizedAt
<1>7. ASSUME CompleteAt(s, p)
      PROVE  CompleteAt(t, o + p) /\ CandidateAt(t, o + p) = CandidateAt(s, p)
  <2> DEFINE n == FrameSize(s, p)
  <2>1. n \in Nat /\ p + n - 1 <= Len(s) /\ LengthAt(s, p) <= maximum_payload_size
    BY <1>7, LengthNat DEF CompleteAt
  <2>2. CompleteAt(t, o + p)
    BY <2>1, <1>1, <1>4, <1>5 DEF CompleteAt
  <2>3. \A i \in p .. (p + n - 1) : s[i] \in Byte
    BY <2>1, ElementOfSeq
  <2>4. \A i \in (o + p) .. (o + p + n - 1) : t[i] \in Byte
    BY <2>1, ElementOfSeq
  <2> HIDE DEF n
  <2>5. /\ SubSeq(s, p, p + n - 1) \in Seq(Byte)
        /\ Len(SubSeq(s, p, p + n - 1)) = n
        /\ \A i \in 1 .. n : SubSeq(s, p, p + n - 1)[i] = s[p + i - 1]
    BY <2>1, <2>3, SubSeqProperties
  <2>6. /\ SubSeq(t, o + p, o + p + n - 1) \in Seq(Byte)
        /\ Len(SubSeq(t, o + p, o + p + n - 1)) = n
        /\ \A i \in 1 .. n : SubSeq(t, o + p, o + p + n - 1)[i] = t[o + p + i - 1]
    BY <2>1, <2>4, SubSeqProperties
  <2>7. \A i \in 1 .. n : s[p + i - 1] = t[o + (p + i - 1)]
    BY <2>1
  <2>8. SubSeq(s, p, p + n - 1) = SubSeq(t, o + p, o + p + n - 1)
    BY <2>1, <2>5, <2>6, <2>7, SeqEqual
  <2>9. QED
    BY <2>2, <2>8, <1>5 DEF CandidateAt, n
<1>8. QED
  BY <1>1, <1>4, <1>5, <1>6, <1>7

(* One more byte at the end changes nothing before it.                     *)
LEMMA AppendFacts ==
  ASSUME NEW s \in Seq(Byte), NEW b \in Byte
  PROVE  /\ Append(s, b) \in Seq(Byte)
         /\ Len(Append(s, b)) = Len(s) + 1
         /\ \A i \in 1 .. Len(s) : Append(s, b)[i] = s[i]
         /\ Append(s, b)[Len(s) + 1] = b
  BY AppendProperties

(* A position where no frame can start stays one as the stream grows.      *)
LEMMA DeadStable ==
  ASSUME NEW s \in Seq(Byte), NEW t \in Seq(Byte), NEW o \in Nat,
         o + Len(s) <= Len(t),
         \A i \in 1 .. Len(s) : s[i] = t[o + i],
         NEW p \in 1 .. Len(s), Dead(s, p)
  PROVE  Dead(t, o + p)
<1>1. CASE s[p] # sync_first
  BY <1>1 DEF Dead
<1>2. CASE p + 1 <= Len(s) /\ s[p + 1] # sync_second
  <2>1. p + 1 \in 1 .. Len(s)
    BY <1>2
  <2>2. s[p + 1] = t[o + (p + 1)] /\ o + (p + 1) = (o + p) + 1
    BY <2>1
  <2>3. QED
    BY <1>2, <2>2 DEF Dead
<1>3. CASE OversizedAt(s, p)
  <2>1. HeaderAt(s, p)
    BY <1>3 DEF OversizedAt
  <2>2. QED
    BY <1>3, <2>1, Embedding DEF Dead
<1>4. CASE CompleteAt(s, p) /\ Decode(CandidateAt(s, p)) # "Ok"
  <2>1. HeaderAt(s, p)
    BY <1>4 DEF CompleteAt
  <2>2. CompleteAt(t, o + p) /\ CandidateAt(t, o + p) = CandidateAt(s, p)
    BY <1>4, <2>1, Embedding
  <2>3. QED
    BY <1>4, <2>2 DEF Dead
<1>5. QED
  BY <1>1, <1>2, <1>3, <1>4 DEF Dead

(* What rescan() and align_to_sync() skip starts no frame.                 *)
LEMMA SkippedIsDead ==
  ASSUME NEW s \in Seq(Byte), NEW j \in 0 .. (Len(s) - 1), ~ViableOffset(s, j)
  PROVE  Dead(s, j + 1)
<1>1. CASE j = Len(s) - 1
  BY <1>1 DEF ViableOffset, Dead
<1>2. CASE j < Len(s) - 1
  <2>1. s[j + 1] # sync_first \/ s[j + 1 + 1] # sync_second
    BY <1>2 DEF ViableOffset, SyncAt
  <2>2. QED
    BY <1>2, <2>1 DEF Dead
<1>3. QED
  BY <1>1, <1>2

(* What is kept after the first viable offset starts like a frame.         *)
LEMMA KeptIsAligned ==
  ASSUME NEW s \in Seq(Byte), NEW k \in 0 .. Len(s), ViableOffset(s, k)
  PROVE  /\ Len(Drop(s, k)) >= 1 => Drop(s, k)[1] = sync_first
         /\ Len(Drop(s, k)) >= 2 => Drop(s, k)[2] = sync_second
<1>1. /\ Len(Drop(s, k)) = Len(s) - k
      /\ \A i \in 1 .. (Len(s) - k) : Drop(s, k)[i] = s[k + i]
  BY DropFacts
<1>2. CASE k = Len(s)
  BY <1>1, <1>2
<1>3. CASE SyncAt(s, k + 1)
  <2>1. Len(s) - k >= 2 /\ s[k + 1] = sync_first /\ s[k + 2] = sync_second
    BY <1>3 DEF SyncAt
  <2>2. Drop(s, k)[1] = s[k + 1] /\ Drop(s, k)[2] = s[k + 2]
    BY <1>1, <2>1
  <2>3. QED
    BY <2>1, <2>2
<1>4. CASE k = Len(s) - 1 /\ s[Len(s)] = sync_first
  <2>1. Drop(s, k)[1] = s[k + 1] /\ Len(Drop(s, k)) = 1 /\ k + 1 = Len(s)
    BY <1>1, <1>4
  <2>2. QED
    BY <1>4, <2>1
<1>5. QED
  BY <1>2, <1>3, <1>4 DEF ViableOffset

(* A part of the stream is not changed by the bytes that follow.           *)
LEMMA PartStable ==
  ASSUME NEW s \in Seq(Byte), NEW t \in Seq(Byte), Len(s) <= Len(t),
         \A i \in 1 .. Len(s) : s[i] = t[i],
         NEW m \in Nat \ {0}, NEW n \in Int, n <= Len(s)
  PROVE  SubSeq(t, m, n) = SubSeq(s, m, n)
<1>1. CASE n < m
  BY <1>1, SubSeqEmpty
<1>2. CASE m <= n
  <2>1. \A i \in m .. n : s[i] \in Byte /\ t[i] \in Byte /\ s[i] = t[i]
    BY ElementOfSeq
  <2>2. /\ SubSeq(s, m, n) \in Seq(Byte)
        /\ Len(SubSeq(s, m, n)) = n - m + 1
        /\ \A i \in 1 .. (n - m + 1) : SubSeq(s, m, n)[i] = s[m + i - 1]
    BY <1>2, <2>1, SubSeqProperties
  <2>3. /\ SubSeq(t, m, n) \in Seq(Byte)
        /\ Len(SubSeq(t, m, n)) = n - m + 1
        /\ \A i \in 1 .. (n - m + 1) : SubSeq(t, m, n)[i] = t[m + i - 1]
    BY <1>2, <2>1, SubSeqProperties
  <2>4. \A i \in 1 .. (n - m + 1) : s[m + i - 1] = t[m + i - 1]
    BY <2>1
  <2>5. QED
    BY <2>2, <2>3, <2>4, SeqEqual
<1>3. QED
  BY <1>1, <1>2

-----------------------------------------------------------------------------
(* What every step has to show about the history variables.                *)

(* Scanned is a position of the stream.                                    *)
LEMMA ScannedType ==
  ASSUME TypeOK, Shape
  PROVE  /\ Scanned \in Nat
         /\ Scanned <= Len(received)
         /\ pc # "closed" => Scanned = Len(received) - Len(buffer)
  BY DEF TypeOK, Shape, Scanned, Categories

(* A step that delivers nothing and moves only past dead positions keeps   *)
(* the two statements about the output.                                    *)
LEMMA SkipKeepsHistory ==
  ASSUME TypeOK, Shape, DeliveredSound, NothingLost,
         received' \in Seq(Byte), Len(received) <= Len(received'),
         \A i \in 1 .. Len(received) : received[i] = received'[i],
         delivered' = delivered,
         Scanned' \in Nat, Scanned <= Scanned',
         \A p \in (Scanned + 1) .. Scanned' : Dead(received', p)
  PROVE  DeliveredSound' /\ NothingLost'
<1>1. Scanned \in Nat /\ Scanned <= Len(received)
  BY ScannedType
<1>2. received \in Seq(Byte) /\ delivered \in Seq([at : Nat \ {0}, bytes : Seq(Byte)])
  BY DEF TypeOK
<1>3. ASSUME NEW n \in 1 .. Len(delivered)
      PROVE  LET d == delivered[n] IN
               /\ d.bytes = SubSeq(received', d.at, d.at + Len(d.bytes) - 1)
               /\ Decode(d.bytes) = "Ok"
               /\ d.at + Len(d.bytes) - 1 <= Scanned'
  <2> DEFINE d == delivered[n]
  <2>1. d \in [at : Nat \ {0}, bytes : Seq(Byte)]
    BY <1>2, ElementOfSeq
  <2>2. d.at \in Nat \ {0} /\ d.bytes \in Seq(Byte) /\ Len(d.bytes) \in Nat
    BY <2>1
  <2>3. /\ d.bytes = SubSeq(received, d.at, d.at + Len(d.bytes) - 1)
        /\ Decode(d.bytes) = "Ok"
        /\ d.at + Len(d.bytes) - 1 <= Scanned
    BY DEF DeliveredSound
  <2> HIDE DEF d
  <2>4. d.at + Len(d.bytes) - 1 \in Int /\ d.at + Len(d.bytes) - 1 <= Len(received)
    BY SMTT(30), <1>1, <2>2, <2>3
  <2>5. SubSeq(received', d.at, d.at + Len(d.bytes) - 1)
          = SubSeq(received, d.at, d.at + Len(d.bytes) - 1)
    BY <1>2, <2>2, <2>4, PartStable
  <2>6. d.at + Len(d.bytes) - 1 <= Scanned'
    BY <1>1, <2>2, <2>3
  <2>7. QED
    BY <2>3, <2>5, <2>6 DEF d
<1>4. DeliveredSound'
  BY <1>3 DEF DeliveredSound
<1>5. ASSUME NEW p \in 1 .. Scanned' PROVE Covered(p)' \/ Dead(received', p)
  <2>1. CASE p <= Scanned
    <3>1. p \in 1 .. Scanned /\ p \in 1 .. Len(received)
      BY <1>1, <2>1
    <3>2. Covered(p) \/ Dead(received, p)
      BY <3>1 DEF NothingLost
    <3>3. CASE Covered(p)
      BY <3>3 DEF Covered
    <3>4. CASE Dead(received, p)
      <4>1. /\ 0 \in Nat
            /\ 0 + Len(received) <= Len(received')
            /\ \A i \in 1 .. Len(received) : received[i] = received'[0 + i]
        BY <1>2
      <4>2. Dead(received', 0 + p)
        BY <1>2, <3>1, <3>4, <4>1, DeadStable
      <4>3. QED
        BY <3>1, <4>2
    <3>5. QED
      BY <3>2, <3>3, <3>4
  <2>2. CASE p > Scanned
    BY <1>1, <2>2
  <2>3. QED
    BY <1>1, <2>1, <2>2
<1>6. QED
  BY <1>4, <1>5 DEF NothingLost

(* A position in a sequence of count + 1 events is an earlier one or the   *)
(* last.                                                                   *)
LEMMA EarlierOrLast ==
  \A count \in Nat : \A n \in 1 .. (count + 1) : n \in 1 .. count \/ n = count + 1
  OBVIOUS

(* A step that delivers the frame at the first undecided position and then *)
(* moves only past dead positions keeps them too.                          *)
LEMMA DeliveryKeepsHistory ==
  ASSUME TypeOK, Shape, DeliveredSound, NothingLost,
         received' = received,
         NEW f \in Seq(Byte), Decode(f) = "Ok",
         delivered' = Append(delivered, [at |-> Scanned + 1, bytes |-> f]),
         Scanned' \in Nat, Scanned + Len(f) <= Scanned',
         Scanned' <= Len(received),
         f = SubSeq(received, Scanned + 1, Scanned + Len(f)),
         \A p \in (Scanned + Len(f) + 1) .. Scanned' : Dead(received, p)
  PROVE  DeliveredSound' /\ NothingLost'
<1> DEFINE Event == [at : Nat \ {0}, bytes : Seq(Byte)]
           new == [at |-> Scanned + 1, bytes |-> f]
           N == Len(delivered)
<1>1. Scanned \in Nat /\ Scanned <= Len(received) /\ Len(f) \in Nat
  BY ScannedType
<1>2. delivered \in Seq(Event) /\ new \in Event
  BY <1>1 DEF TypeOK
<1> HIDE DEF Event
<1>3. /\ N \in Nat
      /\ Len(delivered') = N + 1
      /\ \A n \in 1 .. N : delivered'[n] = delivered[n]
      /\ delivered'[N + 1] = new
  BY <1>2, AppendProperties DEF new
<1>4. \A n \in 1 .. N : /\ delivered[n].at \in Nat
                        /\ Len(delivered[n].bytes) \in Nat
  <2>1. \A n \in 1 .. N : delivered[n] \in Event
    BY <1>2, ElementOfSeq
  <2>2. QED
    BY <2>1 DEF Event
<1>5. \A n \in 1 .. N :
        /\ delivered[n].bytes = SubSeq(received, delivered[n].at,
                                       delivered[n].at + Len(delivered[n].bytes) - 1)
        /\ Decode(delivered[n].bytes) = "Ok"
        /\ delivered[n].at + Len(delivered[n].bytes) - 1 <= Scanned
  BY DEF DeliveredSound
<1>6. new.at = Scanned + 1 /\ new.bytes = f
  BY DEF new
<1>7. \A n \in 1 .. (N + 1) :
        /\ delivered'[n].bytes = SubSeq(received', delivered'[n].at,
                                        delivered'[n].at + Len(delivered'[n].bytes) - 1)
        /\ Decode(delivered'[n].bytes) = "Ok"
        /\ delivered'[n].at + Len(delivered'[n].bytes) - 1 <= Scanned'
  <2> TAKE n \in 1 .. (N + 1)
  <2>1. N \in Nat
    BY <1>3
  <2>2. CASE n \in 1 .. N
    <3> DEFINE d == delivered[n]
    <3>1. delivered'[n] = d
      BY <1>3, <2>2
    <3>2. /\ d.at \in Nat /\ Len(d.bytes) \in Nat
          /\ d.bytes = SubSeq(received, d.at, d.at + Len(d.bytes) - 1)
          /\ Decode(d.bytes) = "Ok"
          /\ d.at + Len(d.bytes) - 1 <= Scanned
      BY <1>4, <1>5, <2>2
    <3> HIDE DEF d
    <3>3. Scanned <= Scanned'
      BY <1>1
    <3>4. d.at + Len(d.bytes) - 1 <= Scanned'
      <4> DEFINE last == d.at + Len(d.bytes) - 1
      <4>1. last \in Int /\ last <= Scanned
        BY <3>2
      <4> HIDE DEF last
      <4>2. last <= Scanned'
        BY <1>1, <3>3, <4>1
      <4>3. QED
        BY <4>2 DEF last
    <3>5. QED
      BY <3>1, <3>2, <3>4
  <2>3. CASE n = N + 1
    <3>1. Scanned + 1 + Len(f) - 1 = Scanned + Len(f)
      BY <1>1
    <3>2. QED
      BY <1>1, <1>3, <1>6, <2>3, <3>1
  <2>4. n \in 1 .. N \/ n = N + 1
    BY <2>1, EarlierOrLast
  <2>5. QED
    BY <2>2, <2>3, <2>4
<1>8. \A m, n \in 1 .. (N + 1) :
        m < n => delivered'[m].at + Len(delivered'[m].bytes) <= delivered'[n].at
  <2> TAKE m, n \in 1 .. (N + 1)
  <2> HAVE m < n
  <2>1. N \in Nat
    BY <1>3
  <2>2. m \in 1 .. N
    BY <1>3
  <2>3. CASE n \in 1 .. N
    BY <1>3, <2>2, <2>3 DEF DeliveredSound
  <2>4. CASE n = N + 1
    <3>1. delivered[m].at + Len(delivered[m].bytes) <= Scanned + 1
      <4> DEFINE first == delivered[m].at
                 size == Len(delivered[m].bytes)
      <4>1. first \in Nat /\ size \in Nat /\ first + size - 1 <= Scanned
        BY <1>4, <1>5, <2>2
      <4> HIDE DEF first, size
      <4>2. first + size <= Scanned + 1
        BY <1>1, <4>1
      <4>3. QED
        BY <4>2 DEF first, size
    <3>2. QED
      BY <1>3, <1>6, <2>2, <2>4, <3>1
  <2>5. n \in 1 .. N \/ n = N + 1
    BY <2>1, EarlierOrLast
  <2>6. QED
    BY <2>3, <2>4, <2>5
<1>9. DeliveredSound'
  BY <1>3, <1>7, <1>8 DEF DeliveredSound
<1>10. ASSUME NEW p \in 1 .. Scanned' PROVE Covered(p)' \/ Dead(received', p)
  <2>1. CASE p \in 1 .. Scanned
    BY <1>3, <2>1 DEF NothingLost, Covered
  <2>2. CASE p \in (Scanned + 1) .. (Scanned + Len(f))
    <3>1. Covers(delivered'[N + 1], p)
      BY <1>1, <1>3, <1>6, <2>2 DEF Covers
    <3>2. QED
      BY <1>3, <3>1 DEF Covered
  <2>3. CASE p \in (Scanned + Len(f) + 1) .. Scanned'
    BY <2>3
  <2>4. QED
    BY <1>1, <2>1, <2>2, <2>3
<1>11. QED
  BY <1>9, <1>10 DEF NothingLost

(* A step that takes n bytes out of the undelivered stream, counts them in *)
(* one category and reports them keeps the books.                          *)
LEMMA CountKeepsBooks ==
  ASSUME TypeOK, ByteAccounting, MalformedIffLoss,
         NEW c \in {"noise", "rejected", "truncated"}, NEW n \in Nat,
         tally' = Count(c, n),
         Len(received') \in Nat, Len(buffer') \in Nat,
         Len(received') - Len(buffer') = Len(received) - Len(buffer) + n,
         malformed' <=> (malformed \/ n > 0)
  PROVE  /\ tally' \in [Categories -> Nat]
         /\ tally'["truncated"] = tally["truncated"] + (IF c = "truncated" THEN n ELSE 0)
         /\ ByteAccounting'
         /\ MalformedIffLoss'
<1>1. /\ tally["framed"] \in Nat /\ tally["noise"] \in Nat
      /\ tally["rejected"] \in Nat /\ tally["truncated"] \in Nat
      /\ Len(received) \in Nat /\ Len(buffer) \in Nat
  BY DEF TypeOK, Categories
<1>2. tally' \in [Categories -> Nat]
  BY SMTT(30), <1>1 DEF TypeOK, Count, Categories
<1>3. /\ tally'["framed"] = tally["framed"]
      /\ tally'["noise"] = tally["noise"] + (IF c = "noise" THEN n ELSE 0)
      /\ tally'["rejected"] = tally["rejected"] + (IF c = "rejected" THEN n ELSE 0)
      /\ tally'["truncated"] = tally["truncated"] + (IF c = "truncated" THEN n ELSE 0)
  BY <1>1 DEF TypeOK, Count, Categories
<1>4. tally'["noise"] + tally'["rejected"] + tally'["truncated"]
        = tally["noise"] + tally["rejected"] + tally["truncated"] + n
  BY SMTT(30), <1>1, <1>3
<1>5. tally'["framed"] = tally["framed"]
  BY <1>3
<1>6. /\ tally'["noise"] \in Nat /\ tally'["rejected"] \in Nat
      /\ tally'["truncated"] \in Nat
  BY <1>2 DEF Categories
<1>7. ByteAccounting'
  <2>1. Len(received) - Len(buffer) + n
          = tally["framed"] + tally["noise"] + tally["rejected"] + tally["truncated"] + n
    BY <1>1 DEF ByteAccounting
  <2>2. tally'["framed"] + tally'["noise"] + tally'["rejected"] + tally'["truncated"]
          = tally["framed"] + tally["noise"] + tally["rejected"] + tally["truncated"] + n
    <3> DEFINE f == tally["framed"]  f1 == tally'["framed"]
               a == tally["noise"]   a1 == tally'["noise"]
               b == tally["rejected"]  b1 == tally'["rejected"]
               d == tally["truncated"] d1 == tally'["truncated"]
    <3>1. /\ f \in Nat /\ a \in Nat /\ b \in Nat /\ d \in Nat
          /\ f1 = f /\ a1 \in Nat /\ b1 \in Nat /\ d1 \in Nat
          /\ a1 + b1 + d1 = a + b + d + n
      BY <1>1, <1>4, <1>5, <1>6
    <3> HIDE DEF f, a, b, d, f1, a1, b1, d1
    <3>2. f1 + a1 + b1 + d1 = f + a + b + d + n
      BY <3>1
    <3>3. QED
      BY <3>2 DEF f, a, b, d, f1, a1, b1, d1
  <2>3. Len(received') - Len(buffer')
          = tally'["framed"] + tally'["noise"] + tally'["rejected"] + tally'["truncated"]
    BY <2>1, <2>2
  <2>4. QED
    BY <2>3 DEF ByteAccounting
<1>8. MalformedIffLoss'
  <2>1. (tally["noise"] + tally["rejected"] + tally["truncated"] > 0)'
          <=> \/ tally["noise"] + tally["rejected"] + tally["truncated"] > 0
              \/ n > 0
    BY SMTT(30), <1>1, <1>4
  <2>2. QED
    BY <2>1 DEF MalformedIffLoss
<1>9. QED
  BY <1>2, <1>3, <1>7, <1>8

-----------------------------------------------------------------------------
(* The invariant holds initially and is kept by every action.              *)

(* The empty decoder satisfies the invariant.                              *)
LEMMA InitIInv == Init => IInv
<1> SUFFICES ASSUME Init PROVE IInv
  OBVIOUS
<1>1. /\ Len(buffer) = 0 /\ Len(received) = 0 /\ Len(delivered) = 0
      /\ tally \in [Categories -> Nat]
      /\ tally["framed"] = 0 /\ tally["noise"] = 0
      /\ tally["rejected"] = 0 /\ tally["truncated"] = 0
  BY EmptySeq DEF Init, Categories
<1>2. TypeOK
  BY <1>1, EmptySeq DEF Init, TypeOK
<1>3. Shape
  BY <1>1 DEF Init, Shape
<1>4. NoOverrun
  BY <1>1, GeometryAssumption DEF NoOverrun, maximum_frame_size
<1>5. Waiting /\ NoSurplus
  BY <1>1, GeometryAssumption
  DEF Init, Waiting, NoSurplus, OversizedAt, CompleteAt, HeaderAt
<1>6. DeliveredSound /\ NothingLost
  BY <1>1 DEF DeliveredSound, NothingLost, Scanned
<1>7. ByteAccounting /\ MalformedIffLoss
  BY <1>1 DEF Init, ByteAccounting, MalformedIffLoss
<1>8. QED
  BY <1>2, <1>3, <1>4, <1>5, <1>6, <1>7 DEF IInv

(* Hunting for the first sync byte keeps the invariant.                    *)
LEMMA HuntFirstIInv ==
  ASSUME IInv, NEW byte \in Byte, HuntFirst(byte)
  PROVE  IInv'
<1>1. /\ TypeOK /\ Shape /\ DeliveredSound /\ NothingLost
      /\ ByteAccounting /\ MalformedIffLoss
      /\ pc = "push" /\ Len(buffer) = 0 /\ buffer = <<>>
  BY EmptySeq DEF IInv, HuntFirst, Receive, TypeOK
<1>2. /\ received \in Seq(Byte) /\ received' \in Seq(Byte)
      /\ Len(received') = Len(received) + 1
      /\ \A i \in 1 .. Len(received) : received'[i] = received[i]
      /\ received'[Len(received) + 1] = byte
  BY <1>1, AppendFacts DEF TypeOK, HuntFirst, Receive
<1>3. /\ tally["framed"] \in Nat /\ tally["noise"] \in Nat
      /\ tally["rejected"] \in Nat /\ tally["truncated"] = 0
  BY <1>1 DEF TypeOK, Shape, Categories
<1>4. CASE byte = sync_first
  <2>1. /\ buffer' = <<byte>> /\ tally' = tally /\ malformed' = malformed
        /\ pc' = pc /\ delivered' = delivered
    BY <1>4 DEF HuntFirst
  <2>2. buffer' \in Seq(Byte) /\ Len(buffer') = 1 /\ buffer'[1] = byte
    BY <2>1
  <2>3. TypeOK'
    BY <1>1, <1>2, <2>1, <2>2 DEF TypeOK
  <2>4. Shape'
    BY <1>1, <1>2, <1>3, <1>4, <2>1, <2>2 DEF Shape
  <2>5. NoOverrun' /\ Waiting' /\ NoSurplus'
    BY <1>1, <2>1, <2>2, GeometryAssumption
    DEF NoOverrun, Waiting, NoSurplus, maximum_frame_size, OversizedAt,
        CompleteAt, HeaderAt
  <2>6. Scanned' = Scanned /\ Scanned \in Nat
    BY <1>1, <1>2, <1>3, <2>1, <2>2 DEF Scanned
  <2>7. DeliveredSound' /\ NothingLost'
    BY <1>1, <1>2, <2>1, <2>6, SkipKeepsHistory
  <2>8. ByteAccounting'
    BY <1>1, <1>2, <1>3, <2>1, <2>2 DEF ByteAccounting
  <2>9. MalformedIffLoss'
    BY <1>1, <2>1 DEF MalformedIffLoss
  <2>10. QED
    BY <2>3, <2>4, <2>5, <2>7, <2>8, <2>9 DEF IInv
<1>5. CASE byte # sync_first
  <2>1. /\ buffer' = buffer /\ tally' = Count("noise", 1) /\ malformed' = TRUE
        /\ pc' = pc /\ delivered' = delivered
    BY <1>5 DEF HuntFirst
  <2>2. /\ tally' \in [Categories -> Nat]
        /\ tally'["truncated"] = tally["truncated"] + 0
        /\ ByteAccounting' /\ MalformedIffLoss'
    BY <1>1, <1>2, <2>1, CountKeepsBooks
  <2>3. TypeOK'
    BY <1>1, <1>2, <2>1, <2>2 DEF TypeOK
  <2>4. Shape'
    BY <1>1, <1>2, <1>3, <2>1, <2>2 DEF Shape
  <2>5. NoOverrun' /\ Waiting' /\ NoSurplus'
    BY <1>1, <2>1, GeometryAssumption
    DEF NoOverrun, Waiting, NoSurplus, maximum_frame_size, OversizedAt,
        CompleteAt, HeaderAt
  <2>6. Scanned' = Scanned + 1 /\ Scanned = Len(received)
    BY <1>1, <1>2, <1>3, <2>1, <2>2 DEF Scanned
  <2>7. Dead(received', Scanned + 1)
    BY <1>2, <1>5, <2>6 DEF Dead
  <2>8. DeliveredSound' /\ NothingLost'
    <3>1. \A p \in (Scanned + 1) .. Scanned' : Dead(received', p)
      BY <1>2, <2>6, <2>7
    <3>2. Scanned' \in Nat /\ Scanned <= Scanned'
      BY <1>2, <2>6
    <3>3. QED
      BY <1>1, <1>2, <2>1, <3>1, <3>2, SkipKeepsHistory
  <2>9. QED
    BY <2>2, <2>3, <2>4, <2>5, <2>8 DEF IInv
<1>6. QED
  BY <1>4, <1>5

(* Completing, restarting or giving up the sync pair keeps it.             *)
LEMMA HuntSecondIInv ==
  ASSUME IInv, NEW byte \in Byte, HuntSecond(byte)
  PROVE  IInv'
<1>1. /\ TypeOK /\ Shape /\ DeliveredSound /\ NothingLost
      /\ ByteAccounting /\ MalformedIffLoss
      /\ pc = "push" /\ Len(buffer) = 1
      /\ pc' = pc /\ delivered' = delivered
  BY DEF IInv, HuntSecond, Receive
<1>2. /\ received \in Seq(Byte) /\ received' \in Seq(Byte)
      /\ Len(received') = Len(received) + 1
      /\ \A i \in 1 .. Len(received) : received'[i] = received[i]
      /\ received'[Len(received) + 1] = byte
  BY <1>1, AppendFacts DEF TypeOK, HuntSecond, Receive
<1>3. /\ tally["truncated"] = 0
      /\ Len(received) >= 1
      /\ buffer[1] = received[Len(received)]
      /\ buffer[1] = sync_first
      /\ Scanned = Len(received) - 1
      /\ Len(received) \in Nat /\ buffer \in Seq(Byte)
  BY <1>1, <1>2 DEF Shape, Scanned, TypeOK
<1>4. CASE byte = sync_second
  <2>1. buffer' = Append(buffer, byte) /\ tally' = tally /\ malformed' = malformed
    BY <1>4, SyncAssumption DEF HuntSecond
  <2>2. /\ buffer' \in Seq(Byte) /\ Len(buffer') = 2
        /\ buffer'[1] = buffer[1] /\ buffer'[2] = byte
    <3>1. /\ buffer' \in Seq(Byte)
          /\ Len(buffer') = Len(buffer) + 1
          /\ \A i \in 1 .. Len(buffer) : buffer'[i] = buffer[i]
          /\ buffer'[Len(buffer) + 1] = byte
      BY <1>3, <2>1, AppendFacts
    <3>2. QED
      BY <1>1, <3>1
  <2>3. TypeOK'
    BY <1>1, <1>2, <2>1, <2>2 DEF TypeOK
  <2>4. Shape'
    <3>1. ASSUME NEW i \in 1 .. Len(buffer')
          PROVE  buffer'[i] = received'[Len(received') - Len(buffer') + i]
      <4>1. i = 1 \/ i = 2
        BY <2>2
      <4>2. received'[Len(received)] = received[Len(received)]
        <5>1. Len(received) \in 1 .. Len(received)
          BY <1>3
        <5>2. QED
          BY <1>2, <5>1
      <4>3. Len(received') - Len(buffer') + i = Len(received) - 1 + i
        BY <1>2, <1>3, <2>2
      <4>4. QED
        BY <1>2, <1>3, <2>2, <4>1, <4>2, <4>3
    <3>2. QED
      BY <1>1, <1>2, <1>3, <1>4, <2>1, <2>2, <3>1 DEF Shape
  <2>5. NoOverrun' /\ Waiting' /\ NoSurplus'
    BY <1>1, <2>1, <2>2, GeometryAssumption
    DEF NoOverrun, Waiting, NoSurplus, maximum_frame_size, OversizedAt,
        CompleteAt, HeaderAt
  <2>6. Scanned' = Scanned /\ Scanned \in Nat
    BY <1>1, <1>2, <1>3, <2>1, <2>2 DEF Scanned
  <2>7. DeliveredSound' /\ NothingLost'
    BY <1>1, <1>2, <2>6, SkipKeepsHistory
  <2>8. ByteAccounting'
    <3>1. Len(received') - Len(buffer') = Len(received) - Len(buffer)
      BY <1>1, <1>2, <1>3, <2>2
    <3>2. QED
      BY <1>1, <2>1, <3>1 DEF ByteAccounting
  <2>9. MalformedIffLoss'
    BY <1>1, <2>1 DEF MalformedIffLoss
  <2>10. QED
    BY <2>3, <2>4, <2>5, <2>7, <2>8, <2>9 DEF IInv
<1>5. CASE byte = sync_first
  <2>1. buffer' = buffer /\ tally' = Count("noise", 1) /\ malformed' = TRUE
    BY <1>5, SyncAssumption DEF HuntSecond
  <2>2. /\ tally' \in [Categories -> Nat]
        /\ tally'["truncated"] = tally["truncated"] + 0
        /\ ByteAccounting' /\ MalformedIffLoss'
    <3>1. Len(received') \in Nat /\ Len(buffer') = Len(buffer)
      BY <1>2, <2>1
    <3>2. Len(received') - Len(buffer') = Len(received) - Len(buffer) + 1
      BY <1>1, <1>2, <1>3, <3>1
    <3>3. malformed' <=> (malformed \/ 1 > 0)
      BY <2>1
    <3>4. QED
      BY <1>1, <2>1, <3>1, <3>2, <3>3, CountKeepsBooks
  <2>3. TypeOK'
    BY <1>1, <1>2, <2>1, <2>2 DEF TypeOK
  <2>4. Shape'
    <3>1. ASSUME NEW i \in 1 .. Len(buffer')
          PROVE  buffer'[i] = received'[Len(received') - Len(buffer') + i]
      <4>1. Len(buffer') = 1
        BY <1>1, <2>1
      <4>2. i = 1 /\ Len(received') - Len(buffer') + i = Len(received) + 1
        BY <1>2, <1>3, <4>1
      <4>3. QED
        BY <1>2, <1>3, <1>5, <2>1, <4>2
    <3>2. tally'["truncated"] = 0 /\ Len(buffer') = 1
      BY <1>1, <1>3, <2>1, <2>2
    <3>3. buffer'[1] = sync_first
      BY <1>3, <2>1
    <3>4. pc' = "push" /\ 1 + 0 <= Len(received')
      BY <1>1, <1>2, <1>3
    <3>5. QED
      BY <3>1, <3>2, <3>3, <3>4 DEF Shape
  <2>5. NoOverrun' /\ Waiting' /\ NoSurplus'
    BY <1>1, <2>1, GeometryAssumption
    DEF NoOverrun, Waiting, NoSurplus, maximum_frame_size, OversizedAt,
        CompleteAt, HeaderAt
  <2>6. Scanned' = Scanned + 1 /\ Scanned' = Len(received)
    <3>1. tally'["truncated"] = 0 /\ Len(buffer') = 1
      BY <1>1, <1>3, <2>1, <2>2
    <3>2. QED
      BY <1>2, <1>3, <3>1 DEF Scanned
  <2>7. Dead(received', Len(received))
    BY <1>2, <1>3, <1>5, SyncAssumption DEF Dead
  <2>8. DeliveredSound' /\ NothingLost'
    <3>1. \A p \in (Scanned + 1) .. Scanned' : Dead(received', p)
      BY <1>2, <1>3, <2>6, <2>7
    <3>2. Scanned' \in Nat /\ Scanned <= Scanned'
      BY <1>2, <1>3, <2>6
    <3>3. QED
      BY <1>1, <1>2, <3>1, <3>2, SkipKeepsHistory
  <2>9. QED
    BY <2>2, <2>3, <2>4, <2>5, <2>8 DEF IInv
<1>6. CASE byte \notin {sync_first, sync_second}
  <2>1. buffer' = <<>> /\ tally' = Count("noise", 2) /\ malformed' = TRUE
    BY <1>6 DEF HuntSecond
  <2>2. buffer' \in Seq(Byte) /\ Len(buffer') = 0
    BY <2>1, EmptySeq
  <2>3. /\ tally' \in [Categories -> Nat]
        /\ tally'["truncated"] = tally["truncated"] + 0
        /\ ByteAccounting' /\ MalformedIffLoss'
    BY <1>1, <1>2, <2>1, <2>2, CountKeepsBooks
  <2>4. TypeOK'
    BY <1>1, <1>2, <2>1, <2>2, <2>3 DEF TypeOK
  <2>5. Shape'
    BY <1>1, <1>2, <1>3, <2>1, <2>2, <2>3 DEF Shape
  <2>6. NoOverrun' /\ Waiting' /\ NoSurplus'
    BY <1>1, <2>2, GeometryAssumption
    DEF NoOverrun, Waiting, NoSurplus, maximum_frame_size, OversizedAt,
        CompleteAt, HeaderAt
  <2>7. Scanned' = Len(received) + 1
    BY <1>1, <1>2, <1>3, <2>2, <2>3 DEF Scanned
  <2>8. Dead(received', Len(received)) /\ Dead(received', Len(received) + 1)
    BY <1>2, <1>3, <1>6 DEF Dead
  <2>9. DeliveredSound' /\ NothingLost'
    <3>1. \A p \in (Scanned + 1) .. Scanned' : Dead(received', p)
      BY <1>2, <1>3, <2>7, <2>8
    <3>2. Scanned' \in Nat /\ Scanned <= Scanned'
      BY <1>2, <1>3, <2>7
    <3>3. QED
      BY <1>1, <1>2, <3>1, <3>2, SkipKeepsHistory
  <2>10. QED
    BY <2>3, <2>4, <2>5, <2>6, <2>9 DEF IInv
<1>7. QED
  BY <1>4, <1>5, <1>6

(* There is room for one more byte, and storing it keeps the invariant.    *)
LEMMA StoreIInv ==
  ASSUME IInv, NEW byte \in Byte, Store(byte)
  PROVE  IInv'
<1>1. /\ TypeOK /\ Shape /\ DeliveredSound /\ NothingLost
      /\ ByteAccounting /\ MalformedIffLoss /\ NoOverrun /\ Waiting
      /\ pc = "push" /\ Len(buffer) >= 2
      /\ pc' = "process" /\ delivered' = delivered
      /\ tally' = tally /\ malformed' = malformed
  BY DEF IInv, Store, Receive
<1>2. /\ received \in Seq(Byte) /\ received' \in Seq(Byte)
      /\ Len(received') = Len(received) + 1
      /\ \A i \in 1 .. Len(received) : received'[i] = received[i]
      /\ received'[Len(received) + 1] = byte
  BY <1>1, AppendFacts DEF TypeOK, Store, Receive
<1>3. /\ buffer \in Seq(Byte) /\ buffer' \in Seq(Byte)
      /\ Len(buffer') = Len(buffer) + 1
      /\ \A i \in 1 .. Len(buffer) : buffer'[i] = buffer[i]
      /\ buffer'[Len(buffer) + 1] = byte
  BY <1>1, AppendFacts DEF TypeOK, Store
<1>4. /\ Len(received) \in Nat /\ Len(buffer) \in Nat
      /\ Len(buffer) <= Len(received)
      /\ tally["truncated"] = 0
      /\ \A i \in 1 .. Len(buffer) :
           buffer[i] = received[Len(received) - Len(buffer) + i]
      /\ buffer[1] = sync_first /\ buffer[2] = sync_second
  BY <1>1, <1>2, <1>3 DEF Shape
<1>5. TypeOK'
  BY <1>1, <1>2, <1>3 DEF TypeOK
<1>6. Shape'
  <2>1. ASSUME NEW i \in 1 .. (Len(buffer) + 1)
        PROVE  buffer'[i] = received'[Len(received) - Len(buffer) + i]
    <3>1. CASE i \in 1 .. Len(buffer)
      <4>1. Len(received) - Len(buffer) + i \in 1 .. Len(received)
        BY <1>4, <3>1
      <4>2. QED
        BY <1>2, <1>3, <1>4, <3>1, <4>1
    <3>2. CASE i = Len(buffer) + 1
      <4>1. Len(received) - Len(buffer) + i = Len(received) + 1
        BY <1>4, <3>2
      <4>2. QED
        BY <1>2, <1>3, <3>2, <4>1
    <3>3. QED
      BY <1>4, <3>1, <3>2
  <2>2. Len(received') - Len(buffer') = Len(received) - Len(buffer)
    BY <1>2, <1>3, <1>4
  <2>3. \A i \in 1 .. Len(buffer') :
          buffer'[i] = received'[Len(received') - Len(buffer') + i]
    BY <1>3, <2>1, <2>2
  <2>4. buffer'[1] = sync_first /\ buffer'[2] = sync_second
    BY <1>1, <1>3, <1>4
  <2>5. tally'["truncated"] = 0 /\ Len(buffer') + 0 <= Len(received') /\ Len(buffer') >= 2
    BY <1>1, <1>2, <1>3, <1>4
  <2>6. QED
    BY <1>1, <2>3, <2>4, <2>5 DEF Shape
<1>7. NoOverrun'
  BY <1>1, <1>3, <1>4, GeometryAssumption DEF NoOverrun, maximum_frame_size
<1>8. Waiting'
  BY <1>1 DEF Waiting
<1>9. NoSurplus'
  <2> SUFFICES ASSUME HeaderAt(buffer', 1)
               PROVE  Len(buffer') <= FrameSize(buffer', 1)
    BY DEF NoSurplus
  <2>1. FrameSize(buffer', 1) \in Nat /\ FrameSize(buffer', 1) >= minimum_frame_size
    BY <1>3, <1>4, LengthNat
  <2>2. CASE HeaderAt(buffer, 1)
    <3>1. ~OversizedAt(buffer, 1) /\ ~CompleteAt(buffer, 1)
      BY <1>1 DEF Waiting
    <3>2. FrameSize(buffer, 1) \in Nat /\ LengthAt(buffer, 1) \in Nat
      BY <1>1, <1>3, <1>4, <2>2, LengthNat
    <3>3. Len(buffer) < FrameSize(buffer, 1)
      BY <1>4, <2>2, <3>1, <3>2, GeometryAssumption DEF OversizedAt, CompleteAt
    <3>4. FrameSize(buffer', 0 + 1) = FrameSize(buffer, 1)
      <4>1. /\ 0 \in Nat /\ 0 + Len(buffer) <= Len(buffer') /\ 1 \in 1 .. Len(buffer)
            /\ \A i \in 1 .. Len(buffer) : buffer[i] = buffer'[0 + i]
        BY <1>1, <1>3, <1>4
      <4>2. QED
        BY <1>3, <2>2, <4>1, Embedding
    <3>5. QED
      BY <1>3, <1>4, <3>2, <3>3, <3>4
  <2>3. CASE ~HeaderAt(buffer, 1)
    BY <1>3, <1>4, <2>1, <2>3, GeometryAssumption DEF HeaderAt
  <2>4. QED
    BY <2>2, <2>3
<1>10. DeliveredSound' /\ NothingLost'
  <2>1. Scanned' = Scanned /\ Scanned \in Nat
    BY <1>1, <1>2, <1>3, <1>4 DEF Scanned
  <2>2. QED
    BY <1>1, <1>2, <2>1, SkipKeepsHistory
<1>11. ByteAccounting'
  <2>1. Len(received') - Len(buffer') = Len(received) - Len(buffer)
    BY <1>2, <1>3, <1>4
  <2>2. QED
    BY <1>1, <2>1 DEF ByteAccounting
<1>12. MalformedIffLoss'
  BY <1>1 DEF MalformedIffLoss
<1>13. QED
  BY <1>5, <1>6, <1>7, <1>8, <1>9, <1>10, <1>11, <1>12 DEF IInv

(* Returning to wait for bytes keeps it: nothing finished is left behind.  *)
LEMMA AwaitMoreIInv ==
  ASSUME IInv, AwaitMore
  PROVE  IInv'
<1>1. /\ TypeOK /\ Shape /\ pc = "process" /\ pc' = "push"
      /\ buffer' = buffer /\ received' = received /\ delivered' = delivered
      /\ tally' = tally /\ malformed' = malformed
      /\ ~OversizedAt(buffer, 1) /\ ~CompleteAt(buffer, 1)
  BY DEF IInv, AwaitMore
<1>2. buffer \in Seq(Byte) /\ Len(buffer) \in Nat /\ Len(buffer) >= 2
  BY <1>1 DEF TypeOK, Shape
<1>3. Len(buffer) < maximum_frame_size
  <2>1. CASE HeaderAt(buffer, 1)
    <3>1. FrameSize(buffer, 1) \in Nat /\ LengthAt(buffer, 1) \in Nat
      BY <1>2, <2>1, LengthNat
    <3>2. LengthAt(buffer, 1) <= maximum_payload_size
      BY <1>1, <2>1, <3>1, GeometryAssumption DEF OversizedAt
    <3>3. Len(buffer) < FrameSize(buffer, 1)
      BY <1>1, <1>2, <2>1, <3>1, <3>2 DEF CompleteAt
    <3>4. QED
      BY <1>2, <3>1, <3>2, <3>3, GeometryAssumption DEF FrameSize, maximum_frame_size
  <2>2. CASE ~HeaderAt(buffer, 1)
    BY <1>2, <2>2, GeometryAssumption DEF HeaderAt, maximum_frame_size
  <2>3. QED
    BY <2>1, <2>2
<1>4. TypeOK'
  BY <1>1 DEF TypeOK
<1>5. Shape'
  BY <1>1 DEF Shape
<1>6. NoOverrun'
  <2>1. Len(buffer') < maximum_frame_size /\ Len(buffer') <= maximum_frame_size
    BY <1>1, <1>2, <1>3, GeometryAssumption DEF maximum_frame_size
  <2>2. QED
    BY <2>1 DEF NoOverrun, maximum_frame_size
<1>7. Waiting' /\ NoSurplus'
  <2>1. ~OversizedAt(buffer', 1) /\ ~CompleteAt(buffer', 1)
    BY <1>1
  <2>2. QED
    BY <1>1, <2>1 DEF Waiting, NoSurplus
<1>8. DeliveredSound' /\ NothingLost'
  BY <1>1 DEF IInv, DeliveredSound, NothingLost, Scanned, Covered
<1>9. ByteAccounting' /\ MalformedIffLoss'
  BY <1>1 DEF IInv, ByteAccounting, MalformedIffLoss
<1>10. QED
  BY <1>4, <1>5, <1>6, <1>7, <1>8, <1>9 DEF IInv

(* The end of the stream keeps it: the partial frame is counted.           *)
LEMMA FinishIInv ==
  ASSUME IInv, Finish
  PROVE  IInv'
<1>1. /\ TypeOK /\ Shape /\ DeliveredSound /\ NothingLost
      /\ ByteAccounting /\ MalformedIffLoss
      /\ pc' = "closed" /\ buffer' = <<>>
      /\ tally' = Count("truncated", Len(buffer))
      /\ malformed' = (malformed \/ Len(buffer) > 0)
      /\ received' = received /\ delivered' = delivered
  BY DEF IInv, Finish
<1>2. /\ received \in Seq(Byte) /\ Len(received) \in Nat
      /\ Len(buffer) \in Nat /\ tally["truncated"] \in Nat
      /\ Len(buffer) + tally["truncated"] <= Len(received)
  BY <1>1 DEF TypeOK, Shape, Categories
<1>3. buffer' \in Seq(Byte) /\ Len(buffer') = 0
  BY <1>1, EmptySeq
<1>4. /\ tally' \in [Categories -> Nat]
      /\ tally'["truncated"] = tally["truncated"] + Len(buffer)
      /\ ByteAccounting' /\ MalformedIffLoss'
  <2>1. Len(received') \in Nat /\ Len(buffer') \in Nat
    BY <1>1, <1>2, <1>3
  <2>2. Len(received') - Len(buffer') = Len(received) - Len(buffer) + Len(buffer)
    BY <1>1, <1>2, <1>3
  <2>3. malformed' <=> (malformed \/ Len(buffer) > 0)
    BY <1>1
  <2>4. QED
    BY <1>1, <1>2, <2>1, <2>2, <2>3, CountKeepsBooks
<1>5. TypeOK'
  <2>1. malformed' \in BOOLEAN
    BY <1>1
  <2>2. QED
    BY <1>1, <1>3, <1>4, <2>1 DEF TypeOK
<1>6. Shape'
  <2>1. tally'["truncated"] <= Len(received')
    BY <1>1, <1>2, <1>4
  <2>2. tally'["truncated"] \in Nat
    BY <1>2, <1>4
  <2>3. QED
    BY <1>1, <1>3, <2>1, <2>2 DEF Shape
<1>7. NoOverrun' /\ Waiting' /\ NoSurplus'
  BY <1>1, <1>3, GeometryAssumption DEF NoOverrun, Waiting, NoSurplus, maximum_frame_size
<1>8. DeliveredSound' /\ NothingLost'
  <2>1. Scanned' = Scanned /\ Scanned \in Nat
    <3>1. tally'["truncated"] = tally["truncated"] + Len(buffer)
      BY <1>4
    <3>2. Len(received') = Len(received)
      BY <1>1
    <3>3. QED
      BY <1>2, <1>3, <3>1, <3>2 DEF Scanned
  <2>2. received' \in Seq(Byte) /\ Len(received) <= Len(received')
    BY <1>1, <1>2
  <2>3. QED
    BY <1>1, <2>1, <2>2, SkipKeepsHistory
<1>9. QED
  BY <1>4, <1>5, <1>6, <1>7, <1>8 DEF IInv

(* rescan() and align_to_sync() move past positions of the stream at which *)
(* no frame starts; s is the unread end of the stream t.                   *)
LEMMA SkippedOfStream ==
  ASSUME NEW s \in Seq(Byte), NEW t \in Seq(Byte), NEW o \in Nat,
         o + Len(s) = Len(t),
         \A i \in 1 .. Len(s) : s[i] = t[o + i],
         NEW from \in Nat, NEW k \in Nat, IsFirstViable(s, from, k)
  PROVE  \A p \in (o + from + 1) .. (o + k) : Dead(t, p)
<1> TAKE p \in (o + from + 1) .. (o + k)
<1> DEFINE j == p - o - 1
<1>1. k <= Len(s) /\ \A i \in from .. (k - 1) : ~ViableOffset(s, i)
  BY DEF IsFirstViable
<1>2. j \in from .. (k - 1) /\ j \in 0 .. (Len(s) - 1) /\ p = o + (j + 1)
  BY <1>1
<1> HIDE DEF j
<1>3. Dead(s, j + 1)
  BY <1>1, <1>2, SkippedIsDead
<1>4. j + 1 \in 1 .. Len(s) /\ o + Len(s) <= Len(t)
  BY <1>2
<1>5. Dead(t, o + (j + 1))
  BY <1>3, <1>4, DeadStable
<1>6. QED
  BY <1>2, <1>5

(* Dropping m >= 1 bytes at the front of the buffer, down to a place where *)
(* a frame could start, keeps the shape of the buffer.                     *)
LEMMA DropKeepsShape ==
  ASSUME TypeOK, Shape, NoOverrun, pc = "process",
         received' = received,
         NEW m \in 1 .. Len(buffer),
         buffer' \in Seq(Byte), Len(buffer') = Len(buffer) - m,
         \A i \in 1 .. (Len(buffer) - m) : buffer'[i] = buffer[m + i],
         Len(buffer') >= 1 => buffer'[1] = sync_first,
         Len(buffer') >= 2 => buffer'[2] = sync_second,
         pc' = LoopOrReturn(buffer'),
         tally'["truncated"] = tally["truncated"]
  PROVE  Shape' /\ NoOverrun' /\ Waiting' /\ Scanned' = Scanned + m
<1>1. /\ Len(received) \in Nat /\ Len(buffer) \in Nat
      /\ Len(buffer) <= Len(received)
      /\ tally["truncated"] = 0
      /\ \A i \in 1 .. Len(buffer) :
           buffer[i] = received[Len(received) - Len(buffer) + i]
  BY DEF TypeOK, Shape
<1>2. pc' \in {"push", "process"} /\ (pc' = "process" => Len(buffer') >= header_size)
  BY <1>1, GeometryAssumption DEF LoopOrReturn
<1>3. Shape'
  <2>1. ASSUME NEW i \in 1 .. (Len(buffer) - m)
        PROVE  buffer'[i] = received[Len(received) - (Len(buffer) - m) + i]
    <3>1. m + i \in 1 .. Len(buffer)
      BY <1>1
    <3>2. Len(received) - Len(buffer) + (m + i)
            = Len(received) - (Len(buffer) - m) + i
      BY <1>1
    <3>3. QED
      BY <1>1, <3>1, <3>2
  <2>2. \A i \in 1 .. Len(buffer') :
          buffer'[i] = received'[Len(received') - Len(buffer') + i]
    BY <2>1
  <2>3. pc' = "process" => Len(buffer') >= 2
    BY <1>1, <1>2, GeometryAssumption
  <2>4. tally'["truncated"] = 0
    BY <1>1
  <2>5. Len(buffer') + 0 <= Len(received')
    BY <1>1
  <2>6. QED
    BY <1>2, <2>2, <2>3, <2>4, <2>5 DEF Shape
<1>4. NoOverrun'
  <2>1. Len(buffer) <= maximum_frame_size
    BY DEF NoOverrun
  <2>2. Len(buffer') < maximum_frame_size /\ Len(buffer') <= maximum_frame_size
    BY <1>1, <2>1, GeometryAssumption DEF maximum_frame_size
  <2>3. QED
    BY <2>2 DEF NoOverrun, maximum_frame_size
<1>5. Waiting'
  <2> SUFFICES ASSUME pc' = "push"
               PROVE  ~OversizedAt(buffer', 1) /\ ~CompleteAt(buffer', 1)
    BY DEF Waiting
  <2>1. Len(buffer') < header_size
    BY DEF LoopOrReturn
  <2>2. ~HeaderAt(buffer', 1)
    BY <1>1, <2>1, GeometryAssumption DEF HeaderAt
  <2>3. QED
    BY <2>2 DEF OversizedAt, CompleteAt
<1>6. Scanned' = Scanned + m
  BY <1>1 DEF Scanned
<1>7. QED
  BY <1>3, <1>4, <1>5, <1>6

(* A rejection with its rescan keeps it: only dead positions are passed.   *)
LEMMA RejectIInv ==
  ASSUME IInv, Reject
  PROVE  IInv'
<1>1. /\ TypeOK /\ Shape /\ DeliveredSound /\ NothingLost
      /\ ByteAccounting /\ MalformedIffLoss /\ NoOverrun
      /\ pc = "process" /\ malformed' = TRUE /\ pc' = LoopOrReturn(buffer')
      /\ received' = received /\ delivered' = delivered
      /\ \/ OversizedAt(buffer, 1)
         \/ CompleteAt(buffer, 1) /\ Decode(CandidateAt(buffer, 1)) # "Ok"
  BY DEF IInv, Reject
<1>2. PICK k \in 1 .. Len(buffer) :
        /\ IsFirstViable(buffer, 1, k)
        /\ buffer' = Drop(buffer, k)
        /\ tally' = Count("rejected", k)
  BY DEF Reject
<1>3. /\ buffer \in Seq(Byte) /\ received \in Seq(Byte)
      /\ Len(buffer) \in Nat /\ Len(received) \in Nat
      /\ Len(buffer) >= 2 /\ Len(buffer) <= Len(received)
      /\ k \in Nat /\ k >= 1 /\ k \in 0 .. Len(buffer)
      /\ tally["truncated"] = 0
  BY <1>1 DEF TypeOK, Shape
<1>4. /\ buffer' \in Seq(Byte) /\ Len(buffer') = Len(buffer) - k
      /\ \A i \in 1 .. (Len(buffer) - k) : buffer'[i] = buffer[k + i]
  BY <1>2, <1>3, DropFacts
<1>5. /\ Len(buffer') >= 1 => buffer'[1] = sync_first
      /\ Len(buffer') >= 2 => buffer'[2] = sync_second
  <2>1. ViableOffset(buffer, k)
    BY <1>2 DEF IsFirstViable
  <2>2. QED
    BY <1>2, <1>3, <2>1, KeptIsAligned
<1>6. /\ tally' \in [Categories -> Nat]
      /\ tally'["truncated"] = tally["truncated"] + 0
      /\ ByteAccounting' /\ MalformedIffLoss'
  <2>1. /\ Len(received') \in Nat /\ Len(buffer') \in Nat
        /\ Len(received') = Len(received)
    BY <1>1, <1>3, <1>4
  <2>2. Len(received') - Len(buffer') = Len(received) - Len(buffer) + k
    BY <1>3, <1>4, <2>1
  <2>3. malformed' <=> (malformed \/ k > 0)
    BY <1>1, <1>3
  <2>4. QED
    BY <1>1, <1>2, <1>3, <2>1, <2>2, <2>3, CountKeepsBooks
<1>7. tally'["truncated"] = tally["truncated"]
  BY <1>3, <1>6
<1>8. Shape' /\ NoOverrun' /\ Waiting' /\ Scanned' = Scanned + k
  BY <1>1, <1>4, <1>5, <1>7, DropKeepsShape
<1>9. TypeOK'
  <2>1. pc' \in {"push", "process"}
    BY <1>1 DEF LoopOrReturn
  <2>2. QED
    BY <1>1, <1>4, <1>6, <1>8, <2>1 DEF TypeOK, Shape
<1>10. NoSurplus'
  BY <1>1 DEF NoSurplus
<1>11. DeliveredSound' /\ NothingLost'
  <2> DEFINE o == Len(received) - Len(buffer)
  <2>1. /\ o \in Nat /\ o + Len(buffer) = Len(received)
        /\ \A i \in 1 .. Len(buffer) : buffer[i] = received[o + i]
        /\ Scanned = o
    BY <1>1, <1>3 DEF Shape, Scanned
  <2> HIDE DEF o
  <2>2. \A p \in (o + 1 + 1) .. (o + k) : Dead(received, p)
    BY <1>2, <1>3, <2>1, SkippedOfStream
  <2>3. Dead(received, o + 1)
    <3>1. Dead(buffer, 1) /\ 1 \in 1 .. Len(buffer) /\ o + Len(buffer) <= Len(received)
      BY <1>1, <1>3, <2>1 DEF Dead
    <3>2. QED
      BY <1>3, <2>1, <3>1, DeadStable
  <2>4. \A p \in (Scanned + 1) .. Scanned' : Dead(received', p)
    BY <1>1, <1>3, <1>8, <2>1, <2>2, <2>3
  <2>5. Scanned' \in Nat /\ Scanned <= Scanned'
    BY <1>3, <1>8, <2>1
  <2>6. QED
    BY <1>1, <1>3, <2>4, <2>5, SkipKeepsHistory
<1>12. QED
  BY <1>6, <1>8, <1>9, <1>10, <1>11 DEF IInv

(* A delivery with its realignment keeps it: the frame covers what it      *)
(* passes.                                                                 *)
LEMMA DeliverIInv ==
  ASSUME IInv, Deliver
  PROVE  IInv'
<1> DEFINE n == FrameSize(buffer, 1)
           rest == Drop(buffer, n)
<1>1. /\ TypeOK /\ Shape /\ DeliveredSound /\ NothingLost
      /\ ByteAccounting /\ MalformedIffLoss /\ NoOverrun /\ NoSurplus
      /\ pc = "process" /\ pc' = LoopOrReturn(buffer')
      /\ received' = received
      /\ CompleteAt(buffer, 1) /\ Decode(CandidateAt(buffer, 1)) = "Ok"
      /\ delivered' = Append(delivered,
                         [at    |-> Len(received) - Len(buffer) + 1,
                          bytes |-> CandidateAt(buffer, 1)])
  BY DEF IInv, Deliver
<1>2. /\ buffer \in Seq(Byte) /\ received \in Seq(Byte)
      /\ Len(buffer) \in Nat /\ Len(received) \in Nat
      /\ Len(buffer) >= 2 /\ Len(buffer) <= Len(received)
      /\ 1 \in 1 .. Len(buffer)
      /\ tally["truncated"] = 0
  BY <1>1 DEF TypeOK, Shape
<1>3. HeaderAt(buffer, 1) /\ n \in Nat /\ n >= 3 /\ n <= Len(buffer)
  <2>1. HeaderAt(buffer, 1)
    BY <1>1 DEF CompleteAt
  <2>2. n \in Nat /\ n >= minimum_frame_size
    BY <1>2, <2>1, LengthNat
  <2>3. QED
    BY <1>1, <2>1, <2>2, GeometryAssumption DEF CompleteAt
<1>4. PICK k \in 0 .. Len(rest) :
        /\ IsFirstViable(rest, 0, k)
        /\ buffer' = Drop(rest, k)
        /\ tally' = [tally EXCEPT !["framed"] = @ + n, !["noise"] = @ + k]
        /\ malformed' = (malformed \/ ~(Len(rest) = 0 \/ SyncAt(rest, 1)))
  BY DEF Deliver
<1> HIDE DEF n
<1>5. /\ rest \in Seq(Byte) /\ Len(rest) = Len(buffer) - n
      /\ \A i \in 1 .. (Len(buffer) - n) : rest[i] = buffer[n + i]
  <2>1. n \in 0 .. Len(buffer)
    BY <1>2, <1>3
  <2>2. QED
    BY <1>2, <2>1, DropFacts
<1> HIDE DEF rest
<1>6. k \in Nat /\ k <= Len(buffer) - n /\ n + k \in 1 .. Len(buffer)
  BY <1>2, <1>3, <1>5
<1>7. /\ buffer' \in Seq(Byte) /\ Len(buffer') = Len(buffer) - (n + k)
      /\ \A i \in 1 .. (Len(buffer) - (n + k)) : buffer'[i] = buffer[(n + k) + i]
  <2>1. /\ buffer' \in Seq(Byte) /\ Len(buffer') = Len(rest) - k
        /\ \A i \in 1 .. (Len(rest) - k) : buffer'[i] = rest[k + i]
    BY <1>4, <1>5, DropFacts
  <2>2. Len(buffer') = Len(buffer) - (n + k)
    BY <1>2, <1>3, <1>5, <1>6, <2>1
  <2>3. ASSUME NEW i \in 1 .. (Len(buffer) - (n + k))
        PROVE  buffer'[i] = buffer[(n + k) + i]
    <3>1. k + i \in 1 .. (Len(buffer) - n) /\ n + (k + i) = (n + k) + i
      BY <1>2, <1>3, <1>6
    <3>2. i \in 1 .. (Len(rest) - k)
      BY <1>2, <1>3, <1>5, <1>6
    <3>3. buffer'[i] = rest[k + i]
      BY <2>1, <3>2
    <3>4. rest[k + i] = buffer[n + (k + i)]
      BY <1>5, <3>1
    <3>5. QED
      BY <3>1, <3>3, <3>4
  <2>4. QED
    BY <2>1, <2>2, <2>3
<1>8. /\ Len(buffer') >= 1 => buffer'[1] = sync_first
      /\ Len(buffer') >= 2 => buffer'[2] = sync_second
  <2>1. ViableOffset(rest, k)
    BY <1>4 DEF IsFirstViable
  <2>2. QED
    BY <1>4, <1>5, <2>1, KeptIsAligned
<1>9. /\ tally["framed"] \in Nat /\ tally["noise"] \in Nat
      /\ tally["rejected"] \in Nat /\ tally["truncated"] \in Nat
  BY <1>1 DEF TypeOK, Categories
<1>10. tally' \in [Categories -> Nat]
  <2>1. tally \in [Categories -> Nat]
    BY <1>1 DEF TypeOK
  <2>2. tally["framed"] + n \in Nat /\ tally["noise"] + k \in Nat
    BY SMTT(30), <1>3, <1>6, <1>9
  <2>3. tally' = [[tally EXCEPT !["framed"] = tally["framed"] + n]
                    EXCEPT !["noise"] = tally["noise"] + k]
    BY <1>4, <2>1 DEF Categories
  <2>4. QED
    BY <2>1, <2>2, <2>3
<1>11. /\ tally'["framed"] = tally["framed"] + n
       /\ tally'["noise"] = tally["noise"] + k
       /\ tally'["rejected"] = tally["rejected"]
       /\ tally'["truncated"] = tally["truncated"]
  BY <1>1, <1>4 DEF TypeOK, Categories
<1>12. Shape' /\ NoOverrun' /\ Waiting' /\ Scanned' = Scanned + (n + k)
  BY <1>1, <1>6, <1>7, <1>8, <1>11, DropKeepsShape
<1>13. Scanned = Len(received) - Len(buffer) /\ Scanned \in Nat
  BY <1>2 DEF Scanned
<1>14. CandidateAt(buffer, 1) \in Seq(Byte) /\ Len(CandidateAt(buffer, 1)) = n
  <2>1. \A i \in 1 .. n : buffer[i] \in Byte
    BY <1>2, <1>3, ElementOfSeq
  <2>2. CandidateAt(buffer, 1) = SubSeq(buffer, 1, n)
    BY <1>3 DEF CandidateAt, n
  <2>3. 1 <= n /\ n - 1 + 1 = n
    BY <1>3
  <2>4. QED
    BY <1>3, <2>1, <2>2, <2>3, SubSeqProperties
<1>15. TypeOK'
  <2>1. pc' \in {"push", "process"}
    BY <1>1 DEF LoopOrReturn
  <2>2. malformed' \in BOOLEAN
    BY <1>1, <1>4 DEF TypeOK
  <2>3. delivered' \in Seq([at : Nat \ {0}, bytes : Seq(Byte)])
    <3> DEFINE new == [at |-> Len(received) - Len(buffer) + 1,
                       bytes |-> CandidateAt(buffer, 1)]
    <3>1. new \in [at : Nat \ {0}, bytes : Seq(Byte)]
      BY <1>2, <1>14
    <3> HIDE DEF new
    <3>2. delivered' = Append(delivered, new)
      BY <1>1 DEF new
    <3>3. QED
      BY <1>1, <3>1, <3>2, AppendProperties DEF TypeOK
  <2>4. received' \in Seq(Byte)
    BY <1>1, <1>2
  <2>5. QED
    BY <1>7, <1>10, <1>12, <2>1, <2>2, <2>3, <2>4 DEF TypeOK, Shape
<1>16. DeliveredSound' /\ NothingLost'
  <2> DEFINE f == CandidateAt(buffer, 1)
  <2>1. f \in Seq(Byte) /\ Len(f) = n /\ Decode(f) = "Ok"
    BY <1>1, <1>14
  <2>2. /\ Scanned + Len(buffer) = Len(received)
        /\ Scanned + Len(buffer) <= Len(received)
        /\ \A i \in 1 .. Len(buffer) : buffer[i] = received[Scanned + i]
    BY <1>1, <1>2, <1>13 DEF Shape
  <2>3. f = SubSeq(received, Scanned + 1, Scanned + Len(f))
    <3>1. CandidateAt(received, Scanned + 1) = f /\ FrameSize(received, Scanned + 1) = n
      <4> DEFINE o == Scanned
      <4>1. /\ o \in Nat /\ o + Len(buffer) <= Len(received)
            /\ \A i \in 1 .. Len(buffer) : buffer[i] = received[o + i]
        BY <1>13, <2>2
      <4> HIDE DEF o
      <4>2. /\ FrameSize(received, o + 1) = FrameSize(buffer, 1)
            /\ CandidateAt(received, o + 1) = CandidateAt(buffer, 1)
        <5>1. buffer \in Seq(Byte) /\ received \in Seq(Byte) /\ 1 \in 1 .. Len(buffer)
              /\ HeaderAt(buffer, 1) /\ CompleteAt(buffer, 1)
          BY <1>1, <1>2, <1>3
        <5>2. QED
          BY <4>1, <5>1, Embedding
      <4>3. QED
        BY <4>2 DEF o, n
    <3>2. Scanned + 1 + n - 1 = Scanned + n
      BY <1>3, <1>13
    <3>3. QED
      BY <2>1, <3>1, <3>2 DEF CandidateAt
  <2>4. delivered' = Append(delivered, [at |-> Scanned + 1, bytes |-> f])
    BY <1>1, <1>13
  <2> HIDE DEF f
  <2>5. \A p \in (Scanned + Len(f) + 1) .. Scanned' : Dead(received, p)
    <3> DEFINE o == Scanned + n
    <3>1. /\ o \in Nat /\ o + Len(rest) = Len(received)
          /\ \A i \in 1 .. Len(rest) : rest[i] = received[o + i]
      <4>1. o \in Nat /\ o + Len(rest) = Len(received)
        BY <1>2, <1>3, <1>5, <1>13
      <4>2. ASSUME NEW i \in 1 .. Len(rest) PROVE rest[i] = received[o + i]
        <5>1. i \in 1 .. (Len(buffer) - n) /\ n + i \in 1 .. Len(buffer)
              /\ Scanned + (n + i) = o + i
          BY <1>2, <1>3, <1>5, <1>13
        <5>2. QED
          BY <1>5, <2>2, <5>1
      <4>3. QED
        BY <4>1, <4>2
    <3> HIDE DEF o
    <3>2. \A p \in (o + 0 + 1) .. (o + k) : Dead(received, p)
      <4>1. rest \in Seq(Byte) /\ received \in Seq(Byte) /\ 0 \in Nat /\ k \in Nat
        BY <1>2, <1>5, <1>6
      <4>2. IsFirstViable(rest, 0, k)
        BY <1>4
      <4>3. QED
        BY <3>1, <4>1, <4>2, SkippedOfStream
    <3>3. o + 0 + 1 = Scanned + Len(f) + 1 /\ o + k = Scanned'
      BY <1>3, <1>6, <1>12, <1>13, <2>1, <3>1 DEF o
    <3>4. QED
      BY <3>2, <3>3
  <2>6. /\ Scanned' \in Nat /\ Scanned + Len(f) <= Scanned'
        /\ Scanned' <= Len(received)
    BY <1>2, <1>3, <1>6, <1>12, <1>13, <2>1
  <2>7. QED
    BY <1>1, <2>1, <2>3, <2>4, <2>5, <2>6, DeliveryKeepsHistory
<1>17. ByteAccounting'
  <2>1. Len(received') - Len(buffer') = Len(received) - Len(buffer) + (n + k)
    <3>1. Len(received') = Len(received)
      BY <1>1
    <3>2. QED
      BY <1>2, <1>3, <1>6, <1>7, <3>1
  <2>2. tally'["framed"] + tally'["noise"] + tally'["rejected"] + tally'["truncated"]
          = tally["framed"] + tally["noise"] + tally["rejected"] + tally["truncated"]
              + (n + k)
    <3> DEFINE f == tally["framed"]  f1 == tally'["framed"]
               a == tally["noise"]   a1 == tally'["noise"]
               b == tally["rejected"]  b1 == tally'["rejected"]
               d == tally["truncated"] d1 == tally'["truncated"]
    <3>1. /\ f \in Nat /\ a \in Nat /\ b \in Nat /\ d \in Nat
          /\ n \in Nat /\ k \in Nat
          /\ f1 = f + n /\ a1 = a + k /\ b1 = b /\ d1 = d
      BY <1>3, <1>6, <1>9, <1>11
    <3> HIDE DEF f, a, b, d, f1, a1, b1, d1, n
    <3>2. f1 + a1 + b1 + d1 = f + a + b + d + (n + k)
      BY <3>1
    <3>3. QED
      BY <3>2 DEF f, a, b, d, f1, a1, b1, d1
  <2>3. Len(received) - Len(buffer)
          = tally["framed"] + tally["noise"] + tally["rejected"] + tally["truncated"]
    BY <1>1 DEF ByteAccounting
  <2>4. QED
    BY <2>1, <2>2, <2>3 DEF ByteAccounting
<1>18. CASE malformed
  <2>1. malformed' /\ NoSurplus'
    BY <1>4, <1>18 DEF NoSurplus
  <2>2. tally["noise"] + tally["rejected"] + tally["truncated"] > 0
    BY <1>1, <1>18 DEF MalformedIffLoss
  <2>3. (tally["noise"] + tally["rejected"] + tally["truncated"] > 0)'
    BY <1>6, <1>9, <1>11, <2>2
  <2>4. MalformedIffLoss'
    BY <2>1, <2>3 DEF MalformedIffLoss
  <2>5. QED
    BY <1>12, <1>15, <1>16, <1>17, <2>1, <2>4 DEF IInv
<1>19. CASE ~malformed
  <2>1. Len(buffer) <= n
    BY <1>1, <1>3, <1>19 DEF NoSurplus, n
  <2>2. Len(rest) = 0 /\ k = 0 /\ Len(buffer') = 0
    BY <1>2, <1>3, <1>5, <1>6, <1>7, <2>1
  <2>3. ~malformed' /\ pc' = "push"
    <3>1. Len(buffer') < header_size
      BY <2>2, GeometryAssumption
    <3>2. pc' = "push"
      BY <1>1, <3>1 DEF LoopOrReturn
    <3>3. ~malformed'
      BY <1>4, <1>19, <2>2
    <3>4. QED
      BY <3>2, <3>3
  <2>4. NoSurplus'
    BY <2>3 DEF NoSurplus
  <2>5. ~(tally["noise"] + tally["rejected"] + tally["truncated"] > 0)
    BY <1>1, <1>19 DEF MalformedIffLoss
  <2>6. ~(tally["noise"] + tally["rejected"] + tally["truncated"] > 0)'
    BY <1>9, <1>11, <2>2, <2>5
  <2>7. MalformedIffLoss'
    BY <2>3, <2>6 DEF MalformedIffLoss
  <2>8. QED
    BY <1>12, <1>15, <1>16, <1>17, <2>4, <2>7 DEF IInv
<1>20. QED
  BY <1>18, <1>19

(* The invariant does not depend on anything but the variables.            *)
LEMMA StutterIInv ==
  ASSUME IInv, UNCHANGED vars
  PROVE  IInv'
BY DEF IInv, vars, TypeOK, Shape, NoOverrun, Waiting, NoSurplus, DeliveredSound,
       NothingLost, Scanned, Covered, ByteAccounting, MalformedIffLoss

(* Every step of the decoder keeps the inductive invariant.                *)
LEMMA NextIInv ==
  ASSUME IInv, [Next]_vars
  PROVE  IInv'
<1>1. CASE Push
  <2>1. PICK byte \in Byte : HuntFirst(byte) \/ HuntSecond(byte) \/ Store(byte)
    BY <1>1 DEF Push
  <2>2. QED
    BY <2>1, HuntFirstIInv, HuntSecondIInv, StoreIInv
<1>2. CASE ProcessBuffer
  BY <1>2, AwaitMoreIInv, RejectIInv, DeliverIInv DEF ProcessBuffer
<1>3. CASE Finish
  BY <1>3, FinishIInv
<1>4. CASE UNCHANGED vars
  BY <1>4, StutterIInv
<1>5. QED
  BY <1>1, <1>2, <1>3, <1>4 DEF Next

(* Every reachable state of the decoder satisfies the inductive invariant. *)
THEOREM Invariance == Spec => []IInv
<1>1. Init => IInv
  BY InitIInv
<1>2. IInv /\ [Next]_vars => IInv'
  BY NextIInv
<1>3. QED
  BY <1>1, <1>2, PTL DEF Spec

-----------------------------------------------------------------------------
(* The properties, for every geometry, codec and stream.                   *)

(* The variables keep their types.                                         *)
THEOREM TypeCorrect == Spec => []TypeOK
  BY Invariance, PTL DEF IInv

(* No stream makes push_byte() write past the end of buffer_.              *)
THEOREM BufferNeverOverruns == Spec => []NoOverrun
  BY Invariance, PTL DEF IInv

(* The buffer is always the unread end of the stream, aligned to a sync.   *)
THEOREM BufferAligned == Spec => []BufferIsStreamSuffix
<1>1. IInv => BufferIsStreamSuffix
  <2> SUFFICES ASSUME IInv PROVE BufferIsStreamSuffix
    OBVIOUS
  <2>1. TypeOK /\ Shape
    BY DEF IInv
  <2>2. ASSUME pc # "closed"
        PROVE  buffer = SubSeq(received, Scanned + 1, Len(received))
    <3>1. /\ received \in Seq(Byte) /\ buffer \in Seq(Byte)
          /\ Len(received) \in Nat /\ Len(buffer) \in Nat
          /\ Scanned = Len(received) - Len(buffer)
          /\ Scanned \in Nat
          /\ \A i \in 1 .. Len(buffer) : buffer[i] = received[Scanned + i]
      BY SMTT(30), <2>1, <2>2, ScannedType DEF TypeOK, Shape
    <3>2. \A i \in (Scanned + 1) .. Len(received) : received[i] \in Byte
      BY <3>1, ElementOfSeq
    <3>3. Scanned + 1 \in Int /\ Len(received) \in Int
      BY <3>1
    <3>4. /\ SubSeq(received, Scanned + 1, Len(received)) \in Seq(Byte)
          /\ Len(SubSeq(received, Scanned + 1, Len(received)))
               = IF Scanned + 1 <= Len(received)
                 THEN Len(received) - (Scanned + 1) + 1 ELSE 0
          /\ \A i \in 1 .. (Len(received) - (Scanned + 1) + 1) :
               SubSeq(received, Scanned + 1, Len(received))[i]
                 = received[Scanned + 1 + i - 1]
      BY <3>2, <3>3, SubSeqProperties
    <3>5. Len(SubSeq(received, Scanned + 1, Len(received))) = Len(buffer)
      BY <3>1, <3>4
    <3>6. ASSUME NEW i \in 1 .. Len(buffer)
          PROVE  buffer[i] = SubSeq(received, Scanned + 1, Len(received))[i]
      <4>1. i \in 1 .. (Len(received) - (Scanned + 1) + 1)
            /\ Scanned + 1 + i - 1 = Scanned + i
        BY <3>1
      <4>2. QED
        BY <3>1, <3>4, <4>1
    <3>7. QED
      BY <3>1, <3>4, <3>5, <3>6, SeqEqual
  <2>3. QED
    BY <2>1, <2>2 DEF BufferIsStreamSuffix, Shape
<1>2. QED
  BY <1>1, Invariance, PTL

(* What is delivered was sent, decodes, and comes in order, once.          *)
THEOREM OutputSound == Spec => []DeliveredSound
  BY Invariance, PTL DEF IInv

(* What was sent intact is not lost to the damage around it.               *)
THEOREM OutputComplete == Spec => []NothingLost
  BY Invariance, PTL DEF IInv

(* A frame is delivered at most one maximum-size frame after its start.    *)
THEOREM DelayBounded == Spec => []BoundedDelay
<1>1. IInv => BoundedDelay
  <2> SUFFICES ASSUME IInv, pc = "push",
                      NEW p \in 1 .. Len(received),
                      SyncAt(received, p), CompleteAt(received, p),
                      Decode(CandidateAt(received, p)) = "Ok",
                      p + maximum_frame_size - 1 <= Len(received)
               PROVE  Covered(p)
    BY DEF BoundedDelay
  <2>1. TypeOK /\ Shape /\ NoOverrun /\ NothingLost
    BY DEF IInv
  <2>2. /\ received \in Seq(Byte) /\ Len(received) \in Nat
        /\ Len(buffer) \in Nat /\ Scanned \in Nat
        /\ Scanned = Len(received) - Len(buffer)
    BY <2>1, ScannedType DEF TypeOK
  <2>3. Len(buffer) < maximum_frame_size
    BY <2>1 DEF NoOverrun, maximum_frame_size
  <2>4. p \in 1 .. Scanned
    BY <2>2, <2>3, GeometryAssumption DEF maximum_frame_size
  <2>5. ~Dead(received, p)
    <3>1. HeaderAt(received, p) /\ LengthAt(received, p) <= maximum_payload_size
      BY DEF CompleteAt
    <3>2. LengthAt(received, p) \in Nat
      BY <2>2, <3>1, LengthNat
    <3>3. ~OversizedAt(received, p)
      BY <3>1, <3>2, GeometryAssumption DEF OversizedAt
    <3>4. QED
      BY <3>3 DEF Dead, SyncAt
  <2>6. QED
    BY <2>1, <2>4, <2>5 DEF NothingLost
<1>2. QED
  BY <1>1, Invariance, PTL

(* Every byte is accounted for exactly once.                               *)
THEOREM BytesAccounted == Spec => []ByteAccounting
  BY Invariance, PTL DEF IInv

(* An anomaly is reported exactly when a byte was not part of a frame.     *)
THEOREM AnomalyReported == Spec => []MalformedIffLoss
  BY Invariance, PTL DEF IInv

-----------------------------------------------------------------------------
(* The frames handed over, for what stands on the decoder.                 *)

(* A byte sequence that is one whole frame.                                *)
WholeFrame(f) ==
  /\ SyncAt(f, 1)
  /\ CompleteAt(f, 1) /\ FrameSize(f, 1) = Len(f)
  /\ Decode(f) = "Ok"

(* Every frame that was handed over is one.                                *)
Framed == \A n \in 1 .. Len(delivered) : WholeFrame(delivered[n].bytes)

(* The last element of a sequence that was appended to.                    *)
LEMMA Appended ==
  ASSUME NEW S, NEW s \in Seq(S), NEW e \in S
  PROVE  /\ Len(s) \in Nat
         /\ Append(s, e) # s
         /\ Len(Append(s, e)) = Len(s) + 1
         /\ Append(s, e)[Len(s) + 1] = e
         /\ \A n \in 1 .. Len(s) : Append(s, e)[n] = s[n]
<1>1. /\ Len(Append(s, e)) = Len(s) + 1
      /\ Append(s, e)[Len(s) + 1] = e
      /\ \A n \in 1 .. Len(s) : Append(s, e)[n] = s[n]
  BY AppendProperties
<1>2. Len(s) \in Nat
  BY LenProperties
<1>3. Append(s, e) # s
  BY <1>1, <1>2
<1>4. QED
  BY <1>1, <1>2, <1>3

(* A frame read from its first byte on is a whole frame by itself.         *)
LEMMA CandidateIsWhole ==
  ASSUME NEW s \in Seq(Byte), NEW p \in 1 .. Len(s),
         SyncAt(s, p), CompleteAt(s, p)
  PROVE  LET f == CandidateAt(s, p) IN
         /\ f \in Seq(Byte) /\ Len(f) = FrameSize(s, p)
         /\ SyncAt(f, 1) /\ CompleteAt(f, 1) /\ FrameSize(f, 1) = Len(f)
<1> DEFINE n == FrameSize(s, p)
           f == CandidateAt(s, p)
<1>1. HeaderAt(s, p) /\ n \in Nat /\ n >= minimum_frame_size /\ p + n - 1 <= Len(s)
      /\ LengthAt(s, p) <= maximum_payload_size
  BY LengthNat DEF CompleteAt
<1>2. n >= header_size /\ header_size >= 3 /\ header_size \in Nat
  BY <1>1, GeometryAssumption
<1> HIDE DEF n
<1>3. f \in Seq(Byte) /\ Len(f) = n /\ \A i \in 1 .. n : f[i] = s[p + i - 1]
  <2>1. \A i \in p .. (p + n - 1) : s[i] \in Byte
    BY <1>1, ElementOfSeq
  <2>2. f = SubSeq(s, p, p + n - 1)
    BY DEF CandidateAt, n
  <2>3. p \in Int /\ p + n - 1 \in Int /\ p <= p + n - 1 /\ (p + n - 1) - p + 1 = n
    BY <1>1, <1>2
  <2>4. QED
    BY <2>1, <2>2, <2>3, <1>1, SubSeqProperties
<1> HIDE DEF f
<1>4. SyncAt(f, 1)
  <2>1. f[1] = s[p] /\ f[2] = s[p + 1]
    BY <1>1, <1>2, <1>3
  <2>2. QED
    BY <1>2, <1>3, <2>1 DEF SyncAt
<1>5. LengthAt(f, 1) = LengthAt(s, p)
  <2>1. 1 + length_low \in 1 .. n /\ 1 + length_high \in 1 .. n
    BY <1>1, <1>2, GeometryAssumption
  <2>2. f[1 + length_low] = s[p + length_low] /\ f[1 + length_high] = s[p + length_high]
    BY <1>3, <2>1, GeometryAssumption
  <2>3. QED
    BY <2>2 DEF LengthAt
<1>6. HeaderAt(f, 1) /\ FrameSize(f, 1) = n
  BY <1>1, <1>2, <1>3, <1>5 DEF HeaderAt, FrameSize, n
<1>7. CompleteAt(f, 1)
  BY <1>1, <1>3, <1>5, <1>6 DEF CompleteAt
<1>8. QED
  BY <1>3, <1>4, <1>6, <1>7 DEF n, f

(* A step hands over nothing, or one whole frame.                          *)
LEMMA HandsOver ==
  ASSUME IInv, [Next]_vars
  PROVE  \/ delivered' = delivered
         \/ \E e \in [at : Nat \ {0}, bytes : Seq(Byte)] :
              WholeFrame(e.bytes) /\ delivered' = Append(delivered, e)
<1>1. TypeOK /\ Shape /\ buffer \in Seq(Byte)
  BY DEF IInv, TypeOK
<1>2. CASE Deliver
  <2> DEFINE f == CandidateAt(buffer, 1)
             e == [at |-> Len(received) - Len(buffer) + 1, bytes |-> f]
  <2>1. /\ Len(buffer) >= 2 /\ buffer[1] = sync_first /\ buffer[2] = sync_second
        /\ CompleteAt(buffer, 1) /\ Decode(f) = "Ok"
        /\ delivered' = Append(delivered, e)
    BY <1>1, <1>2 DEF Deliver, Shape
  <2>2. 1 \in 1 .. Len(buffer) /\ SyncAt(buffer, 1)
    BY <1>1, <2>1 DEF SyncAt
  <2>3. f \in Seq(Byte) /\ WholeFrame(f)
    BY <1>1, <2>1, <2>2, CandidateIsWhole DEF WholeFrame
  <2>4. Len(received) - Len(buffer) + 1 \in Nat \ {0}
    <3>1. Len(received) \in Nat /\ Len(buffer) \in Nat /\ tally["truncated"] \in Nat
          /\ Len(buffer) + tally["truncated"] <= Len(received)
      BY <1>1 DEF TypeOK, Shape, Categories
    <3>2. QED
      BY <3>1
  <2>5. e \in [at : Nat \ {0}, bytes : Seq(Byte)] /\ e.bytes = f
    BY <2>3, <2>4
  <2> HIDE DEF f, e
  <2>6. QED
    BY <2>1, <2>3, <2>5
<1>3. delivered' = delivered \/ Deliver
  BY DEF Next, Push, HuntFirst, HuntSecond, Store, ProcessBuffer, AwaitMore, Reject, Finish, vars
<1>4. QED
  BY <1>2, <1>3

(* Every frame handed over stays a whole one.                              *)
LEMMA NextFramed ==
  ASSUME IInv, Framed, [Next]_vars
  PROVE  Framed'
<1>1. delivered \in Seq([at : Nat \ {0}, bytes : Seq(Byte)])
  BY DEF IInv, TypeOK
<1>2. CASE delivered' = delivered
  BY <1>2 DEF Framed, WholeFrame
<1>3. ASSUME NEW e \in [at : Nat \ {0}, bytes : Seq(Byte)],
             WholeFrame(e.bytes), delivered' = Append(delivered, e)
      PROVE  Framed'
  <2>1. /\ Len(delivered) \in Nat /\ Len(delivered') = Len(delivered) + 1
        /\ delivered'[Len(delivered) + 1] = e
        /\ \A n \in 1 .. Len(delivered) : delivered'[n] = delivered[n]
    BY <1>1, <1>3, Appended
  <2>2. ASSUME NEW n \in 1 .. Len(delivered') PROVE WholeFrame(delivered'[n].bytes)
    <3>1. CASE n \in 1 .. Len(delivered)
      BY <2>1, <3>1 DEF Framed
    <3>2. CASE n = Len(delivered) + 1
      BY <1>3, <2>1, <3>2
    <3>3. QED
      BY <2>1, <2>2, <3>1, <3>2
  <2>3. QED
    BY <2>2 DEF Framed, WholeFrame
<1>4. QED
  BY <1>2, <1>3, HandsOver

(* What is known of each frame handed over.                                *)
LEMMA DeliveredFacts ==
  ASSUME IInv, Framed, NEW n \in 1 .. Len(delivered)
  PROVE  LET d == delivered[n] IN
         /\ d.at \in Nat \ {0}
         /\ Len(d.bytes) \in Nat \ {0}
         /\ d.at + Len(d.bytes) - 1 <= Len(received)
         /\ d.at + Len(d.bytes) - 1 <= Scanned
         /\ d.bytes = SubSeq(received, d.at, d.at + Len(d.bytes) - 1)
         /\ WholeFrame(d.bytes)
<1> DEFINE d == delivered[n]
<1>1. TypeOK /\ Shape /\ DeliveredSound
  BY DEF IInv
<1>2. d \in [at : Nat \ {0}, bytes : Seq(Byte)]
  BY <1>1, ElementOfSeq DEF TypeOK
<1>3. WholeFrame(d.bytes)
  BY DEF Framed
<1>4. Len(d.bytes) \in Nat \ {0}
  <2>1. Len(d.bytes) \in Nat
    BY <1>2
  <2>2. Len(d.bytes) >= header_size /\ header_size >= 3 /\ header_size \in Nat
    BY <1>3, <2>1, GeometryAssumption DEF WholeFrame, CompleteAt, HeaderAt
  <2>3. QED
    BY <2>1, <2>2
<1>5. /\ d.bytes = SubSeq(received, d.at, d.at + Len(d.bytes) - 1)
      /\ d.at + Len(d.bytes) - 1 <= Scanned
  BY <1>1 DEF DeliveredSound
<1>6. Scanned \in Nat /\ Scanned <= Len(received) /\ Len(received) \in Nat
  <2>1. tally["truncated"] \in Nat /\ Len(received) \in Nat /\ Len(buffer) \in Nat
    BY <1>1 DEF TypeOK, Categories
  <2>2. QED
    BY <1>1, <2>1 DEF Shape, Scanned
<1> HIDE DEF d
<1>7. d.at + Len(d.bytes) - 1 <= Len(received)
  <2>1. d.at \in Nat
    BY <1>2
  <2>2. QED
    BY <1>4, <1>5, <1>6, <2>1
<1>8. QED
  BY <1>2, <1>3, <1>4, <1>5, <1>7 DEF d

(* A byte of the stream lies in one frame only.                              *)
LEMMA CoveredOnce ==
  ASSUME IInv, Framed, NEW p \in Nat,
         NEW m \in 1 .. Len(delivered), Covers(delivered[m], p),
         NEW n \in 1 .. Len(delivered), Covers(delivered[n], p)
  PROVE  m = n
<1>1. \A i, j \in 1 .. Len(delivered) :
        i < j => delivered[i].at + Len(delivered[i].bytes) <= delivered[j].at
  BY DEF IInv, DeliveredSound
<1>2. /\ delivered[m].at \in Nat /\ Len(delivered[m].bytes) \in Nat
      /\ delivered[n].at \in Nat /\ Len(delivered[n].bytes) \in Nat
  BY DeliveredFacts
<1> DEFINE am == delivered[m].at
           lm == Len(delivered[m].bytes)
           an == delivered[n].at
           ln == Len(delivered[n].bytes)
<1>3. /\ am <= p /\ p < am + lm /\ an <= p /\ p < an + ln
      /\ m < n => am + lm <= an
      /\ n < m => an + ln <= am
  BY <1>1 DEF Covers
<1>4. am \in Nat /\ lm \in Nat /\ an \in Nat /\ ln \in Nat
  BY <1>2
<1> HIDE DEF am, lm, an, ln
<1>5. ~(m < n) /\ ~(n < m)
  BY <1>3, <1>4
<1>6. QED
  BY <1>5

(* Two whole frames that begin with the same bytes are as long as each     *)
(* other: the header fixes the length.                                     *)
LEMMA HeaderFixesLength ==
  ASSUME NEW s \in Seq(Byte), NEW p \in 1 .. Len(s),
         NEW a \in p .. Len(s), NEW b \in p .. Len(s),
         WholeFrame(SubSeq(s, p, a)), WholeFrame(SubSeq(s, p, b))
  PROVE  a = b
<1> DEFINE f == SubSeq(s, p, a)
           g == SubSeq(s, p, b)
<1>1. /\ Len(f) = a - p + 1 /\ \A i \in 1 .. Len(f) : f[i] = s[p + i - 1]
      /\ Len(g) = b - p + 1 /\ \A i \in 1 .. Len(g) : g[i] = s[p + i - 1]
  <2>1. \A i \in 1 .. Len(s) : s[i] \in Byte
    BY ElementOfSeq
  <2>2. /\ \A i \in p .. a : s[i] \in Byte
        /\ \A i \in p .. b : s[i] \in Byte
    BY <2>1
  <2>3. Len(f) = a - p + 1 /\ \A i \in 1 .. (a - p + 1) : f[i] = s[p + i - 1]
    BY <2>2, SubSeqProperties
  <2>4. Len(g) = b - p + 1 /\ \A i \in 1 .. (b - p + 1) : g[i] = s[p + i - 1]
    BY <2>2, SubSeqProperties
  <2> HIDE DEF f, g
  <2>5. QED
    BY <2>3, <2>4
<1> HIDE DEF f, g
<1>2. /\ CompleteAt(f, 1) /\ FrameSize(f, 1) = Len(f)
      /\ CompleteAt(g, 1) /\ FrameSize(g, 1) = Len(g)
  BY DEF WholeFrame, f, g
<1>3. Len(f) >= header_size /\ Len(g) >= header_size
  BY <1>1, <1>2, GeometryAssumption DEF CompleteAt, HeaderAt
<1>4. /\ 1 + length_low \in 1 .. Len(f) /\ 1 + length_high \in 1 .. Len(f)
      /\ 1 + length_low \in 1 .. Len(g) /\ 1 + length_high \in 1 .. Len(g)
  <2>1. /\ 1 + length_low \in Nat /\ 1 <= 1 + length_low /\ 1 + length_low <= header_size
        /\ 1 + length_high \in Nat /\ 1 <= 1 + length_high /\ 1 + length_high <= header_size
        /\ header_size \in Nat
    BY GeometryAssumption
  <2>2. Len(f) \in Nat /\ Len(g) \in Nat
    BY <1>1
  <2>3. \A l, o \in Nat : 1 <= o /\ o <= header_size /\ l >= header_size => o \in 1 .. l
    BY <2>1
  <2>4. QED
    BY <1>3, <2>1, <2>2, <2>3
<1>5. f[1 + length_low] = g[1 + length_low] /\ f[1 + length_high] = g[1 + length_high]
  BY <1>1, <1>4
<1>6. Len(f) = Len(g)
  BY <1>2, <1>5 DEF FrameSize, LengthAt
<1>7. QED
  BY <1>1, <1>6

(* What has been decided on is part of what was received.                  *)
LEMMA ScannedBounds ==
  ASSUME IInv
  PROVE  /\ received \in Seq(Byte) /\ Len(received) \in Nat
         /\ Scanned \in Nat /\ Scanned <= Len(received)
         /\ pc = "push" => Scanned = Len(received) - Len(buffer)
<1>1. TypeOK /\ Shape
  BY DEF IInv
<1>2. tally["truncated"] \in Nat /\ Len(received) \in Nat /\ Len(buffer) \in Nat
  BY <1>1 DEF TypeOK, Categories
<1>3. Scanned \in Nat /\ Scanned <= Len(received)
  BY <1>1, <1>2 DEF Shape, Scanned
<1>4. pc = "push" => Scanned = Len(received) - Len(buffer)
  BY <1>1, <1>2 DEF Shape, Scanned
<1>5. QED
  BY <1>1, <1>2, <1>3, <1>4 DEF TypeOK

(* A whole frame that is part of a stream is read the same there.          *)
LEMMA WholeInStream ==
  ASSUME NEW s \in Seq(Byte), NEW p \in 1 .. Len(s), NEW n \in p .. Len(s),
         WholeFrame(SubSeq(s, p, n))
  PROVE  /\ SyncAt(s, p) /\ CompleteAt(s, p) /\ FrameSize(s, p) = n - p + 1
         /\ CandidateAt(s, p) = SubSeq(s, p, n)
         /\ ~OversizedAt(s, p) /\ ~Dead(s, p)
<1> DEFINE f == SubSeq(s, p, n)
           k == p - 1
<1>1. /\ Len(s) \in Nat /\ p \in Nat /\ n \in Nat /\ p <= n /\ n <= Len(s)
      /\ k \in Nat /\ k + 1 = p
  OBVIOUS
<1>2. /\ f \in Seq(Byte) /\ Len(f) = n - k
      /\ \A i \in 1 .. Len(f) : f[i] = s[k + i]
  <2>1. \A i \in 1 .. Len(s) : s[i] \in Byte
    BY ElementOfSeq
  <2>2. \A i \in p .. n : s[i] \in Byte
    BY <1>1, <2>1
  <2>3. f \in Seq(Byte) /\ Len(f) = n - p + 1
        /\ \A i \in 1 .. (n - p + 1) : f[i] = s[p + i - 1]
    BY <1>1, <2>2, SubSeqProperties
  <2>4. n - p + 1 = n - k /\ \A i \in Int : p + i - 1 = k + i
    BY <1>1
  <2>5. QED
    BY <2>3, <2>4
<1>3. /\ SyncAt(f, 1) /\ CompleteAt(f, 1) /\ FrameSize(f, 1) = Len(f)
      /\ Decode(f) = "Ok" /\ HeaderAt(f, 1)
  BY DEF WholeFrame, CompleteAt
<1> HIDE DEF f, k
<1>4. 1 \in 1 .. Len(f) /\ 2 \in 1 .. Len(f)
  BY <1>2, <1>3 DEF SyncAt
<1>5. /\ CompleteAt(s, k + 1) /\ CandidateAt(s, k + 1) = CandidateAt(f, 1)
      /\ FrameSize(s, k + 1) = FrameSize(f, 1) /\ ~OversizedAt(s, k + 1)
  <2>1. k + Len(f) <= Len(s)
    BY <1>1, <1>2
  <2>2. /\ CompleteAt(s, k + 1) /\ CandidateAt(s, k + 1) = CandidateAt(f, 1)
        /\ FrameSize(s, k + 1) = FrameSize(f, 1)
    BY <1>1, <1>2, <1>3, <1>4, <2>1, Embedding
  <2>3. LengthAt(s, k + 1) <= maximum_payload_size /\ LengthAt(s, k + 1) \in Nat
    BY <1>1, <2>2, LengthNat DEF CompleteAt
  <2>4. QED
    BY <2>2, <2>3, GeometryAssumption DEF OversizedAt
<1>6. CandidateAt(f, 1) = f
  <2>1. CandidateAt(f, 1) = SubSeq(f, 1, Len(f))
    BY <1>2, <1>3 DEF CandidateAt
  <2>2. QED
    BY <1>2, <2>1, SubSeqFull
<1>7. s[p] = sync_first /\ s[p + 1] = sync_second /\ p + 1 <= Len(s)
  <2>1. s[k + 1] = f[1] /\ s[k + 2] = f[2] /\ k + 2 = p + 1
    BY <1>1, <1>2, <1>4
  <2>2. QED
    BY <1>1, <1>2, <1>3, <1>4, <2>1 DEF SyncAt
<1>8. ~Dead(s, p)
  BY <1>1, <1>3, <1>5, <1>6, <1>7 DEF Dead
<1>9. FrameSize(s, p) = n - p + 1
  BY <1>1, <1>2, <1>3, <1>5
<1>10. QED
  BY <1>1, <1>5, <1>6, <1>7, <1>8, <1>9 DEF SyncAt, f

(* A whole frame of the stream whose first byte was decided on lies, from  *)
(* there on, in a frame that was handed over: in itself, if that one       *)
(* starts there too.                                                       *)
LEMMA DecidedIsCovered ==
  ASSUME IInv, Framed, NEW p \in 1 .. Len(received), NEW n \in p .. Len(received),
         WholeFrame(SubSeq(received, p, n)), p <= Scanned
  PROVE  \E j \in 1 .. Len(delivered) :
           /\ Covers(delivered[j], p)
           /\ delivered[j].at = p => delivered[j].at + Len(delivered[j].bytes) - 1 = n
<1>1. /\ received \in Seq(Byte) /\ Len(received) \in Nat /\ Scanned \in Nat
      /\ NothingLost
  BY ScannedBounds DEF IInv
<1>2. ~Dead(received, p)
  BY <1>1, WholeInStream
<1>3. p \in 1 .. Scanned
  BY <1>1
<1>4. Covered(p)
  BY <1>1, <1>2, <1>3 DEF NothingLost
<1>5. PICK j \in 1 .. Len(delivered) : Covers(delivered[j], p)
  BY <1>4 DEF Covered
<1> DEFINE d == delivered[j]
           last == d.at + Len(d.bytes) - 1
<1>6. /\ d.at \in Nat \ {0} /\ Len(d.bytes) \in Nat \ {0} /\ last <= Len(received)
      /\ d.bytes = SubSeq(received, d.at, last) /\ WholeFrame(d.bytes)
  BY DeliveredFacts
<1>7. ASSUME d.at = p PROVE last = n
  <2> DEFINE m == Len(d.bytes)
  <2>1. last = p + m - 1 /\ m \in Nat \ {0} /\ last <= Len(received)
    BY <1>6, <1>7
  <2>2. WholeFrame(SubSeq(received, p, last))
    BY <1>6, <1>7
  <2> HIDE DEF d, m, last
  <2>3. last \in p .. Len(received)
    BY <1>1, <2>1
  <2>4. QED
    BY <1>1, <2>2, <2>3, HeaderFixesLength
<1>8. QED
  BY <1>5, <1>7

(* A whole frame that starts where the stream does, or right behind a      *)
(* frame that was handed over, is handed over.                             *)
LEMMA NextIsDelivered ==
  ASSUME IInv, Framed, NEW k \in Nat, k + 1 <= Scanned,
         k = 0 \/ \E i \in 1 .. Len(delivered) :
                    delivered[i].at + Len(delivered[i].bytes) - 1 = k,
         NEW n \in (k + 1) .. Len(received), k + 1 \in 1 .. Len(received),
         WholeFrame(SubSeq(received, k + 1, n))
  PROVE  \E j \in 1 .. Len(delivered) :
           /\ delivered[j].at = k + 1
           /\ delivered[j].at + Len(delivered[j].bytes) - 1 = n
<1>1. PICK j \in 1 .. Len(delivered) :
        /\ Covers(delivered[j], k + 1)
        /\ delivered[j].at = k + 1 => delivered[j].at + Len(delivered[j].bytes) - 1 = n
  BY DecidedIsCovered
<1> DEFINE d == delivered[j]
<1>2. d.at \in Nat \ {0} /\ Len(d.bytes) \in Nat \ {0}
  BY DeliveredFacts
<1>3. d.at <= k + 1 /\ k + 1 < d.at + Len(d.bytes)
  BY <1>1 DEF Covers
<1>4. d.at = k + 1
  <2>1. SUFFICES ASSUME d.at <= k PROVE FALSE
    BY <1>2, <1>3
  <2>2. k # 0
    BY <1>2, <2>1
  <2>3. PICK i \in 1 .. Len(delivered) : delivered[i].at + Len(delivered[i].bytes) - 1 = k
    BY <2>2
  <2>4. delivered[i].at \in Nat \ {0} /\ Len(delivered[i].bytes) \in Nat \ {0}
    BY DeliveredFacts
  <2> DEFINE a == delivered[i].at
             l == Len(delivered[i].bytes)
             b == d.at
             m == Len(d.bytes)
  <2>5. a + l - 1 = k /\ a \in Nat \ {0} /\ l \in Nat \ {0}
        /\ b \in Nat \ {0} /\ m \in Nat \ {0} /\ b <= k /\ k + 1 < b + m
    BY <1>2, <1>3, <2>1, <2>3, <2>4
  <2>6. /\ Covers(delivered[i], k) <=> a <= k /\ k < a + l
        /\ Covers(d, k) <=> b <= k /\ k < b + m
        /\ Covers(delivered[i], k + 1) <=> a <= k + 1 /\ k + 1 < a + l
    BY DEF Covers
  <2> HIDE DEF a, l, b, m
  <2>7. a <= k /\ k < a + l /\ b <= k /\ k < b + m /\ ~(k + 1 < a + l)
    BY <2>5
  <2>8. Covers(delivered[i], k) /\ Covers(d, k) /\ ~Covers(delivered[i], k + 1)
    BY <2>6, <2>7
  <2>9. i = j
    BY <2>8, CoveredOnce
  <2>10. QED
    BY <1>1, <2>8, <2>9
<1>5. QED
  BY <1>1, <1>4

(* A header at q announces a frame that reaches the position p behind it.  *)
Announces(s, q, p) ==
  /\ q < p
  /\ SyncAt(s, q) /\ HeaderAt(s, q) /\ ~OversizedAt(s, q)
  /\ p < q + FrameSize(s, q)

(* The position q does not lie within a frame handed over, but for its     *)
(* first byte.                                                             *)
Unclaimed(q) ==
  \A j \in 1 .. Len(delivered) : Covers(delivered[j], q) => delivered[j].at = q

(* Nothing but a header in front of it keeps a whole frame from being      *)
(* handed over at once: one that announces a frame reaching into it, and   *)
(* that is itself no part of a frame handed over.  The decoder either      *)
(* waits for the rest of what it announces, or found a frame there.        *)
LEMMA OnlyHeadersHide ==
  ASSUME IInv, Framed, pc = "push",
         NEW p \in 1 .. Len(received), NEW n \in p .. Len(received),
         WholeFrame(SubSeq(received, p, n))
  PROVE  \/ \E j \in 1 .. Len(delivered) :
              delivered[j].at = p /\ delivered[j].at + Len(delivered[j].bytes) - 1 = n
         \/ \E q \in 1 .. Len(received) : Announces(received, q, p) /\ Unclaimed(q)
<1>1. /\ received \in Seq(Byte) /\ buffer \in Seq(Byte)
      /\ Len(received) \in Nat /\ Len(buffer) \in Nat /\ p \in Nat /\ n \in Nat
      /\ Scanned \in Nat /\ Scanned <= Len(received)
      /\ Scanned = Len(received) - Len(buffer)
  BY ScannedBounds DEF IInv, TypeOK
<1>2. /\ SyncAt(received, p) /\ CompleteAt(received, p)
      /\ FrameSize(received, p) = n - p + 1
  BY <1>1, WholeInStream
<1>3. p + header_size - 1 <= Len(received) /\ header_size \in Nat /\ header_size >= 3
  BY <1>2, GeometryAssumption DEF CompleteAt, HeaderAt
<1>4. CASE p <= Scanned
  <2>1. PICK j \in 1 .. Len(delivered) :
          /\ Covers(delivered[j], p)
          /\ delivered[j].at = p => delivered[j].at + Len(delivered[j].bytes) - 1 = n
    BY <1>4, DecidedIsCovered
  <2> DEFINE d == delivered[j]
             q == d.at
             last == q + Len(d.bytes) - 1
  <2>2. /\ q \in Nat \ {0} /\ Len(d.bytes) \in Nat \ {0} /\ last <= Len(received)
        /\ d.bytes = SubSeq(received, q, last) /\ WholeFrame(d.bytes)
    BY DeliveredFacts
  <2>3. q <= p /\ p < q + Len(d.bytes)
    BY <2>1 DEF Covers
  <2>4. CASE q = p
    BY <2>1, <2>4
  <2>5. CASE q # p
    <3>1. WholeFrame(SubSeq(received, q, last))
      BY <2>2
    <3>2. Covers(d, q)
      BY <2>2 DEF Covers
    <3> DEFINE m == Len(d.bytes)
    <3>3. q \in Nat \ {0} /\ m \in Nat \ {0} /\ last = q + m - 1 /\ q < p /\ p < q + m
          /\ last <= Len(received)
      BY <1>1, <2>2, <2>3, <2>5
    <3> HIDE DEF d, q, last, m
    <3>4. q \in 1 .. Len(received) /\ last \in q .. Len(received) /\ last - q + 1 = m
      BY <1>1, <3>3
    <3>5. /\ SyncAt(received, q) /\ CompleteAt(received, q)
          /\ FrameSize(received, q) = last - q + 1 /\ ~OversizedAt(received, q)
      BY <1>1, <3>1, <3>4, WholeInStream
    <3>6. Announces(received, q, p)
      BY <3>3, <3>4, <3>5 DEF Announces, CompleteAt
    <3>7. Unclaimed(q)
      <4>1. SUFFICES ASSUME NEW i \in 1 .. Len(delivered), Covers(delivered[i], q)
                     PROVE  delivered[i].at = q
        BY DEF Unclaimed
      <4>2. q \in Nat /\ Covers(delivered[j], q)
        BY <3>2, <3>3 DEF d
      <4>3. i = j
        BY <4>1, <4>2, CoveredOnce
      <4>4. QED
        BY <4>3 DEF q, d
    <3>8. QED
      BY <3>4, <3>6, <3>7
  <2>6. QED
    BY <2>4, <2>5
<1>5. CASE Scanned < p
  <2> DEFINE q == Scanned + 1
             o == Scanned
  <2>1. /\ ~OversizedAt(buffer, 1) /\ ~CompleteAt(buffer, 1)
        /\ buffer[1] = sync_first /\ buffer[2] = sync_second
        /\ \A i \in 1 .. Len(buffer) : buffer[i] = received[o + i]
        /\ Len(buffer) >= header_size
    <3>1. Waiting /\ Shape
      BY DEF IInv
    <3>2. Len(buffer) >= header_size /\ o = Len(received) - Len(buffer)
      BY <1>1, <1>3, <1>5
    <3>3. QED
      BY <1>1, <1>3, <3>1, <3>2 DEF Waiting, Shape
  <2>2. /\ o \in Nat /\ o + Len(buffer) = Len(received) /\ o + Len(buffer) <= Len(received)
        /\ 1 \in 1 .. Len(buffer) /\ 2 \in 1 .. Len(buffer) /\ HeaderAt(buffer, 1)
    BY <1>1, <1>3, <2>1 DEF HeaderAt
  <2> HIDE DEF o
  <2>3. /\ LengthAt(received, o + 1) = LengthAt(buffer, 1)
        /\ FrameSize(received, o + 1) = FrameSize(buffer, 1)
    <3>1. /\ buffer \in Seq(Byte) /\ received \in Seq(Byte) /\ 1 \in 1 .. Len(buffer)
          /\ o \in Nat /\ o + Len(buffer) <= Len(received) /\ HeaderAt(buffer, 1)
          /\ \A i \in 1 .. Len(buffer) : buffer[i] = received[o + i]
      BY <1>1, <2>1, <2>2
    <3>2. QED
      BY <3>1, Embedding
  <2>4. q = o + 1 /\ q \in 1 .. Len(received) /\ q <= p
    BY <1>1, <1>5, <2>2 DEF o
  <2>5. SyncAt(received, q) /\ HeaderAt(received, q)
    <3>1. received[q] = buffer[1] /\ received[q + 1] = buffer[2]
      <4>1. q = o + 1 /\ q + 1 = o + 2
        BY <2>2, <2>4
      <4>2. received[o + 1] = buffer[1] /\ received[o + 2] = buffer[2]
        BY <2>1, <2>2
      <4>3. QED
        BY <4>1, <4>2
    <3>2. q + header_size - 1 <= Len(received) /\ q + 1 <= Len(received)
      BY <1>1, <1>3, <2>1, <2>2, <2>4
    <3>3. QED
      BY <2>1, <3>1, <3>2 DEF SyncAt, HeaderAt
  <2>6. ~OversizedAt(received, q)
    BY <2>1, <2>2, <2>3, <2>4 DEF OversizedAt
  <2>7. FrameSize(buffer, 1) \in Nat /\ LengthAt(buffer, 1) \in Nat
    BY <1>1, <2>2, LengthNat
  <2>8. FrameSize(buffer, 1) > Len(buffer)
    BY <1>1, <2>1, <2>2, <2>7, GeometryAssumption DEF OversizedAt, CompleteAt
  <2>9. q + FrameSize(received, q) - 1 > Len(received)
    BY <1>1, <2>2, <2>3, <2>4, <2>7, <2>8
  <2>10. q # p
    <3>1. SUFFICES ASSUME q = p PROVE FALSE
      OBVIOUS
    <3>2. p + FrameSize(received, p) - 1 = n /\ n <= Len(received)
      BY <1>1, <1>2
    <3>3. FrameSize(received, p) \in Nat
      BY <2>3, <2>4, <2>7, <3>1
    <3> HIDE DEF q
    <3> DEFINE size == FrameSize(received, p)
               all == Len(received)
    <3>4. p + size - 1 > all
      BY <2>9, <3>1
    <3>5. p + size - 1 = n /\ n <= all /\ size \in Nat /\ all \in Nat /\ p \in Nat /\ n \in Nat
      BY <1>1, <3>2, <3>3
    <3> HIDE DEF size, all
    <3>6. QED
      BY <3>4, <3>5
  <2>11. Announces(received, q, p)
    <3>1. FrameSize(received, q) \in Nat
      BY <2>3, <2>4, <2>7
    <3> HIDE DEF q
    <3>2. q < p /\ p < q + FrameSize(received, q)
      BY <1>1, <2>4, <2>9, <2>10, <3>1
    <3>3. QED
      BY <2>5, <2>6, <3>2 DEF Announces
  <2>12. Unclaimed(q)
    <3>1. SUFFICES ASSUME NEW i \in 1 .. Len(delivered), Covers(delivered[i], q)
                   PROVE  FALSE
      BY DEF Unclaimed
    <3> DEFINE a == delivered[i].at
               l == Len(delivered[i].bytes)
    <3>2. a \in Nat /\ l \in Nat /\ a + l - 1 <= Scanned /\ q < a + l
      BY <3>1, DeliveredFacts DEF Covers
    <3> HIDE DEF a, l
    <3>3. QED
      BY <1>1, <3>2
  <2>13. QED
    BY <2>4, <2>11, <2>12
<1>6. QED
  BY <1>1, <1>4, <1>5

Handed(p, n) ==
  \E j \in 1 .. Len(delivered) :
    delivered[j].at = p /\ delivered[j].at + Len(delivered[j].bytes) - 1 = n

HandedOrHidden ==
  pc = "push" =>
    \A p \in 1 .. Len(received) : \A n \in p .. Len(received) :
      WholeFrame(SubSeq(received, p, n)) =>
        \/ Handed(p, n)
        \/ \E q \in 1 .. Len(received) : Announces(received, q, p) /\ Unclaimed(q)

(* Every frame handed over is a whole one.                                 *)
THEOREM FramesWhole == Spec => [](IInv /\ Framed)
<1>1. Init => Framed
  BY DEF Init, Framed
<1>2. IInv /\ Framed /\ [Next]_vars => Framed'
  BY NextFramed
<1>3. QED
  BY <1>1, <1>2, Invariance, PTL DEF Spec

(* Between two bytes every whole frame of the stream has been handed over, *)
(* as itself, unless a header in front of it announces a frame that        *)
(* reaches into it: BoundedDelay says how long that can last, this says    *)
(* what alone can cause it.                                                *)
THEOREM HiddenByHeadersOnly == Spec => []HandedOrHidden
<1>1. IInv /\ Framed => HandedOrHidden
  BY OnlyHeadersHide DEF HandedOrHidden, Handed
<1>2. QED
  BY <1>1, FramesWhole, PTL
=============================================================================
