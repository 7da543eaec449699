------------------------ MODULE ReaderThreadsProofs ------------------------
(***************************************************************************)
(* Proofs about imu_reader: the two threads never work on dataBuffer at    *)
(* the same time, whatever arrives and wherever they are preempted; and    *)
(* what the program makes of its bytes, on either kind of char.            *)
(***************************************************************************)
EXTENDS ReaderThreads, ImuPacketProofs, SequenceTheorems

(* The mutex knows who is in dataBuffer.                                   *)
LockInv ==
  /\ receiver = "insert" <=> mutex = "receiver"
  /\ broadcaster = "parse" <=> mutex = "broadcaster"

(* Mutual exclusion on dataBuffer: insert() in receive() and the copying   *)
(* and erasing of parse() exclude each other (imu_reader.cpp:44, 81).      *)
THEOREM DataBufferNotRaced == Spec => []NoRace
<1>1. Init => LockInv
  BY DEF Init, LockInv
<1>2. LockInv /\ [Next]_vars => LockInv'
  <2> SUFFICES ASSUME LockInv, [Next]_vars PROVE LockInv'
    OBVIOUS
  <2> USE DEF LockInv
  <2>1. CASE Transmit
    BY <2>1 DEF Transmit, receiverVars, broadcasterVars
  <2>2. CASE \E n \in ReadSizes : Read(n)
    BY <2>2 DEF Read, broadcasterVars
  <2>3. CASE ReadNothing
    BY <2>3 DEF ReadNothing, vars
  <2>4. CASE ReceiverLocks
    BY <2>4 DEF ReceiverLocks, broadcasterVars
  <2>5. CASE Insert
    BY <2>5 DEF Insert, broadcasterVars
  <2>6. CASE BroadcasterLocks
    BY <2>6 DEF BroadcasterLocks, receiverVars
  <2>7. CASE Parse
    BY <2>7 DEF Parse, receiverVars
  <2>8. CASE Send
    BY <2>8 DEF Send, receiverVars
  <2>9. CASE UNCHANGED vars
    BY <2>9 DEF vars
  <2> QED
    BY <2>1, <2>2, <2>3, <2>4, <2>5, <2>6, <2>7, <2>8, <2>9 DEF Next
<1>3. LockInv => NoRace
  BY DEF LockInv, NoRace
<1> QED
  BY <1>1, <1>2, <1>3, PTL DEF Spec
-----------------------------------------------------------------------------
(* What findHeader makes of a vector of char.                              *)

LEMMA CharsTyped ==
  ASSUME dataBuffer \in Seq(Byte), charSigned \in BOOLEAN
  PROVE  /\ DOMAIN Chars = 1 .. Len(dataBuffer)
         /\ Len(Chars) = Len(dataBuffer)
         /\ ~ charSigned => Chars = dataBuffer
<1>1. DOMAIN dataBuffer = 1 .. Len(dataBuffer) /\ Len(dataBuffer) \in Nat
  OBVIOUS
<1>2. DOMAIN Chars = 1 .. Len(dataBuffer)
  BY <1>1 DEF Chars
<1>3. \A b : b \in Byte => b \in Int /\ b - 256 \in Int
  BY DEF Byte
<1>4. \A i \in 1 .. Len(dataBuffer) : dataBuffer[i] \in Byte
  BY <1>1
<1>5. Chars \in [1 .. Len(dataBuffer) -> Int]
  BY <1>1, <1>3, <1>4, Zenon DEF Chars
<1>6. Len(Chars) = Len(dataBuffer)
  BY <1>1, <1>5
<1>7. ASSUME ~ charSigned PROVE Chars = dataBuffer
  <2>1. \A i \in 1 .. Len(dataBuffer) : Chars[i] = dataBuffer[i]
    BY <1>1, <1>7, Zenon DEF Chars
  <2>2. dataBuffer \in [1 .. Len(dataBuffer) -> Byte]
    OBVIOUS
  <2> QED
    BY <1>5, <2>1, <2>2
<1> QED
  BY <1>2, <1>6, <1>7

(* Where char is signed no index holds a header: its second byte is 0xF0.  *)
LEMMA SignedFindsNothing ==
  ASSUME dataBuffer \in Seq(Byte), charSigned \in BOOLEAN, charSigned
  PROVE  FindHeader(Chars, 0) = [found |-> FALSE, position |-> 0]
<1>1. Len(Chars) = Len(dataBuffer) /\ DOMAIN dataBuffer = 1 .. Len(dataBuffer)
      /\ Len(dataBuffer) \in Nat
  BY CharsTyped
<1>2. \A b : b \in Byte => (IF b > 127 THEN b - 256 ELSE b) # HEADER2
  BY DEF Byte, HEADER2
<1>3. \A i \in 1 .. Len(dataBuffer) : dataBuffer[i] \in Byte
  BY <1>1
<1>4. \A i \in 1 .. Len(dataBuffer) : Chars[i] # HEADER2
  <2>1. ASSUME NEW i \in 1 .. Len(dataBuffer) PROVE Chars[i] # HEADER2
    <3>1. Chars[i] = IF dataBuffer[i] > 127 THEN dataBuffer[i] - 256 ELSE dataBuffer[i]
      BY <1>1, Zenon DEF Chars
    <3> QED
      BY <1>2, <1>3, <3>1, Zenon
  <2> QED
    BY <2>1
<1>5. ASSUME NEW i \in HeaderIndices(Chars) PROVE FALSE
  <2>1. i \in 0 .. Len(dataBuffer) - HEADER_SIZE - 1 /\ HeaderAt(Chars, i)
    BY <1>1 DEF HeaderIndices
  <2>2. i + 2 \in 1 .. Len(dataBuffer)
    BY <1>1, <2>1 DEF HEADER_SIZE
  <2> QED
    BY <1>4, <2>1, <2>2, Zenon DEF HeaderAt
<1>6. HeaderIndices(Chars) = {}
  BY <1>5
<1> QED
  BY <1>6 DEF FindHeader

-----------------------------------------------------------------------------
(* Sequences joined and cut.                                               *)

LEMMA JoinFacts ==
  ASSUME NEW S, NEW a \in Seq(S), NEW c \in Seq(S)
  PROVE  /\ a \o c \in Seq(S)
         /\ Len(a) \in Nat /\ Len(c) \in Nat
         /\ Len(a \o c) = Len(a) + Len(c)
         /\ \A i \in 1 .. Len(a) : (a \o c)[i] = a[i]
         /\ \A i \in 1 .. Len(c) : (a \o c)[Len(a) + i] = c[i]
  OBVIOUS

LEMMA JoinAssociative ==
  ASSUME NEW S
  PROVE  \A a, b, c \in Seq(S) : (a \o b) \o c = a \o (b \o c)
  OBVIOUS

LEMMA CutFacts ==
  ASSUME NEW S, NEW a \in Seq(S), NEW n \in Nat, n <= Len(a)
  PROVE  /\ SubSeq(a, 1, n) \in Seq(S)
         /\ SubSeq(a, n + 1, Len(a)) \in Seq(S)
         /\ Len(SubSeq(a, 1, n)) = n
         /\ Len(SubSeq(a, n + 1, Len(a))) = Len(a) - n
         /\ \A i \in 1 .. Len(a) - n : SubSeq(a, n + 1, Len(a))[i] = a[n + i]
  OBVIOUS

LEMMA CutAndJoin ==
  ASSUME NEW S, NEW a \in Seq(S), NEW c \in Seq(S), NEW n \in Nat, n <= Len(c)
  PROVE  (a \o SubSeq(c, 1, n)) \o SubSeq(c, n + 1, Len(c)) = a \o c
<1>1. Len(c) \in Nat
  OBVIOUS
<1>2. 1 \in 1 .. Len(c) + 1 /\ n \in 1 - 1 .. Len(c) /\ Len(c) \in n .. Len(c)
  BY <1>1
<1>3. SubSeq(c, 1, n) \o SubSeq(c, n + 1, Len(c)) = SubSeq(c, 1, Len(c))
  BY <1>2, ConcatAdjacentSubSeq, Zenon
<1>4. SubSeq(c, 1, n) \o SubSeq(c, n + 1, Len(c)) = c
  BY <1>3, SubSeqFull
<1>5. SubSeq(c, 1, n) \in Seq(S) /\ SubSeq(c, n + 1, Len(c)) \in Seq(S)
  BY CutFacts
<1>6. (a \o SubSeq(c, 1, n)) \o SubSeq(c, n + 1, Len(c))
        = a \o (SubSeq(c, 1, n) \o SubSeq(c, n + 1, Len(c)))
  <2>1. \A x, y, z \in Seq(S) : (x \o y) \o z = x \o (y \o z)
    BY JoinAssociative, SMTT(30)
  <2> QED
    BY <1>5, <2>1, Zenon
<1> QED
  BY <1>4, <1>6, Zenon

LEMMA CutOfJoin ==
  ASSUME NEW S, NEW a \in Seq(S), NEW c \in Seq(S), NEW n \in Nat, n <= Len(a)
  PROVE  SubSeq(a, n + 1, Len(a)) \o c = SubSeq(a \o c, n + 1, Len(a \o c))
<1> DEFINE rest == SubSeq(a, n + 1, Len(a))
           b == a \o c
           end == SubSeq(b, n + 1, Len(b))
<1>1. rest \in Seq(S) /\ Len(rest) = Len(a) - n /\ \A i \in 1 .. Len(a) - n : rest[i] = a[n + i]
  BY CutFacts
<1>2. /\ b \in Seq(S) /\ Len(a) \in Nat /\ Len(c) \in Nat /\ Len(b) = Len(a) + Len(c)
      /\ \A i \in 1 .. Len(a) + Len(c) : b[i] = IF i <= Len(a) THEN a[i] ELSE c[i - Len(a)]
  BY ConcatProperties
<1>3. end \in Seq(S) /\ Len(end) = Len(b) - n /\ \A i \in 1 .. Len(b) - n : end[i] = b[n + i]
  <2>1. b \in Seq(S) /\ n <= Len(b)
    BY <1>2
  <2> HIDE DEF b
  <2> QED
    BY <2>1, CutFacts
<1>4. /\ rest \o c \in Seq(S) /\ Len(rest \o c) = Len(rest) + Len(c)
      /\ \A i \in 1 .. Len(rest) + Len(c) :
           (rest \o c)[i] = IF i <= Len(rest) THEN rest[i] ELSE c[i - Len(rest)]
  BY <1>1, ConcatProperties
<1> HIDE DEF rest, b, end
<1>5. Len(rest \o c) = Len(end)
  BY <1>1, <1>2, <1>3, <1>4
<1>6. ASSUME NEW i \in 1 .. Len(rest \o c) PROVE (rest \o c)[i] = end[i]
  <2>1. i \in 1 .. Len(rest) + Len(c) /\ n + i \in 1 .. Len(a) + Len(c) /\ i \in 1 .. Len(b) - n
    BY <1>1, <1>2, <1>3, <1>4
  <2>2. end[i] = IF n + i <= Len(a) THEN a[n + i] ELSE c[n + i - Len(a)]
    BY <1>2, <1>3, <2>1
  <2>3. (rest \o c)[i] = IF i <= Len(a) - n THEN rest[i] ELSE c[i - (Len(a) - n)]
    BY <1>1, <1>4, <2>1
  <2>4. CASE i <= Len(a) - n
    BY <1>1, <1>2, <2>1, <2>2, <2>3, <2>4
  <2>5. CASE ~ (i <= Len(a) - n)
    <3>1. ~ (n + i <= Len(a)) /\ n + i - Len(a) = i - (Len(a) - n)
      BY <1>2, <2>1, <2>5
    <3> QED
      BY <2>2, <2>3, <2>5, <3>1
  <2> QED
    BY <2>4, <2>5
<1>7. rest \o c = end
  BY <1>3, <1>4, <1>5, <1>6, SeqEqual
<1> QED
  BY <1>7 DEF rest, b, end

(* What is joined to a sequence does not change the headers in it.         *)
LEMMA HeaderInFront ==
  ASSUME NEW a \in Seq(Byte), NEW c \in Seq(Byte), NEW k \in Nat, k + HEADER_SIZE <= Len(a)
  PROVE  HeaderAt(a \o c, k) <=> HeaderAt(a, k)
<1>1. \A i \in 1 .. Len(a) : (a \o c)[i] = a[i]
  BY JoinFacts
<1>2. /\ k + 1 \in 1 .. Len(a) /\ k + 2 \in 1 .. Len(a)
      /\ k + 3 \in 1 .. Len(a) /\ k + 4 \in 1 .. Len(a)
  BY JoinFacts DEF HEADER_SIZE
<1> QED
  BY <1>1, <1>2, Zenon DEF HeaderAt

(* Nor does what is cut off in front of them.                              *)
LEMMA HeaderBehind ==
  ASSUME NEW a \in Seq(Byte), NEW n \in Nat, NEW k \in Nat, n <= k, k + HEADER_SIZE <= Len(a)
  PROVE  HeaderAt(SubSeq(a, n + 1, Len(a)), k - n) <=> HeaderAt(a, k)
<1> DEFINE rest == SubSeq(a, n + 1, Len(a))
<1>1. \A i \in 1 .. Len(a) - n : rest[i] = a[n + i]
  BY CutFacts DEF HEADER_SIZE
<1>2. /\ k - n + 1 \in 1 .. Len(a) - n /\ k - n + 2 \in 1 .. Len(a) - n
      /\ k - n + 3 \in 1 .. Len(a) - n /\ k - n + 4 \in 1 .. Len(a) - n
  BY JoinFacts DEF HEADER_SIZE
<1>3. /\ n + (k - n + 1) = k + 1 /\ n + (k - n + 2) = k + 2
      /\ n + (k - n + 3) = k + 3 /\ n + (k - n + 4) = k + 4
  OBVIOUS
<1> HIDE DEF rest
<1>4. /\ rest[k - n + 1] = a[k + 1] /\ rest[k - n + 2] = a[k + 2]
      /\ rest[k - n + 3] = a[k + 3] /\ rest[k - n + 4] = a[k + 4]
  BY <1>1, <1>2, <1>3
<1> USE DEF rest
<1> QED
  BY <1>4, Zenon DEF HeaderAt

(* A header joined to a sequence.                                          *)
LEMMA HeaderJoined ==
  ASSUME NEW a \in Seq(Byte), NEW c \in Seq(Byte), HEADER_SIZE <= Len(c)
  PROVE  HeaderAt(a \o c, Len(a)) <=> HeaderAt(c, 0)
<1>1. \A i \in 1 .. Len(c) : (a \o c)[Len(a) + i] = c[i]
  BY JoinFacts
<1>2. 1 \in 1 .. Len(c) /\ 2 \in 1 .. Len(c) /\ 3 \in 1 .. Len(c) /\ 4 \in 1 .. Len(c)
  BY JoinFacts DEF HEADER_SIZE
<1>3. 0 + 1 = 1 /\ 0 + 2 = 2 /\ 0 + 3 = 3 /\ 0 + 4 = 4
  OBVIOUS
<1> QED
  BY <1>1, <1>2, <1>3, Zenon DEF HeaderAt
-----------------------------------------------------------------------------
(* In bytes that hold a header at k or end there, the first header found   *)
(* in any beginning of them is no farther, and its index does not wrap.    *)
LEMMA HeaderNear ==
  ASSUME NEW b \in Seq(Byte), NEW c \in Seq(Byte), NEW k \in 0..PACKET_SIZE,
         \/ k = Len(b \o c)
         \/ k + PACKET_SIZE <= Len(b \o c) /\ HeaderAt(b \o c, k),
         HeaderIndices(b) # {}
  PROVE  \E m \in HeaderIndices(b) :
           /\ m <= k
           /\ FindHeader(b, 0) = [found |-> TRUE, position |-> m]
           /\ \A i \in HeaderIndices(b) : m <= i
<1> DEFINE m == Min(HeaderIndices(b))
<1>1. HeaderIndices(b) \in SUBSET Nat
  BY DEF HeaderIndices
<1>2. m \in HeaderIndices(b) /\ \A i \in HeaderIndices(b) : m <= i
  BY <1>1, MinOfNats
<1>3. Len(b) \in Nat /\ Len(c) \in Nat /\ Len(b \o c) = Len(b) + Len(c)
  OBVIOUS
<1>4. m \in 0 .. Len(b) - HEADER_SIZE - 1
  BY <1>2 DEF HeaderIndices
<1>5. m <= k
  <2>1. CASE k > Len(b) - HEADER_SIZE - 1
    BY <1>3, <1>4, <2>1 DEF HEADER_SIZE, PACKET_SIZE
  <2>2. CASE k <= Len(b) - HEADER_SIZE - 1
    <3>1. k # Len(b \o c) /\ k \in 0 .. Len(b) - HEADER_SIZE - 1
      BY <1>3, <2>2 DEF HEADER_SIZE, PACKET_SIZE
    <3>2. HeaderAt(b \o c, k)
      BY <3>1
    <3>3. k \in Nat /\ k + HEADER_SIZE <= Len(b)
      BY <1>3, <3>1 DEF HEADER_SIZE
    <3>4. HeaderAt(b, k)
      BY <3>2, <3>3, HeaderInFront
    <3>5. k \in HeaderIndices(b)
      BY <3>1, <3>4 DEF HeaderIndices
    <3> QED
      BY <1>2, <3>5
  <2> QED
    BY <1>3, <2>1, <2>2 DEF HEADER_SIZE, PACKET_SIZE
<1>6. m % POSITION_RANGE = m
  <2> HIDE DEF m
  <2>1. m \in Nat
    BY <1>1, <1>2
  <2>2. m <= 20
    BY <1>5, <2>1 DEF PACKET_SIZE
  <2> QED
    BY <2>1, <2>2 DEF POSITION_RANGE
<1>7. FindHeader(b, 0) = [found |-> TRUE, position |-> m]
  BY <1>6 DEF FindHeader
<1> QED
  BY <1>2, <1>5, <1>7

(* The same bytes at the beginning of a buffer are the same packet.        *)
SameFrame(a, i, b) == \A m \in 1..20 : a[i + m] = b[m]

LEMMA PacketMoved ==
  ASSUME NEW a, NEW b, NEW i \in Nat, SameFrame(a, i, b)
  PROVE  PacketAt(a, i, FALSE) = PacketAt(b, 0, FALSE)
<1>1. ASSUME NEW o \in {4, 8, 12, 16}, NEW r \in {1, 2, 3, 4}
      PROVE  a[i + o + r] = b[0 + o + r]
  <2>1. o + r \in 1..20 /\ i + o + r = i + (o + r) /\ 0 + o + r = o + r
    OBVIOUS
  <2> QED
    BY <2>1 DEF SameFrame
<1>2. /\ 1 \in {1, 2, 3, 4} /\ 2 \in {1, 2, 3, 4} /\ 3 \in {1, 2, 3, 4} /\ 4 \in {1, 2, 3, 4}
      /\ 4 \in {4, 8, 12, 16} /\ 8 \in {4, 8, 12, 16}
      /\ 12 \in {4, 8, 12, 16} /\ 16 \in {4, 8, 12, 16}
  OBVIOUS
<1>3. ASSUME NEW o \in {4, 8, 12, 16} PROVE Field(a, i + o, FALSE) = Field(b, 0 + o, FALSE)
  BY <1>1, <1>2, Zenon DEF Field
<1> QED
  BY <1>2, <1>3, Zenon DEF PacketAt

(* Four bytes of a buffer are a word, and a packet is four words.          *)
LEMMA PacketAtTyped ==
  ASSUME NEW b \in Seq(Byte), NEW i \in Nat, i + PACKET_SIZE <= Len(b)
  PROVE  PacketAt(b, i, FALSE) \in ParsedPacket
<1>1. ASSUME NEW o \in {4, 8, 12, 16} PROVE Field(b, i + o, FALSE) \in Word
  <2>1. Len(b) \in Nat /\ \A j \in 1 .. Len(b) : b[j] \in Byte
    OBVIOUS
  <2>2. /\ i + o + 1 \in 1 .. Len(b) /\ i + o + 2 \in 1 .. Len(b)
        /\ i + o + 3 \in 1 .. Len(b) /\ i + o + 4 \in 1 .. Len(b)
    BY <2>1 DEF PACKET_SIZE
  <2>3. b[i + o + 1] \in Byte /\ b[i + o + 2] \in Byte /\ b[i + o + 3] \in Byte /\ b[i + o + 4] \in Byte
    BY <2>1, <2>2, Zenon
  <2> QED
    BY <2>3 DEF Field, Word
<1>2. 4 \in {4, 8, 12, 16} /\ 8 \in {4, 8, 12, 16} /\ 12 \in {4, 8, 12, 16} /\ 16 \in {4, 8, 12, 16}
  OBVIOUS
<1>3. /\ Field(b, i + 4, FALSE) \in Word
      /\ Field(b, i + 8, FALSE) \in Word
      /\ Field(b, i + 12, FALSE) \in Word
      /\ Field(b, i + 16, FALSE) \in Word
  BY <1>1, <1>2, Zenon
<1> QED
  BY <1>3 DEF PacketAt, ParsedPacket
-----------------------------------------------------------------------------
(* What parse() does.                                                      *)

(* It copies only where char is unsigned; what it erases is what precedes  *)
(* the first header, at most PACKET_SIZE bytes and less than there are.    *)
LEMMA ParseFinds ==
  ASSUME TypeOK, FrameNear
  PROVE  LET header == FindHeader(Chars, 0)
         IN  \/ header = [found |-> FALSE, position |-> 0]
             \/ /\ ~ charSigned
                /\ header.found
                /\ header.position \in HeaderIndices(dataBuffer)
                /\ \A i \in HeaderIndices(dataBuffer) : header.position <= i
                /\ \E k \in 0..PACKET_SIZE :
                     /\ header.position <= k
                     /\ \/ k = Len(Unparsed)
                        \/ k + PACKET_SIZE <= Len(Unparsed) /\ HeaderAt(Unparsed, k)
<1>1. dataBuffer \in Seq(Byte) /\ charSigned \in BOOLEAN
  BY DEF TypeOK
<1>2. CASE charSigned
  BY <1>1, <1>2, SignedFindsNothing, Zenon
<1>3. CASE ~ charSigned /\ HeaderIndices(dataBuffer) = {}
  BY <1>1, <1>3, CharsTyped, Zenon DEF FindHeader
<1>4. CASE ~ charSigned /\ HeaderIndices(dataBuffer) # {}
  <2>1. Chars = dataBuffer
    BY <1>1, <1>4, CharsTyped, Zenon
  <2>2. PICK k \in 0..PACKET_SIZE :
          \/ k = Len(Unparsed)
          \/ k + PACKET_SIZE <= Len(Unparsed) /\ HeaderAt(Unparsed, k)
    BY Zenon DEF FrameNear
  <2>3. staging \o line \in Seq(Byte) /\ Unparsed = dataBuffer \o (staging \o line)
    BY SMTT(30) DEF TypeOK, Unparsed
  <2>4. PICK m \in HeaderIndices(dataBuffer) :
          /\ m <= k
          /\ FindHeader(dataBuffer, 0) = [found |-> TRUE, position |-> m]
          /\ \A i \in HeaderIndices(dataBuffer) : m <= i
    BY <1>1, <1>4, <2>2, <2>3, HeaderNear, Zenon
  <2> QED
    BY <1>4, <2>1, <2>2, <2>4
<1> QED
  BY <1>1, <1>2, <1>3, <1>4, Zenon

LEMMA InitEstablishes == Init => ReaderInv
<1> SUFFICES ASSUME Init PROVE ReaderInv
  OBVIOUS
<1>1. PICK p \in Packets, j \in JoinOffsets :
        /\ sent = <<p>>
        /\ line = SubSeq(Encode(p), j + 1, PACKET_SIZE)
  BY DEF Init
<1>2. p \in ParsedPacket /\ j \in 0..PACKET_SIZE
  BY ReaderAssumption
<1>3. Encode(p) \in Seq(Byte) /\ Len(Encode(p)) = PACKET_SIZE
  BY <1>2, EncodeFrame
<1>4. line \in Seq(Byte) /\ Len(line) = PACKET_SIZE - j
  <2>1. j \in Nat /\ j <= PACKET_SIZE
    BY <1>2 DEF PACKET_SIZE
  <2> QED
    BY <1>1, <1>3, <2>1, CutFacts
<1>5. dataBuffer = <<>> /\ staging = <<>> /\ <<>> \in Seq(Byte)
  BY DEF Init
<1>6. Unparsed = line /\ dataBuffer \o staging \o line = line
  BY <1>4, <1>5 DEF Unparsed
<1>7. TypeOK
  <2>1. charSigned \in BOOLEAN /\ packet \in ParsedPacket
    BY ReaderAssumption DEF Init
  <2>2. sent \in Seq(Packets)
    BY <1>1
  <2> QED
    BY <1>4, <1>5, <2>1, <2>2 DEF Init, TypeOK
<1>8. FrameNear
  <2>1. PACKET_SIZE - j \in 0..PACKET_SIZE
    BY <1>2 DEF PACKET_SIZE
  <2> QED
    BY <1>4, <1>6, <2>1 DEF FrameNear
<1>9. FirstFrame /\ NothingStaged
  BY DEF Init, FirstFrame, NothingStaged
<1>10. NothingParsed
  <2>1. Len(sent) = 1
    BY <1>1
  <2>2. PACKET_SIZE * Len(sent) - Len(line) = j
    BY <1>2, <1>4, <2>1 DEF PACKET_SIZE
  <2> QED
    BY <1>6, <2>2 DEF Init, NothingParsed
<1> QED
  BY <1>7, <1>8, <1>9, <1>10 DEF ReaderInv

(* A step that leaves the bytes in order, and dataBuffer and the copied    *)
(* packet alone.                                                           *)
LEMMA SameBytes ==
  ASSUME ReaderInv, TypeOK', NothingStaged', Unparsed' = Unparsed,
         UNCHANGED <<charSigned, sent, dataBuffer, packet, copied>>
  PROVE  ReaderInv'
<1>1. FrameNear'
  BY DEF ReaderInv, FrameNear
<1>2. FirstFrame'
  BY DEF ReaderInv, FirstFrame, Chars
<1>3. NothingParsed'
  BY DEF ReaderInv, NothingParsed, Unparsed
<1> QED
  BY <1>1, <1>2, <1>3 DEF ReaderInv

LEMMA TransmitStep ==
  ASSUME ReaderInv, Transmit
  PROVE  ReaderInv'
<1>1. PICK p \in Packets : sent' = Append(sent, p) /\ line' = line \o Encode(p)
  BY DEF Transmit
<1>2. UNCHANGED <<charSigned, receiver, staging, dataBuffer, mutex, broadcaster, packet, copied>>
  BY DEF Transmit, receiverVars, broadcasterVars
<1>3. /\ sent \in Seq(Packets) /\ line \in Seq(Byte)
      /\ staging \in Seq(Byte) /\ dataBuffer \in Seq(Byte)
  BY DEF ReaderInv, TypeOK
<1>4. Encode(p) \in Seq(Byte) /\ Len(Encode(p)) = PACKET_SIZE /\ HeaderAt(Encode(p), 0)
  BY EncodeFrame, ReaderAssumption
<1>5. TypeOK'
  <2>1. sent' \in Seq(Packets) /\ line' \in Seq(Byte)
    BY <1>1, <1>3, <1>4
  <2> QED
    BY <1>2, <2>1 DEF ReaderInv, TypeOK
<1>6. Unparsed \in Seq(Byte) /\ Unparsed' = Unparsed \o Encode(p)
  <2>1. \A a, b \in Seq(Byte) : a \o (b \o Encode(p)) = (a \o b) \o Encode(p) /\ a \o b \in Seq(Byte)
    BY <1>4
  <2>2. dataBuffer \o staging \in Seq(Byte)
    BY <1>3
  <2> QED
    BY <1>1, <1>2, <1>3, <2>1, <2>2, Zenon DEF Unparsed
<1>7. Len(Unparsed') = Len(Unparsed) + PACKET_SIZE /\ Len(Unparsed) \in Nat
  BY <1>4, <1>6, JoinFacts
<1>8. FrameNear'
  <2>1. PICK k \in 0..PACKET_SIZE :
          \/ k = Len(Unparsed)
          \/ k + PACKET_SIZE <= Len(Unparsed) /\ HeaderAt(Unparsed, k)
    BY DEF ReaderInv, FrameNear
  <2>2. CASE k = Len(Unparsed)
    <3>1. HeaderAt(Unparsed', k)
      <4>1. HEADER_SIZE <= Len(Encode(p))
        BY <1>4 DEF HEADER_SIZE, PACKET_SIZE
      <4>2. HeaderAt(Unparsed \o Encode(p), Len(Unparsed))
        BY <1>4, <1>6, <4>1, HeaderJoined
      <4> QED
        BY <1>6, <2>2, <4>2
    <3>2. k + PACKET_SIZE <= Len(Unparsed')
      BY <1>7, <2>2 DEF PACKET_SIZE
    <3> QED
      BY <3>1, <3>2 DEF FrameNear
  <2>3. CASE k + PACKET_SIZE <= Len(Unparsed) /\ HeaderAt(Unparsed, k)
    <3>1. k \in Nat /\ k + HEADER_SIZE <= Len(Unparsed)
      BY <1>7, <2>3 DEF HEADER_SIZE, PACKET_SIZE
    <3>2. HeaderAt(Unparsed', k)
      BY <1>4, <1>6, <2>3, <3>1, HeaderInFront
    <3>3. k + PACKET_SIZE <= Len(Unparsed')
      BY <1>7, <2>3 DEF PACKET_SIZE
    <3> QED
      BY <3>2, <3>3 DEF FrameNear
  <2> QED
    BY <2>1, <2>2, <2>3
<1>9. FirstFrame' /\ NothingStaged'
  BY <1>2 DEF ReaderInv, FirstFrame, NothingStaged, Chars
<1>10. NothingParsed'
  <2>1. Len(sent') = Len(sent) + 1 /\ Len(sent) \in Nat
    BY <1>1, <1>3
  <2>2. PACKET_SIZE * Len(sent') - Len(Unparsed') = PACKET_SIZE * Len(sent) - Len(Unparsed)
    BY <1>7, <2>1 DEF PACKET_SIZE
  <2> QED
    BY <1>2, <2>2, Zenon DEF ReaderInv, NothingParsed, Unparsed
<1> QED
  BY <1>5, <1>8, <1>9, <1>10 DEF ReaderInv

LEMMA ReadStep ==
  ASSUME ReaderInv, NEW n \in ReadSizes, Read(n)
  PROVE  ReaderInv'
<1>1. /\ line \in Seq(Byte) /\ dataBuffer \in Seq(Byte) /\ <<>> \in Seq(Byte)
      /\ n \in Nat /\ n <= Len(line)
  BY ReaderAssumption DEF ReaderInv, TypeOK, Read
<1>2. /\ staging' = SubSeq(line, 1, n) /\ line' = SubSeq(line, n + 1, Len(line))
      /\ staging = <<>> /\ receiver' = "lock"
      /\ UNCHANGED <<charSigned, sent, dataBuffer, mutex, broadcaster, packet, copied>>
  BY DEF Read, ReaderInv, NothingStaged, broadcasterVars
<1>3. TypeOK'
  <2>1. staging' \in Seq(Byte) /\ line' \in Seq(Byte)
    BY <1>1, <1>2, CutFacts
  <2> QED
    BY <1>2, <2>1 DEF ReaderInv, TypeOK
<1>4. Unparsed' = Unparsed
  <2>1. dataBuffer \o <<>> = dataBuffer
    BY <1>1
  <2>2. (dataBuffer \o SubSeq(line, 1, n)) \o SubSeq(line, n + 1, Len(line)) = dataBuffer \o line
    BY <1>1, CutAndJoin, Zenon
  <2> QED
    BY <1>2, <2>1, <2>2, Zenon DEF Unparsed
<1>5. NothingStaged'
  BY <1>2 DEF NothingStaged
<1> QED
  BY <1>2, <1>3, <1>4, <1>5, SameBytes

LEMMA InsertStep ==
  ASSUME ReaderInv, Insert
  PROVE  ReaderInv'
<1>1. /\ line \in Seq(Byte) /\ staging \in Seq(Byte) /\ dataBuffer \in Seq(Byte)
  BY DEF ReaderInv, TypeOK
<1>2. /\ dataBuffer' = dataBuffer \o staging /\ staging' = <<>>
      /\ receiver' = "read" /\ mutex' = "free"
      /\ UNCHANGED <<charSigned, sent, line, broadcaster, packet, copied>>
  BY DEF Insert, lineVars, broadcasterVars
<1>3. TypeOK' /\ NothingStaged'
  <2>1. dataBuffer' \in Seq(Byte) /\ staging' \in Seq(Byte)
    BY <1>1, <1>2
  <2> QED
    BY <1>2, <2>1 DEF ReaderInv, TypeOK, NothingStaged
<1>4. Unparsed' = Unparsed
  <2>1. (dataBuffer \o staging) \o <<>> = dataBuffer \o staging
    BY <1>1
  <2> QED
    BY <1>2, <2>1, Zenon DEF Unparsed
<1>5. FrameNear'
  BY <1>4 DEF ReaderInv, FrameNear
<1>6. FirstFrame'
  <2> SUFFICES ASSUME copied PROVE FirstFrame'
    BY <1>2 DEF FirstFrame
  <2>1. /\ PACKET_SIZE <= Len(dataBuffer) /\ HeaderAt(Chars, 0)
        /\ packet = PacketAt(dataBuffer, 0, FALSE)
    BY DEF ReaderInv, FirstFrame
  <2>2. \A i \in 1 .. Len(dataBuffer) : dataBuffer'[i] = dataBuffer[i]
    BY <1>1, <1>2, JoinFacts
  <2>3. PACKET_SIZE <= Len(dataBuffer')
    BY <1>1, <1>2, <2>1, JoinFacts DEF PACKET_SIZE
  <2>4. Len(dataBuffer) \in Nat /\ \A i \in 1..20 : i \in 1 .. Len(dataBuffer)
    BY <1>1, <2>1, JoinFacts DEF PACKET_SIZE
  <2>5. packet' = PacketAt(dataBuffer', 0, FALSE)
    <3>1. SameFrame(dataBuffer', 0, dataBuffer)
      <4>1. \A m \in 1..20 : 0 + m = m
        OBVIOUS
      <4> QED
        BY <2>2, <2>4, <4>1, Zenon DEF SameFrame
    <3>2. PacketAt(dataBuffer', 0, FALSE) = PacketAt(dataBuffer, 0, FALSE)
      <4>1. 0 \in Nat
        OBVIOUS
      <4> QED
        BY <3>1, <4>1, PacketMoved, Zenon
    <3> QED
      BY <1>2, <2>1, <3>2
  <2>6. HeaderAt(Chars, 0)'
    <3>1. DOMAIN dataBuffer = 1 .. Len(dataBuffer) /\ DOMAIN dataBuffer' = 1 .. Len(dataBuffer')
          /\ Len(dataBuffer') \in Nat
      BY <1>1, <1>2, LenProperties, JoinFacts
    <3>2. ASSUME NEW i \in {1, 2, 3, 4} PROVE Chars'[i] = Chars[i]
      <4>1. i \in 1 .. Len(dataBuffer) /\ i \in 1 .. Len(dataBuffer')
        BY <2>1, <2>3, <2>4, <3>1, SMTT(30) DEF PACKET_SIZE
      <4>2. dataBuffer'[i] = dataBuffer[i]
        BY <2>2, <4>1
      <4> QED
        BY <1>2, <3>1, <4>1, <4>2, Zenon DEF Chars
    <3>3. /\ 0 + 1 = 1 /\ 0 + 2 = 2 /\ 0 + 3 = 3 /\ 0 + 4 = 4
          /\ 1 \in {1, 2, 3, 4} /\ 2 \in {1, 2, 3, 4} /\ 3 \in {1, 2, 3, 4} /\ 4 \in {1, 2, 3, 4}
      OBVIOUS
    <3> QED
      BY <2>1, <3>2, <3>3, Zenon DEF HeaderAt
  <2> QED
    BY <2>3, <2>5, <2>6 DEF FirstFrame
<1>7. NothingParsed'
  BY <1>2, <1>4, Zenon DEF ReaderInv, NothingParsed, Unparsed
<1> QED
  BY <1>3, <1>5, <1>6, <1>7 DEF ReaderInv

(* The bytes parse() leaves, whatever position it finds.                   *)
LEMMA ParseCuts ==
  ASSUME TypeOK, Parse, NEW pos, pos = FindHeader(Chars, 0).position,
         pos = 0 \/ pos \in HeaderIndices(dataBuffer)
  PROVE  /\ pos \in Nat /\ pos <= Len(dataBuffer) /\ Len(dataBuffer) \in Nat
         /\ dataBuffer' \in Seq(Byte) /\ Len(dataBuffer') = Len(dataBuffer) - pos
         /\ Unparsed \in Seq(Byte) /\ Len(Unparsed) \in Nat /\ pos <= Len(Unparsed)
         /\ Unparsed' = SubSeq(Unparsed, pos + 1, Len(Unparsed))
         /\ Len(Unparsed') = Len(Unparsed) - pos
         /\ Len(dataBuffer) <= Len(Unparsed)
         /\ \A i \in 1 .. Len(dataBuffer) : Unparsed[i] = dataBuffer[i]
<1> DEFINE rest == staging \o line
<1>1. /\ line \in Seq(Byte) /\ staging \in Seq(Byte) /\ dataBuffer \in Seq(Byte)
      /\ rest \in Seq(Byte)
  BY DEF TypeOK
<1>2. /\ dataBuffer' = SubSeq(dataBuffer, pos + 1, Len(dataBuffer))
      /\ UNCHANGED <<line, staging>>
  BY DEF Parse, lineVars, receiverVars
<1>3. pos = 0 \/ pos \in HeaderIndices(dataBuffer)
  OBVIOUS
<1>4. pos \in Nat /\ pos <= Len(dataBuffer) /\ Len(dataBuffer) \in Nat
  <2>1. Len(dataBuffer) \in Nat
    BY <1>1, JoinFacts
  <2>2. pos \in HeaderIndices(dataBuffer) => pos \in 0 .. Len(dataBuffer) - HEADER_SIZE - 1
    BY DEF HeaderIndices
  <2> QED
    BY <1>3, <2>1, <2>2 DEF HEADER_SIZE
<1>5. dataBuffer' \in Seq(Byte) /\ Len(dataBuffer') = Len(dataBuffer) - pos
  BY <1>1, <1>2, <1>4, CutFacts, SMTT(30)
<1>6. /\ Unparsed \in Seq(Byte) /\ Len(Unparsed) \in Nat /\ pos <= Len(Unparsed)
      /\ Unparsed' = SubSeq(Unparsed, pos + 1, Len(Unparsed))
      /\ Len(Unparsed') = Len(Unparsed) - pos
      /\ Len(dataBuffer) <= Len(Unparsed)
      /\ \A i \in 1 .. Len(dataBuffer) : Unparsed[i] = dataBuffer[i]
  <2> DEFINE Joins == \A x, y, z \in Seq(Byte) : (x \o y) \o z = x \o (y \o z)
  <2>0. Joins
    BY JoinAssociative
  <2>1. Unparsed = dataBuffer \o rest
    BY <1>1, <2>0, Zenon DEF Unparsed
  <2>2. Unparsed' = dataBuffer' \o rest
    <3>1. (dataBuffer' \o staging) \o line = dataBuffer' \o (staging \o line)
      BY <1>1, <1>5, <2>0
    <3> QED
      BY <1>2, <3>1, Zenon DEF Unparsed
  <2> HIDE DEF rest
  <2>3. /\ Unparsed \in Seq(Byte) /\ Len(rest) \in Nat
        /\ Len(Unparsed) = Len(dataBuffer) + Len(rest)
    BY <1>1, <2>1, JoinFacts
  <2>4. Unparsed' = SubSeq(Unparsed, pos + 1, Len(Unparsed))
    BY <1>1, <1>2, <1>4, <2>1, <2>2, CutOfJoin, Zenon
  <2>5. Len(Unparsed) \in Nat /\ pos <= Len(Unparsed)
    BY <1>4, <2>3
  <2>6. \A i \in 1 .. Len(dataBuffer) : Unparsed[i] = dataBuffer[i]
    BY <1>1, <2>1, JoinFacts
  <2>7. Len(Unparsed') = Len(Unparsed) - pos
    BY <1>4, <2>3, <2>4, <2>5, CutFacts, SMTT(30)
  <2> QED
    BY <1>4, <2>3, <2>4, <2>5, <2>6, <2>7
<1> QED
  BY <1>4, <1>5, <1>6

(* What parse() leaves: the bytes from the position it found.              *)
LEMMA ParseStep ==
  ASSUME ReaderInv, Parse
  PROVE  ReaderInv' /\ (copied => copied' /\ packet' = packet)
<1> DEFINE header == FindHeader(Chars, 0)
           pos == header.position
<1>1. /\ line \in Seq(Byte) /\ staging \in Seq(Byte) /\ dataBuffer \in Seq(Byte)
      /\ charSigned \in BOOLEAN /\ packet \in ParsedPacket
  BY DEF ReaderInv, TypeOK
<1>2. /\ copied' = (header.found /\ pos + PACKET_SIZE <= Len(dataBuffer))
      /\ copied' => packet' = PacketAt(dataBuffer, pos, FALSE)
      /\ ~ copied' => packet' \in Garbage \cup {packet}
      /\ dataBuffer' = SubSeq(dataBuffer, pos + 1, Len(dataBuffer))
      /\ mutex' = "free" /\ broadcaster' = "send"
      /\ UNCHANGED <<charSigned, sent, line, receiver, staging>>
  BY DEF Parse, lineVars, receiverVars
<1>3. \/ header = [found |-> FALSE, position |-> 0]
      \/ /\ ~ charSigned
         /\ header.found
         /\ pos \in HeaderIndices(dataBuffer)
         /\ \A i \in HeaderIndices(dataBuffer) : pos <= i
         /\ \E k \in 0..PACKET_SIZE :
              /\ pos <= k
              /\ \/ k = Len(Unparsed)
                 \/ k + PACKET_SIZE <= Len(Unparsed) /\ HeaderAt(Unparsed, k)
  BY ParseFinds, Zenon DEF ReaderInv
<1>4. copied => /\ PACKET_SIZE <= Len(dataBuffer)
                /\ packet = PacketAt(dataBuffer, 0, FALSE)
                /\ header.found /\ 0 \in HeaderIndices(dataBuffer)
  <2> SUFFICES ASSUME copied
               PROVE  /\ PACKET_SIZE <= Len(dataBuffer)
                      /\ packet = PacketAt(dataBuffer, 0, FALSE)
                      /\ header.found /\ 0 \in HeaderIndices(dataBuffer)
    OBVIOUS
  <2>1. /\ PACKET_SIZE <= Len(dataBuffer) /\ HeaderAt(Chars, 0)
        /\ packet = PacketAt(dataBuffer, 0, FALSE) /\ ~ charSigned
    BY Zenon DEF ReaderInv, FirstFrame, NothingParsed
  <2>2. Chars = dataBuffer
    BY <1>1, <2>1, CharsTyped, Zenon
  <2>3. 0 \in 0 .. Len(dataBuffer) - HEADER_SIZE - 1
    BY <1>1, <2>1, JoinFacts DEF PACKET_SIZE, HEADER_SIZE
  <2>4. 0 \in HeaderIndices(dataBuffer)
    BY <2>1, <2>2, <2>3, Zenon DEF HeaderIndices
  <2>5. header.found
    BY <2>2, <2>4 DEF FindHeader
  <2> QED
    BY <2>1, <2>4, <2>5
<1> HIDE DEF header, pos
<1>5. pos = 0 \/ pos \in HeaderIndices(dataBuffer)
  BY <1>3 DEF pos
<1>6. pos \in Nat /\ pos <= Len(dataBuffer) /\ Len(dataBuffer) \in Nat
  BY <1>5, ParseCuts, Zenon DEF pos, header, ReaderInv
<1>7. dataBuffer' \in Seq(Byte) /\ Len(dataBuffer') = Len(dataBuffer) - pos
  BY <1>5, ParseCuts, Zenon DEF pos, header, ReaderInv
<1>8. /\ Unparsed \in Seq(Byte) /\ Len(Unparsed) \in Nat /\ pos <= Len(Unparsed)
      /\ Unparsed' = SubSeq(Unparsed, pos + 1, Len(Unparsed))
      /\ Len(Unparsed') = Len(Unparsed) - pos
  BY <1>5, ParseCuts, Zenon DEF pos, header, ReaderInv
<1>9. TypeOK' /\ NothingStaged'
  <2>1. packet' \in ParsedPacket
    <3>1. CASE copied'
      BY <1>1, <1>2, <1>6, <3>1, PacketAtTyped
    <3>2. CASE ~ copied'
      BY <1>1, <1>2, <3>2, ReaderAssumption
    <3> QED
      BY <3>1, <3>2
  <2>2. copied' \in BOOLEAN
    BY <1>2, <1>3, Zenon
  <2> QED
    BY <1>2, <1>7, <2>1, <2>2 DEF ReaderInv, TypeOK, NothingStaged
<1>10. FrameNear'
  <2>1. PICK k \in 0..PACKET_SIZE :
          /\ pos <= k
          /\ \/ k = Len(Unparsed)
             \/ k + PACKET_SIZE <= Len(Unparsed) /\ HeaderAt(Unparsed, k)
    <3>1. CASE pos = 0
      BY <3>1 DEF ReaderInv, FrameNear
    <3>2. CASE pos # 0
      BY <1>3, <3>2 DEF pos
    <3> QED
      BY <3>1, <3>2
  <2>2. k - pos \in 0..PACKET_SIZE
    BY <1>6, <2>1 DEF PACKET_SIZE
  <2>3. CASE k = Len(Unparsed)
    BY <1>8, <2>2, <2>3 DEF FrameNear
  <2>4. CASE k + PACKET_SIZE <= Len(Unparsed) /\ HeaderAt(Unparsed, k)
    <3>1. k \in Nat /\ pos <= k /\ k + HEADER_SIZE <= Len(Unparsed)
      BY <1>8, <2>1, <2>4 DEF PACKET_SIZE, HEADER_SIZE
    <3>2. HeaderAt(Unparsed', k - pos)
      BY <1>6, <1>8, <2>4, <3>1, HeaderBehind
    <3>3. k - pos + PACKET_SIZE <= Len(Unparsed')
      BY <1>6, <1>8, <2>4 DEF PACKET_SIZE
    <3> QED
      BY <2>2, <3>2, <3>3 DEF FrameNear
  <2> QED
    BY <2>1, <2>3, <2>4
<1>11. copied => pos = 0 /\ copied' /\ packet' = packet
  <2> SUFFICES ASSUME copied PROVE pos = 0 /\ copied' /\ packet' = packet
    OBVIOUS
  <2>1. pos <= 0
    BY <1>3, <1>4 DEF pos
  <2>2. pos = 0
    BY <1>6, <2>1
  <2>3. pos + PACKET_SIZE <= Len(dataBuffer)
    BY <1>4, <1>6, <2>2 DEF PACKET_SIZE
  <2>4. copied'
    BY <1>2, <1>4, <2>3, Zenon
  <2> QED
    BY <1>2, <1>4, <2>2, <2>4
<1>12. FirstFrame'
  <2> SUFFICES ASSUME copied' PROVE FirstFrame'
    BY DEF FirstFrame
  <2>1. header.found /\ pos + PACKET_SIZE <= Len(dataBuffer)
    BY <1>2
  <2>2. ~ charSigned /\ pos \in HeaderIndices(dataBuffer)
    BY <1>3, <2>1
  <2>3. PACKET_SIZE <= Len(dataBuffer')
    BY <1>6, <1>7, <2>1 DEF PACKET_SIZE
  <2>4. \A i \in 1 .. Len(dataBuffer) - pos : dataBuffer'[i] = dataBuffer[pos + i]
    BY <1>1, <1>2, <1>6, CutFacts
  <2>5. packet' = PacketAt(dataBuffer', 0, FALSE)
    <3>1. \A m \in 1..20 : m \in 1 .. Len(dataBuffer) - pos
      BY <1>6, <2>1 DEF PACKET_SIZE
    <3>2. SameFrame(dataBuffer, pos, dataBuffer')
      BY <2>4, <3>1, Zenon DEF SameFrame
    <3>3. PacketAt(dataBuffer, pos, FALSE) = PacketAt(dataBuffer', 0, FALSE)
      BY <1>6, <3>2, PacketMoved, Zenon
    <3> QED
      BY <1>2, <3>3
  <2>6. HeaderAt(dataBuffer', 0)
    <3>1. HeaderAt(dataBuffer, pos)
      BY <2>2 DEF HeaderIndices
    <3>2. pos + HEADER_SIZE <= Len(dataBuffer) /\ pos <= pos /\ pos - pos = 0
      BY <1>6, <2>1 DEF PACKET_SIZE, HEADER_SIZE
    <3>3. HeaderAt(SubSeq(dataBuffer, pos + 1, Len(dataBuffer)), pos - pos)
      BY <1>1, <1>6, <3>1, <3>2, HeaderBehind
    <3> QED
      BY <1>2, <3>2, <3>3
  <2>7. HeaderAt(Chars, 0)'
    <3>1. DOMAIN dataBuffer' = 1 .. Len(dataBuffer') /\ Len(dataBuffer') \in Nat
      BY <1>7, LenProperties
    <3>2. 1 \in 1 .. Len(dataBuffer') /\ 2 \in 1 .. Len(dataBuffer')
          /\ 3 \in 1 .. Len(dataBuffer') /\ 4 \in 1 .. Len(dataBuffer')
      BY <2>3, <3>1 DEF PACKET_SIZE
    <3>3. \A i \in 1 .. Len(dataBuffer') : Chars'[i] = dataBuffer'[i]
      BY <1>2, <2>2, <3>1, Zenon DEF Chars
    <3>4. 0 + 1 = 1 /\ 0 + 2 = 2 /\ 0 + 3 = 3 /\ 0 + 4 = 4
      OBVIOUS
    <3> QED
      BY <2>6, <3>2, <3>3, <3>4, Zenon DEF HeaderAt
  <2> QED
    BY <2>3, <2>5, <2>7 DEF FirstFrame
<1>13. NothingParsed'
  <2> SUFFICES ASSUME charSigned PROVE NothingParsed'
    BY <1>2 DEF NothingParsed
  <2>1. ~ header.found /\ pos = 0
    BY <1>3 DEF pos
  <2>2. ~ copied'
    BY <1>2, <2>1
  <2>3. Len(Unparsed') = Len(Unparsed)
    BY <1>8, <2>1
  <2> QED
    BY <1>2, <2>2, <2>3, Zenon DEF ReaderInv, NothingParsed, Unparsed
<1> QED
  BY <1>9, <1>10, <1>11, <1>12, <1>13 DEF ReaderInv

(* The steps that change no byte and no packet.                            *)
LEMMA OtherStep ==
  ASSUME ReaderInv, ReceiverLocks \/ BroadcasterLocks \/ Send \/ ReadNothing \/ UNCHANGED vars
  PROVE  ReaderInv'
<1>1. UNCHANGED <<charSigned, sent, line, staging, dataBuffer, packet, copied>>
  BY DEF ReceiverLocks, BroadcasterLocks, Send, ReadNothing,
         vars, lineVars, receiverVars, broadcasterVars
<1>2. /\ receiver' \in {"read", "lock", "insert"}
      /\ receiver' = "read" => receiver = "read"
      /\ mutex' \in {"free", "receiver", "broadcaster"}
      /\ broadcaster' \in {"lock", "parse", "send"}
  BY DEF ReaderInv, TypeOK, ReceiverLocks, BroadcasterLocks, Send, ReadNothing,
         vars, lineVars, receiverVars, broadcasterVars
<1>3. TypeOK'
  BY <1>1, <1>2 DEF ReaderInv, TypeOK
<1>4. NothingStaged'
  BY <1>1, <1>2, Zenon DEF ReaderInv, NothingStaged
<1>5. Unparsed' = Unparsed
  BY <1>1 DEF Unparsed
<1> QED
  BY <1>1, <1>3, <1>4, <1>5, SameBytes

LEMMA NextStep ==
  ASSUME ReaderInv, [Next]_vars
  PROVE  ReaderInv' /\ (copied => copied' /\ packet' = packet)
<1>1. CASE Transmit
  BY <1>1, TransmitStep DEF Transmit, broadcasterVars
<1>2. ASSUME NEW n \in ReadSizes, Read(n) PROVE ReaderInv' /\ UNCHANGED <<packet, copied>>
  BY <1>2, ReadStep DEF Read, broadcasterVars
<1>3. CASE Insert
  BY <1>3, InsertStep DEF Insert, broadcasterVars
<1>4. CASE Parse
  BY <1>4, ParseStep
<1>5. CASE ReceiverLocks \/ BroadcasterLocks \/ Send \/ ReadNothing \/ UNCHANGED vars
  BY <1>5, OtherStep DEF ReceiverLocks, BroadcasterLocks, Send, ReadNothing, vars, broadcasterVars
<1> QED
  BY <1>1, <1>2, <1>3, <1>4, <1>5 DEF Next

-----------------------------------------------------------------------------
(* What is copied was sent.                                                *)

LEMMA JoinEqualLengths ==
  ASSUME NEW S, NEW a \in Seq(S), NEW c \in Seq(S), NEW n \in Nat, Len(a) = n, Len(c) = n
  PROVE  /\ \A i \in 1..n : (a \o c)[i] = a[i]
         /\ \A i \in 1..n : (a \o c)[n + i] = c[i]
  OBVIOUS

(* Two frames, one behind the other.                                       *)
LEMMA TwoFrames ==
  ASSUME NEW p \in ParsedPacket, NEW q \in ParsedPacket
  PROVE  /\ \A i \in 1..PACKET_SIZE : (Encode(p) \o Encode(q))[i] = Encode(p)[i]
         /\ \A i \in 1..PACKET_SIZE : (Encode(p) \o Encode(q))[PACKET_SIZE + i] = Encode(q)[i]
         /\ HeaderAt(Encode(p) \o Encode(q), PACKET_SIZE)
<1>1. /\ Encode(p) \in Seq(Byte) /\ Len(Encode(p)) = PACKET_SIZE
      /\ Encode(q) \in Seq(Byte) /\ Len(Encode(q)) = PACKET_SIZE
  BY EncodeFrame
<1>2. PACKET_SIZE \in Nat /\ HEADER_SIZE <= PACKET_SIZE
  BY DEF PACKET_SIZE, HEADER_SIZE
<1>3. /\ \A i \in 1..PACKET_SIZE : (Encode(p) \o Encode(q))[i] = Encode(p)[i]
      /\ \A i \in 1..PACKET_SIZE : (Encode(p) \o Encode(q))[PACKET_SIZE + i] = Encode(q)[i]
  BY <1>1, <1>2, JoinEqualLengths
<1>4. HeaderAt(Encode(p) \o Encode(q), Len(Encode(p)))
  <2>1. HeaderAt(Encode(q), 0) /\ HEADER_SIZE <= Len(Encode(q))
    BY <1>1, <1>2, EncodeFrame
  <2> QED
    BY <1>1, <2>1, HeaderJoined
<1> QED
  BY <1>1, <1>3, <1>4

LEMMA SentSize ==
  ASSUME TypeOK
  PROVE  /\ Len(sent) = 1 => Len(sent) >= 1
         /\ Len(sent) > 1 => Len(sent) # 1 /\ Len(sent) >= 1
<1> DEFINE n == Len(sent)
<1>1. n \in Nat
  BY DEF TypeOK
<1> HIDE DEF n
<1>2. (n = 1 => n >= 1) /\ (n > 1 => n # 1 /\ n >= 1)
  BY <1>1
<1> QED
  BY <1>2 DEF n

(* The two packets FirstTwo is made of.                                    *)
LEMMA FirstTwoSent ==
  ASSUME TypeOK, Len(sent) >= 1
  PROVE  /\ sent[1] \in Packets /\ 1 \in DOMAIN sent
         /\ sent[IF Len(sent) = 1 THEN 1 ELSE 2] \in Packets
         /\ sent[1] \in ParsedPacket
         /\ sent[IF Len(sent) = 1 THEN 1 ELSE 2] \in ParsedPacket
         /\ Len(sent) > 1 => 2 \in DOMAIN sent
<1> DEFINE n == Len(sent)
<1>1. sent \in Seq(Packets)
  BY DEF TypeOK
<1>2. n \in Nat
  BY <1>1
<1>3. n >= 1
  OBVIOUS
<1>4. DOMAIN sent = 1..n /\ \A i \in 1..n : sent[i] \in Packets
  BY <1>1
<1> HIDE DEF n
<1>5. 1 \in 1..n /\ (n # 1 => 2 \in 1..n) /\ (n > 1 => n # 1)
  BY <1>2, <1>3
<1>6. \A p \in Packets : p \in ParsedPacket
  BY ReaderAssumption
<1> QED
  BY <1>4, <1>5, <1>6, Zenon DEF n

(* Where the bytes of the first frame end, those that are not erased end   *)
(* or hold a header: FrameNear, at this very index.                        *)
LEMMA FrontIsNear ==
  ASSUME TypeOK, NEW k \in 0..PACKET_SIZE, FrontAt(k), Unparsed \in Seq(Byte)
  PROVE  \/ k = Len(Unparsed)
         \/ k + PACKET_SIZE <= Len(Unparsed) /\ HeaderAt(Unparsed, k)
<1>1. k \in Nat /\ k <= 20 /\ Len(Unparsed) \in Nat
  BY LenProperties DEF PACKET_SIZE
<1>2. CASE Len(sent) = 1 /\ k = Len(Unparsed)
  BY <1>2
<1>3. CASE Len(sent) > 1 /\ k + PACKET_SIZE <= Len(Unparsed)
  <2>1. Len(sent) >= 1
    BY <1>3, LenProperties DEF TypeOK
  <2>2. HeaderAt(FirstTwo, PACKET_SIZE)
    BY <2>1, FirstTwoSent, TwoFrames, Zenon DEF FirstTwo
  <2>3. ASSUME NEW r \in {1, 2, 3, 4} PROVE Unparsed[k + r] = FirstTwo[PACKET_SIZE + r]
    <3>1. k + r \in 1 .. k + PACKET_SIZE /\ k + r <= Len(Unparsed)
      BY <1>1, <1>3 DEF PACKET_SIZE
    <3>2. PACKET_SIZE - k + (k + r) = PACKET_SIZE + r
      BY <1>1 DEF PACKET_SIZE
    <3>3. Unparsed[k + r] = FirstTwo[PACKET_SIZE - k + (k + r)]
      BY <3>1, Zenon DEF FrontAt
    <3> QED
      BY <3>2, <3>3
  <2>4. 1 \in {1, 2, 3, 4} /\ 2 \in {1, 2, 3, 4} /\ 3 \in {1, 2, 3, 4} /\ 4 \in {1, 2, 3, 4}
    OBVIOUS
  <2>5. HeaderAt(Unparsed, k)
    BY <2>2, <2>3, <2>4, Zenon DEF HeaderAt
  <2> QED
    BY <1>3, <2>5
<1> QED
  BY <1>2, <1>3 DEF FrontAt

(* So what parse() finds is no farther than that.                          *)
LEMMA FoundInFront ==
  ASSUME TypeOK, NEW k \in 0..PACKET_SIZE, FrontAt(k)
  PROVE  LET header == FindHeader(Chars, 0)
         IN  /\ header.position <= k
             /\ header.position = 0 \/ header.position \in HeaderIndices(dataBuffer)
             /\ header.found => header.position \in HeaderIndices(dataBuffer)
<1>1. dataBuffer \in Seq(Byte) /\ charSigned \in BOOLEAN
  BY DEF TypeOK
<1>2. 0 <= k
  BY DEF PACKET_SIZE
<1>3. CASE charSigned \/ HeaderIndices(dataBuffer) = {}
  <2>1. FindHeader(Chars, 0) = [found |-> FALSE, position |-> 0]
    <3>1. CASE charSigned
      BY <1>1, <3>1, SignedFindsNothing, Zenon
    <3>2. CASE ~ charSigned
      BY <1>1, <1>3, <3>2, CharsTyped, Zenon DEF FindHeader
    <3> QED
      BY <3>1, <3>2
  <2> QED
    BY <1>2, <2>1
<1>4. CASE ~ charSigned /\ HeaderIndices(dataBuffer) # {}
  <2>1. Chars = dataBuffer
    BY <1>1, <1>4, CharsTyped, Zenon
  <2>2. staging \o line \in Seq(Byte) /\ Unparsed = dataBuffer \o (staging \o line)
    BY SMTT(30) DEF TypeOK, Unparsed
  <2>3. Unparsed \in Seq(Byte)
    BY <1>1, <2>2, JoinFacts
  <2>4. \/ k = Len(Unparsed)
        \/ k + PACKET_SIZE <= Len(Unparsed) /\ HeaderAt(Unparsed, k)
    BY <2>3, FrontIsNear, Zenon
  <2>5. PICK m \in HeaderIndices(dataBuffer) :
          /\ m <= k
          /\ FindHeader(dataBuffer, 0) = [found |-> TRUE, position |-> m]
    BY <1>1, <1>4, <2>2, <2>4, HeaderNear, Zenon
  <2> QED
    BY <2>1, <2>5
<1> QED
  BY <1>1, <1>3, <1>4, Zenon

LEMMA FrontInit == Init => FrontInv
<1> SUFFICES ASSUME Init PROVE FrontInv
  OBVIOUS
<1>1. PICK p \in Packets, j \in JoinOffsets :
        /\ sent = <<p>>
        /\ line = SubSeq(Encode(p), j + 1, PACKET_SIZE)
  BY DEF Init
<1>2. p \in ParsedPacket /\ j \in 0..PACKET_SIZE
  BY ReaderAssumption
<1>3. Encode(p) \in Seq(Byte) /\ Len(Encode(p)) = PACKET_SIZE
  BY <1>2, EncodeFrame
<1>4. /\ line \in Seq(Byte) /\ Len(line) = PACKET_SIZE - j
      /\ \A i \in 1 .. PACKET_SIZE - j : line[i] = Encode(p)[j + i]
  <2>1. j \in Nat /\ j <= Len(Encode(p))
    BY <1>2, <1>3 DEF PACKET_SIZE
  <2>2. line = SubSeq(Encode(p), j + 1, Len(Encode(p)))
    BY <1>1, <1>3
  <2>3. /\ SubSeq(Encode(p), j + 1, Len(Encode(p))) \in Seq(Byte)
        /\ Len(SubSeq(Encode(p), j + 1, Len(Encode(p)))) = Len(Encode(p)) - j
        /\ \A i \in 1 .. Len(Encode(p)) - j :
             SubSeq(Encode(p), j + 1, Len(Encode(p)))[i] = Encode(p)[j + i]
    BY <1>3, <2>1, CutFacts, Zenon
  <2> QED
    BY <1>3, <2>2, <2>3
<1>5. Unparsed = line
  <2>1. dataBuffer = <<>> /\ staging = <<>>
    BY DEF Init
  <2> QED
    BY <1>4, <2>1 DEF Unparsed
<1>6. Len(sent) = 1 /\ sent[1] = p
  BY <1>1
<1>7. \A i \in 1..PACKET_SIZE : FirstTwo[i] = Encode(p)[i]
  BY <1>2, <1>6, TwoFrames, Zenon DEF FirstTwo
<1>8. ASSUME NEW i \in 1 .. (PACKET_SIZE - j) + PACKET_SIZE, i <= Len(Unparsed)
      PROVE  Unparsed[i] = FirstTwo[PACKET_SIZE - (PACKET_SIZE - j) + i]
  <2>1. /\ i \in 1 .. PACKET_SIZE - j /\ j + i \in 1..PACKET_SIZE
        /\ PACKET_SIZE - (PACKET_SIZE - j) + i = j + i
    BY <1>2, <1>4, <1>5, <1>8, SMTT(30) DEF PACKET_SIZE
  <2> QED
    BY <1>4, <1>5, <1>7, <2>1, Zenon
<1>9. FrontAt(PACKET_SIZE - j)
  BY <1>4, <1>5, <1>6, <1>8, Zenon DEF FrontAt
<1>10. PACKET_SIZE - j \in 0..PACKET_SIZE
  BY <1>2 DEF PACKET_SIZE
<1> QED
  BY <1>9, <1>10, Zenon DEF FrontInv

LEMMA FrontTransmit ==
  ASSUME TypeOK, FrontInv, Transmit
  PROVE  FrontInv'
<1>1. PICK p \in Packets : sent' = Append(sent, p) /\ line' = line \o Encode(p)
  BY DEF Transmit
<1>2. p \in ParsedPacket
  BY ReaderAssumption
<1>3. Encode(p) \in Seq(Byte) /\ Len(Encode(p)) = PACKET_SIZE
  BY <1>2, EncodeFrame
<1>4. /\ line \in Seq(Byte) /\ staging \in Seq(Byte) /\ dataBuffer \in Seq(Byte)
      /\ sent \in Seq(Packets) /\ Len(sent) \in Nat
      /\ UNCHANGED <<staging, dataBuffer>>
  BY DEF TypeOK, Transmit, receiverVars
<1>5. Unparsed \in Seq(Byte) /\ Unparsed' = Unparsed \o Encode(p)
  <2>1. \A a, b, c \in Seq(Byte) : (a \o b) \o c = a \o (b \o c)
    BY JoinAssociative
  <2>2. dataBuffer \o staging \in Seq(Byte)
    BY <1>4
  <2> QED
    BY <1>1, <1>3, <1>4, <2>1, <2>2, JoinFacts, Zenon DEF Unparsed
<1>6. /\ Len(Unparsed') = Len(Unparsed) + PACKET_SIZE /\ Len(Unparsed) \in Nat
      /\ \A i \in 1 .. Len(Unparsed) : Unparsed'[i] = Unparsed[i]
      /\ \A i \in 1 .. PACKET_SIZE : Unparsed'[Len(Unparsed) + i] = Encode(p)[i]
  <2> HIDE DEF Unparsed
  <2>1. /\ Len(Unparsed') = Len(Unparsed) + Len(Encode(p)) /\ Len(Unparsed) \in Nat
        /\ \A i \in 1 .. Len(Unparsed) : Unparsed'[i] = Unparsed[i]
        /\ \A i \in 1 .. Len(Encode(p)) : Unparsed'[Len(Unparsed) + i] = Encode(p)[i]
    <3>1. Unparsed \in Seq(Byte) /\ Encode(p) \in Seq(Byte)
      BY <1>3, <1>5
    <3>2. /\ Len(Unparsed \o Encode(p)) = Len(Unparsed) + Len(Encode(p)) /\ Len(Unparsed) \in Nat
          /\ \A i \in 1 .. Len(Unparsed) : (Unparsed \o Encode(p))[i] = Unparsed[i]
          /\ \A i \in 1 .. Len(Encode(p)) :
               (Unparsed \o Encode(p))[Len(Unparsed) + i] = Encode(p)[i]
      BY <3>1, JoinFacts
    <3> QED
      BY <1>5, <3>2, Zenon
  <2> QED
    BY <1>3, <2>1, Zenon
<1>7. /\ Len(sent') = Len(sent) + 1
      /\ \A i \in 1 .. Len(sent) : sent'[i] = sent[i]
      /\ sent'[Len(sent) + 1] = p
  BY <1>1, <1>4
<1>8. PICK k \in 0..PACKET_SIZE : FrontAt(k)
  BY Zenon DEF FrontInv
<1>9. k \in 0..20 /\ k \in Nat /\ PACKET_SIZE = 20
  BY DEF PACKET_SIZE
<1>10. CASE Len(sent) = 1 /\ k = Len(Unparsed)
  <2>1. Len(sent') = 2 /\ sent'[1] = sent[1] /\ sent'[2] = p /\ Len(sent') # 1 /\ Len(sent') > 1
    BY <1>7, <1>10
  <2>2. sent[1] \in ParsedPacket
    BY <1>10, FirstTwoSent
  <2>3. FirstTwo = Encode(sent[1]) \o Encode(sent[1]) /\ FirstTwo' = Encode(sent[1]) \o Encode(p)
    BY <1>10, <2>1, Zenon DEF FirstTwo
  <2>4. /\ \A i \in 1..PACKET_SIZE : FirstTwo[i] = Encode(sent[1])[i]
        /\ \A i \in 1..PACKET_SIZE : FirstTwo'[i] = Encode(sent[1])[i]
        /\ \A i \in 1..PACKET_SIZE : FirstTwo'[PACKET_SIZE + i] = Encode(p)[i]
    BY <1>2, <2>2, <2>3, TwoFrames, Zenon
  <2>5. ASSUME NEW i \in 1 .. k + PACKET_SIZE
        PROVE  Unparsed'[i] = FirstTwo'[PACKET_SIZE - k + i]
    <3>1. CASE i <= k
      <4>1. i \in 1..k /\ PACKET_SIZE - k + i \in 1..PACKET_SIZE
        BY <1>9, <3>1
      <4>2. Unparsed[i] = FirstTwo[PACKET_SIZE - k + i]
        BY <1>8, <1>10, <3>1, Zenon DEF FrontAt
      <4> QED
        BY <1>6, <1>10, <2>4, <4>1, <4>2, Zenon
    <3>2. CASE ~ (i <= k)
      <4>1. /\ i - k \in 1..PACKET_SIZE /\ k + (i - k) = i
            /\ PACKET_SIZE + (i - k) = PACKET_SIZE - k + i
        BY <1>9, <3>2
      <4>2. Unparsed'[Len(Unparsed) + (i - k)] = Encode(p)[i - k]
        BY <1>6, <4>1, Zenon
      <4>3. FirstTwo'[PACKET_SIZE + (i - k)] = Encode(p)[i - k]
        BY <2>4, <4>1, Zenon
      <4> QED
        BY <1>10, <4>1, <4>2, <4>3, Zenon
    <3> QED
      BY <3>1, <3>2
  <2>6. k + PACKET_SIZE <= Len(Unparsed')
    BY <1>6, <1>9, <1>10
  <2> QED
    BY <2>1, <2>5, <2>6, Zenon DEF FrontInv, FrontAt
<1>11. CASE Len(sent) > 1 /\ k + PACKET_SIZE <= Len(Unparsed)
  <2>1. /\ Len(sent) # 1 /\ Len(sent') # 1 /\ Len(sent') > 1
        /\ 1 \in 1 .. Len(sent) /\ 2 \in 1 .. Len(sent)
    <3>1. \A n \in Nat : n > 1 => n # 1 /\ n + 1 # 1 /\ n + 1 > 1 /\ 1 \in 1..n /\ 2 \in 1..n
      OBVIOUS
    <3> QED
      BY <1>4, <1>7, <1>11, <3>1, Zenon
  <2>2. FirstTwo' = FirstTwo
    BY <1>7, <2>1, Zenon DEF FirstTwo
  <2>3. k + PACKET_SIZE <= Len(Unparsed')
    BY <1>6, <1>9, <1>11
  <2>4. ASSUME NEW i \in 1 .. k + PACKET_SIZE
        PROVE  Unparsed'[i] = FirstTwo'[PACKET_SIZE - k + i]
    <3>1. i \in 1 .. Len(Unparsed) /\ i <= Len(Unparsed)
      BY <1>6, <1>9, <1>11
    <3> QED
      BY <1>6, <1>8, <2>2, <3>1, Zenon DEF FrontAt
  <2> QED
    BY <2>1, <2>3, <2>4, Zenon DEF FrontInv, FrontAt
<1> QED
  BY <1>8, <1>10, <1>11, Zenon DEF FrontAt

LEMMA FrontParse ==
  ASSUME ReaderInv, FrontInv, Parse
  PROVE  FrontInv'
<1> DEFINE pos == FindHeader(Chars, 0).position
<1>1. PICK k \in 0..PACKET_SIZE : FrontAt(k)
  BY Zenon DEF FrontInv
<1>2. pos <= k /\ (pos = 0 \/ pos \in HeaderIndices(dataBuffer))
  BY <1>1, FoundInFront, Zenon DEF ReaderInv
<1>3. /\ pos \in Nat
      /\ Unparsed \in Seq(Byte) /\ Len(Unparsed) \in Nat /\ pos <= Len(Unparsed)
      /\ Unparsed' = SubSeq(Unparsed, pos + 1, Len(Unparsed))
      /\ Len(Unparsed') = Len(Unparsed) - pos
  BY <1>2, ParseCuts, Zenon DEF ReaderInv
<1> HIDE DEF pos
<1>4. \A i \in 1 .. Len(Unparsed) - pos : Unparsed'[i] = Unparsed[pos + i]
  <2>1. \A i \in 1 .. Len(Unparsed) - pos :
          SubSeq(Unparsed, pos + 1, Len(Unparsed))[i] = Unparsed[pos + i]
    BY <1>3, CutFacts
  <2> QED
    BY <1>3, <2>1, Zenon
<1>5. sent' = sent /\ FirstTwo' = FirstTwo
  BY DEF Parse, lineVars, FirstTwo
<1>6. k \in 0..20 /\ PACKET_SIZE = 20
  BY DEF PACKET_SIZE
<1>7. PICK r \in 0..PACKET_SIZE : r = k - pos
  <2>1. k - pos \in 0..PACKET_SIZE
    BY <1>2, <1>3, <1>6
  <2> QED
    BY <2>1
<1>8. ASSUME NEW i \in 1 .. r + PACKET_SIZE, i <= Len(Unparsed')
      PROVE  Unparsed'[i] = FirstTwo[PACKET_SIZE - r + i]
  <2>1. /\ i \in 1 .. Len(Unparsed) - pos
        /\ pos + i \in 1 .. k + PACKET_SIZE /\ pos + i <= Len(Unparsed)
    BY <1>2, <1>3, <1>6, <1>7, <1>8
  <2>2. PACKET_SIZE - k + (pos + i) = PACKET_SIZE - r + i
    BY <1>3, <1>6, <1>7
  <2>3. Unparsed[pos + i] = FirstTwo[PACKET_SIZE - k + (pos + i)]
    BY <1>1, <2>1, Zenon DEF FrontAt
  <2> QED
    BY <1>4, <2>1, <2>2, <2>3, Zenon
<1>9. \/ Len(sent') = 1 /\ r = Len(Unparsed')
      \/ Len(sent') > 1 /\ r + PACKET_SIZE <= Len(Unparsed')
  <2>1. CASE Len(sent) = 1 /\ k = Len(Unparsed)
    BY <1>3, <1>5, <1>7, <2>1
  <2>2. CASE Len(sent) > 1 /\ k + PACKET_SIZE <= Len(Unparsed)
    <3>1. r + PACKET_SIZE <= Len(Unparsed')
      BY <1>3, <1>6, <1>7, <2>2
    <3> QED
      BY <1>5, <2>2, <3>1, Zenon
  <2> QED
    BY <1>1, <2>1, <2>2, Zenon DEF FrontAt
<1>10. FrontAt(r)'
  BY <1>5, <1>8, <1>9, Zenon DEF FrontAt
<1> QED
  BY <1>10, Zenon DEF FrontInv

(* The fields of a frame are the words of its packet.                      *)
LEMMA FieldsOfFrame ==
  ASSUME NEW p \in ParsedPacket
  PROVE  PacketAt(Encode(p), 0, FALSE) = InNetworkOrder(p)
<1>1. /\ p.packetCount \in Word /\ p.X_GyroRate \in Word
      /\ p.Y_GyroRate \in Word /\ p.Z_GyroRate \in Word
  BY DEF ParsedPacket
<1> DEFINE words(w) == <<ntohl(w)[1], ntohl(w)[2], ntohl(w)[3], ntohl(w)[4]>>
           b == Encode(p)
<1>2. \A w \in Word : words(w) = ntohl(w)
  BY NtohlInvolution
<1>3. /\ <<b[0 + 4 + 1], b[0 + 4 + 2], b[0 + 4 + 3], b[0 + 4 + 4]>> = words(p.packetCount)
      /\ <<b[0 + 8 + 1], b[0 + 8 + 2], b[0 + 8 + 3], b[0 + 8 + 4]>> = words(p.X_GyroRate)
      /\ <<b[0 + 12 + 1], b[0 + 12 + 2], b[0 + 12 + 3], b[0 + 12 + 4]>> = words(p.Y_GyroRate)
      /\ <<b[0 + 16 + 1], b[0 + 16 + 2], b[0 + 16 + 3], b[0 + 16 + 4]>> = words(p.Z_GyroRate)
  BY DEF Encode
<1> HIDE DEF words, b
<1>4. /\ Field(b, 0 + 4, FALSE) = ntohl(p.packetCount)
      /\ Field(b, 0 + 8, FALSE) = ntohl(p.X_GyroRate)
      /\ Field(b, 0 + 12, FALSE) = ntohl(p.Y_GyroRate)
      /\ Field(b, 0 + 16, FALSE) = ntohl(p.Z_GyroRate)
  BY <1>1, <1>2, <1>3, Zenon DEF Field
<1> QED
  BY <1>4, Zenon DEF PacketAt, InNetworkOrder, b

(* The bytes of a frame lie within any bytes that are long enough.         *)
LEMMA WithinFrame ==
  ASSUME NEW a \in Nat, NEW k \in 0..20, a <= k, NEW d \in Nat, a + 20 <= d,
         NEW u \in Nat, d <= u, NEW m \in 1..20
  PROVE  a + m \in 1..d /\ a + m \in 1 .. k + 20 /\ a + m <= u
  OBVIOUS

(* A frame of one of the packets sent begins where a header is found.      *)
LEMMA FoundGenuine ==
  ASSUME TypeOK, FrontInv, NEW pos \in HeaderIndices(dataBuffer),
         \A k \in 0..PACKET_SIZE : FrontAt(k) => pos <= k,
         pos + PACKET_SIZE <= Len(dataBuffer),
         \A i \in 1 .. Len(dataBuffer) : Unparsed[i] = dataBuffer[i],
         Len(dataBuffer) <= Len(Unparsed), Len(dataBuffer) \in Nat, Len(Unparsed) \in Nat,
         \A p, q \in Packets : NoFalseHeader(p, q)
  PROVE  \E n \in DOMAIN sent :
           /\ sent[n] \in ParsedPacket
           /\ \A m \in 1..20 : dataBuffer[pos + m] = Encode(sent[n])[m]
<1>1. PICK k \in 0..PACKET_SIZE : FrontAt(k)
  BY Zenon DEF FrontInv
<1>2. /\ k \in 0..20 /\ PACKET_SIZE = 20 /\ pos \in Nat /\ pos <= k
      /\ HeaderAt(dataBuffer, pos)
  <2>1. pos <= k
    BY <1>1
  <2>2. k \in 0..20 /\ PACKET_SIZE = 20
    BY DEF PACKET_SIZE
  <2>3. pos \in 0 .. Len(dataBuffer) - HEADER_SIZE - 1 /\ HeaderAt(dataBuffer, pos)
    BY Zenon DEF HeaderIndices
  <2> QED
    BY <2>1, <2>2, <2>3
<1>3. ASSUME NEW m \in 1..20
      PROVE  dataBuffer[pos + m] = FirstTwo[PACKET_SIZE - k + (pos + m)]
  <2>1. /\ pos + m \in 1 .. Len(dataBuffer) /\ pos + m \in 1 .. k + PACKET_SIZE
        /\ pos + m <= Len(Unparsed)
    BY <1>2, WithinFrame, Zenon
  <2>2. Unparsed[pos + m] = FirstTwo[PACKET_SIZE - k + (pos + m)]
    BY <1>1, <2>1, Zenon DEF FrontAt
  <2> QED
    BY <2>1, <2>2, Zenon
<1>4. Len(sent) >= 1
  <2>1. Len(sent) = 1 \/ Len(sent) > 1
    BY <1>1, Zenon DEF FrontAt
  <2> QED
    BY <2>1, SentSize, Zenon
<1>5. /\ sent[1] \in ParsedPacket /\ 1 \in DOMAIN sent
      /\ sent[IF Len(sent) = 1 THEN 1 ELSE 2] \in ParsedPacket
      /\ Len(sent) > 1 => 2 \in DOMAIN sent
  BY <1>4, FirstTwoSent
<1>6. HeaderAt(FirstTwo, PACKET_SIZE - k + pos)
  <2>1. /\ 1 \in 1..20 /\ 2 \in 1..20 /\ 3 \in 1..20 /\ 4 \in 1..20
        /\ PACKET_SIZE - k + (pos + 1) = PACKET_SIZE - k + pos + 1
        /\ PACKET_SIZE - k + (pos + 2) = PACKET_SIZE - k + pos + 2
        /\ PACKET_SIZE - k + (pos + 3) = PACKET_SIZE - k + pos + 3
        /\ PACKET_SIZE - k + (pos + 4) = PACKET_SIZE - k + pos + 4
    BY <1>2
  <2> QED
    BY <1>2, <1>3, <2>1, Zenon DEF HeaderAt
<1>7. \A i \in 1 .. PACKET_SIZE - 1 : ~ HeaderAt(FirstTwo, i)
  <2>1. sent[1] \in Packets /\ sent[IF Len(sent) = 1 THEN 1 ELSE 2] \in Packets
    BY <1>4, FirstTwoSent, Zenon
  <2> QED
    BY <2>1, Zenon DEF NoFalseHeader, FirstTwo
<1>8. PACKET_SIZE - k + pos = 0 \/ PACKET_SIZE - k + pos = PACKET_SIZE
  <2>1. PACKET_SIZE - k + pos \in 0..20
    BY <1>2
  <2>2. ~ (PACKET_SIZE - k + pos \in 1 .. PACKET_SIZE - 1)
    BY <1>6, <1>7, Zenon
  <2> QED
    BY <1>2, <2>1, <2>2
<1>9. CASE PACKET_SIZE - k + pos = 0
  <2>1. \A m \in 1..20 : PACKET_SIZE - k + (pos + m) = m
    BY <1>2, <1>9
  <2>2. \A m \in 1..20 : FirstTwo[m] = Encode(sent[1])[m]
    BY <1>2, <1>5, TwoFrames, Zenon DEF FirstTwo
  <2>3. \A m \in 1..20 : dataBuffer[pos + m] = Encode(sent[1])[m]
    BY <1>3, <2>1, <2>2, Zenon
  <2> QED
    BY <1>5, <2>3, Zenon
<1>10. CASE PACKET_SIZE - k + pos = PACKET_SIZE
  <2>1. \A m \in 1..20 : PACKET_SIZE - k + (pos + m) = PACKET_SIZE + m
    BY <1>2, <1>10
  <2>2. k # Len(Unparsed)
    BY <1>2, <1>10
  <2>3. Len(sent) > 1
    BY <1>1, <2>2, Zenon DEF FrontAt
  <2>4. Len(sent) # 1
    BY <2>3, SentSize, Zenon
  <2>5. \A m \in 1..20 : FirstTwo[PACKET_SIZE + m] = Encode(sent[2])[m]
    BY <1>2, <1>5, <2>4, TwoFrames, Zenon DEF FirstTwo
  <2>6. \A m \in 1..20 : dataBuffer[pos + m] = Encode(sent[2])[m]
    BY <1>3, <2>1, <2>5, Zenon
  <2> QED
    BY <1>5, <2>3, <2>4, <2>6, Zenon
<1> QED
  BY <1>8, <1>9, <1>10

LEMMA GenuineParse ==
  ASSUME ReaderInv, FrontInv, Parse, \A p, q \in Packets : NoFalseHeader(p, q)
  PROVE  CopiedGenuine'
<1> SUFFICES ASSUME copied'
             PROVE  \E n \in DOMAIN sent : packet' = InNetworkOrder(sent[n])
  BY Zenon DEF CopiedGenuine, Parse, lineVars
<1> DEFINE header == FindHeader(Chars, 0)
           pos == header.position
<1>1. /\ header.found /\ pos + PACKET_SIZE <= Len(dataBuffer)
      /\ packet' = PacketAt(dataBuffer, pos, FALSE)
  BY DEF Parse
<1>2. \A k \in 0..PACKET_SIZE : FrontAt(k) => pos <= k /\ pos \in HeaderIndices(dataBuffer)
  BY <1>1, FoundInFront, Zenon DEF ReaderInv
<1>3. pos \in HeaderIndices(dataBuffer)
  BY <1>2, Zenon DEF FrontInv
<1>4. /\ pos \in Nat /\ Len(dataBuffer) \in Nat /\ Len(Unparsed) \in Nat
      /\ Len(dataBuffer) <= Len(Unparsed)
      /\ \A i \in 1 .. Len(dataBuffer) : Unparsed[i] = dataBuffer[i]
  BY <1>3, ParseCuts, Zenon DEF ReaderInv
<1> HIDE DEF header, pos
<1>5. PICK n \in DOMAIN sent :
        /\ sent[n] \in ParsedPacket
        /\ \A m \in 1..20 : dataBuffer[pos + m] = Encode(sent[n])[m]
  BY <1>1, <1>2, <1>3, <1>4, FoundGenuine, Zenon DEF ReaderInv
<1>6. PacketAt(dataBuffer, pos, FALSE) = PacketAt(Encode(sent[n]), 0, FALSE)
  <2>1. SameFrame(dataBuffer, pos, Encode(sent[n]))
    BY <1>5, Zenon DEF SameFrame
  <2> QED
    BY <1>4, <2>1, PacketMoved, Zenon
<1> QED
  BY <1>1, <1>5, <1>6, FieldsOfFrame, Zenon

(* The other steps: what was sent stays sent.                              *)
LEMMA GenuineOther ==
  ASSUME TypeOK, CopiedGenuine, UNCHANGED <<packet, copied>>,
         sent' = sent \/ Transmit
  PROVE  CopiedGenuine'
<1>1. sent \in Seq(Packets)
  BY DEF TypeOK
<1>2. \A n \in DOMAIN sent : n \in DOMAIN sent' /\ sent'[n] = sent[n]
  <2>1. CASE sent' = sent
    BY <2>1
  <2>2. CASE Transmit
    <3>1. PICK p \in Packets : sent' = Append(sent, p)
      BY <2>2 DEF Transmit
    <3> QED
      BY <1>1, <3>1
  <2> QED
    BY <2>1, <2>2
<1> QED
  BY <1>2, Zenon DEF CopiedGenuine

LEMMA UnparsedKept ==
  ASSUME ReaderInv, \/ \E n \in ReadSizes : Read(n)
                    \/ Insert \/ ReadNothing \/ ReceiverLocks \/ BroadcasterLocks \/ Send
                    \/ UNCHANGED vars
  PROVE  Unparsed' = Unparsed
<1>1. /\ line \in Seq(Byte) /\ staging \in Seq(Byte) /\ dataBuffer \in Seq(Byte)
      /\ <<>> \in Seq(Byte)
  BY DEF ReaderInv, TypeOK
<1>2. ASSUME NEW n \in ReadSizes, Read(n) PROVE Unparsed' = Unparsed
  <2>1. n \in Nat /\ n <= Len(line)
    BY <1>2, ReaderAssumption DEF Read
  <2>2. /\ staging = <<>> /\ dataBuffer' = dataBuffer
        /\ staging' = SubSeq(line, 1, n) /\ line' = SubSeq(line, n + 1, Len(line))
    BY <1>2 DEF Read, ReaderInv, NothingStaged
  <2>3. (dataBuffer \o SubSeq(line, 1, n)) \o SubSeq(line, n + 1, Len(line)) = dataBuffer \o line
    BY <1>1, <2>1, CutAndJoin, Zenon
  <2>4. dataBuffer \o <<>> = dataBuffer
    BY <1>1
  <2> QED
    BY <2>2, <2>3, <2>4, Zenon DEF Unparsed
<1>3. CASE Insert
  <2>1. (dataBuffer \o staging) \o <<>> = dataBuffer \o staging
    BY <1>1
  <2> QED
    BY <1>3, <2>1, Zenon DEF Insert, lineVars, Unparsed
<1>4. CASE ReadNothing \/ ReceiverLocks \/ BroadcasterLocks \/ Send \/ UNCHANGED vars
  BY <1>4 DEF ReadNothing, ReceiverLocks, BroadcasterLocks, Send, Unparsed,
              vars, lineVars, receiverVars
<1> QED
  BY <1>2, <1>3, <1>4

LEMMA GenuineStep ==
  ASSUME ReaderInv, FrontInv, CopiedGenuine, [Next]_vars,
         \A p, q \in Packets : NoFalseHeader(p, q)
  PROVE  FrontInv' /\ CopiedGenuine'
<1>1. TypeOK
  BY DEF ReaderInv
<1>2. CASE Transmit
  BY <1>1, <1>2, FrontTransmit, GenuineOther DEF Transmit, broadcasterVars
<1>3. CASE Parse
  BY <1>3, FrontParse, GenuineParse
<1>4. CASE \/ \E n \in ReadSizes : Read(n)
           \/ Insert \/ ReadNothing \/ ReceiverLocks \/ BroadcasterLocks \/ Send
           \/ UNCHANGED vars
  <2>1. UNCHANGED <<sent, packet, copied>>
    BY <1>4 DEF Read, Insert, ReadNothing, ReceiverLocks, BroadcasterLocks, Send,
                vars, lineVars, broadcasterVars
  <2>2. Unparsed' = Unparsed
    BY <1>4, UnparsedKept
  <2>3. FrontInv'
    BY <2>1, <2>2, Zenon DEF FrontInv, FrontAt, FirstTwo
  <2> QED
    BY <1>1, <2>1, <2>3, GenuineOther
<1> QED
  BY <1>2, <1>3, <1>4 DEF Next

(* What imu_reader makes of its bytes, for any frames, reads and schedule. *)
THEOREM ReaderInvHolds == Spec => []ReaderInv
<1>1. ReaderInv /\ [Next]_vars => ReaderInv'
  BY NextStep
<1> QED
  BY InitEstablishes, <1>1, PTL DEF Spec

(* Type correctness.                                                       *)
THEOREM ReaderTypeOK == Spec => []TypeOK
<1>1. ReaderInv => TypeOK
  BY DEF ReaderInv
<1> QED
  BY ReaderInvHolds, <1>1, PTL

(* Where char is signed nothing is ever parsed or erased (imu_reader.cpp:  *)
(* 35, findHeader).                                                        *)
THEOREM SignedParsesNothing == Spec => []NothingParsed
<1>1. ReaderInv => NothingParsed
  BY DEF ReaderInv
<1> QED
  BY ReaderInvHolds, <1>1, PTL

(* The first packet that was copied is the only one ever: the erase() of   *)
(* imu_reader.cpp:55 removes nothing from then on.                         *)
THEOREM FirstPacketForEver == Spec => StaysOnFirstFrame
<1>1. ReaderInv /\ [Next]_vars => [copied => copied' /\ packet' = packet]_vars
  BY NextStep
<1> QED
  BY ReaderInvHolds, <1>1, PTL DEF Spec, StaysOnFirstFrame

(* If no two frames in a row hold a false header, what imu_reader copies   *)
(* is a packet that was sent, its fields in the order of the network       *)
(* (imu_reader.cpp:47-57), at whatever byte the program joins, for any     *)
(* frames, reads and schedule.                                             *)
THEOREM CopiedWasSent ==
  ASSUME \A p, q \in Packets : NoFalseHeader(p, q)
  PROVE  Spec => []CopiedGenuine
<1>1. Init => CopiedGenuine
  BY DEF Init, CopiedGenuine
<1>2. ReaderInv /\ FrontInv /\ CopiedGenuine /\ [Next]_vars => FrontInv' /\ CopiedGenuine'
  BY GenuineStep
<1> QED
  BY ReaderInvHolds, FrontInit, <1>1, <1>2, PTL DEF Spec
=============================================================================
