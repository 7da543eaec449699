------------------------- MODULE TimedParserProofs -------------------------
(***************************************************************************)
(* With its clocks imu_parser is still the program of ImuParser: the       *)
(* clocks only rule steps out.  What is proved of it for any delays holds  *)
(* at the actual ones.  And the proof that the program keeps up with the   *)
(* IMU: as long as the host is late by no more than so much, whatever its  *)
(* delays are, what is broadcast is recent and comes in every cycle.       *)
(***************************************************************************)
EXTENDS TimedParser, ImuParserProofs

(* Every step of the timed program is a step of the program without time,  *)
(* or changes clocks only (main(), imu_parser.cpp:89-92).                  *)
THEOREM TimedImplementsParser == TimedSpec => Spec
<1>1. TimedInit => Init
  BY DEF TimedInit
<1>2. [TimedNext]_timedVars => [Next]_vars
  <2> SUFFICES ASSUME [TimedNext]_timedVars PROVE [Next]_vars
    OBVIOUS
  <2>1. CASE Tick
    BY <2>1 DEF Tick
  <2>2. CASE Write
    BY <2>2 DEF Write, Next
  <2>3. CASE \E n \in ReadSizes : Read(n)
    BY <2>3 DEF Read, Next
  <2>4. CASE NothingToRead
    BY <2>4 DEF NothingToRead, Next
  <2>5. CASE Sendto
    BY <2>5 DEF Sendto, Next
  <2>6. CASE WakesUp
    BY <2>6 DEF WakesUp, Next
  <2>7. CASE UNCHANGED timedVars
    BY <2>7 DEF timedVars
  <2> QED
    BY <2>1, <2>2, <2>3, <2>4, <2>5, <2>6, <2>7 DEF TimedNext
<1> QED
  BY <1>1, <1>2, PTL DEF TimedSpec, Spec

(* So the timed program relays too: in order, at most once, unaltered, and *)
(* with at most seven packets lost behind each one taken.                  *)
THEOREM TimedImplementsRelay == TimedSpec => ImplementsRelay
<1> QED
  BY TimedImplementsParser, ParserImplementsRelay, PTL
-----------------------------------------------------------------------------
(* What is unread, in bytes and in frames.                                 *)
Sizes ==
  /\ Len(line) \in Nat /\ Len(inputBuffer) \in Nat /\ Len(ages) \in Nat
  /\ NextFrame \in 0..19
  /\ Len(inputBuffer) + Len(line) = NextFrame + 20 * Len(ages)
  /\ Len(inputBuffer) < NextFrame + 20
  /\ pc \in {"send", "sleep"} => Len(inputBuffer) = 0

LEMMA UnreadSizes == IInv /\ TimedTypeOK /\ Dated => Sizes
<1> SUFFICES ASSUME IInv, TimedTypeOK, Dated PROVE Sizes
  OBVIOUS
<1>1. TypeOK /\ Streaming
  BY DEF IInv
<1>2. /\ Len(line) \in Nat /\ Len(inputBuffer) \in Nat /\ Len(sent) \in Nat
      /\ Base \in Nat /\ Len(Pending) = Len(inputBuffer) + Len(line)
      /\ Base + Len(Pending) = 20 * Len(sent)
  BY <1>1, StreamTypes
<1>3. NextFrame \in 0..19 /\ FramesPassed \in Nat /\ Base + NextFrame = 20 * FramesPassed
  BY <1>2, FrameArithmetic
<1>4. Len(ages) \in Nat /\ Len(ages) = Len(sent) - FramesPassed
  BY DEF TimedTypeOK, Dated
<1>5. Len(inputBuffer) < NextFrame + 20 /\ (pc \in {"send", "sleep"} => inputBuffer = <<>>)
  BY <1>1 DEF Streaming, PACKET_SIZE
<1>6. Len(inputBuffer) + Len(line) = NextFrame + 20 * Len(ages)
  BY <1>2, <1>3, <1>4
<1>7. pc \in {"send", "sleep"} => Len(inputBuffer) = 0
  BY <1>5
<1> QED
  BY <1>2, <1>3, <1>4, <1>5, <1>6, <1>7 DEF Sizes

LEMMA UnreadSizesNext ==
  ASSUME IInv', TimedTypeOK', Dated' PROVE Sizes'
BY UnreadSizes, PTL

(* Of two numbers Min is the smaller one.                                  *)
LEMMA MinOfTwo ==
  ASSUME NEW a \in Int, NEW b \in Int
  PROVE  Min({a, b}) = IF a <= b THEN a ELSE b
<1> DEFINE m == IF a <= b THEN a ELSE b
<1>1. m \in {a, b} /\ \A y \in {a, b} : m <= y
  OBVIOUS
<1>2. \A c \in {a, b} : (\A y \in {a, b} : c <= y) => c = m
  OBVIOUS
<1> QED
  BY <1>1, <1>2 DEF Min

LEMMA ReadTakes ==
  ASSUME Sizes, TimedTypeOK, NEW n \in ReadSizes, Read(n)
  PROVE  /\ n \in 1..128 /\ n <= Len(line)
         /\ \E missing \in 0..20 :
              /\ missing > 0 => imuClock = 0
              /\ \/ n = Len(line) - missing
                 \/ n = 128 /\ n <= Len(line) - missing
<1>1. PICK missing \in OnTheWire : n = Min({STAGING_SIZE, Len(line) - missing})
  BY DEF Read
<1>2. missing \in 0..20 /\ (missing > 0 => imuClock = 0)
  BY TimedAssumption DEF OnTheWire, PACKET_SIZE
<1>3. n = IF 128 <= Len(line) - missing THEN 128 ELSE Len(line) - missing
  <2>1. Len(line) - missing \in Int
    BY <1>2 DEF Sizes
  <2> QED
    BY <1>1, <2>1, MinOfTwo DEF STAGING_SIZE
<1>4. n \in 1..128
  BY ParserAssumption DEF STAGING_SIZE
<1>5. n <= Len(line)
  BY DEF Read, ReadBytes
<1> QED
  BY <1>2, <1>3, <1>4, <1>5 DEF Sizes

-----------------------------------------------------------------------------
(* What each step does to the ages.                                        *)

LEMMA FirstClocks == TimedInit => TimedTypeOK /\ Dated
<1> SUFFICES ASSUME TimedInit PROVE TimedTypeOK /\ Dated
  OBVIOUS
<1> DEFINE m == Len(sent) - FramesPassed
<1>1. FramesPassed \in 0..Len(sent) /\ Len(sent) \in Nat
  BY InitInvariant, PassedRange, StreamTypes DEF IInv, TimedInit
<1>2. m \in Nat
  BY <1>1
<1>3. ages = [k \in 1..m |-> 0] /\ imuClock = 0 /\ clock = 0 /\ age = 0 /\ recovered = -1
  BY DEF TimedInit
<1> HIDE DEF m
<1>4. ages \in Seq(Nat) /\ Len(ages) = m /\ \A k \in 1..m : ages[k] = 0
  BY <1>2, <1>3
<1>5. ages # <<>> => ages[Len(ages)] = imuClock
  BY <1>2, <1>3, <1>4
<1>6. TimedTypeOK
  BY <1>3, <1>4, TimedAssumption DEF TimedTypeOK, PERIOD, ENOUGH
<1> QED
  BY <1>4, <1>5, <1>6 DEF Dated, m

LEMMA TickClocks ==
  ASSUME TimedTypeOK, Dated, Tick
  PROVE  /\ TimedTypeOK' /\ Dated'
         /\ Len(ages') = Len(ages)
         /\ \A k \in 1..Len(ages) : ages'[k] = ages[k] + 1
<1>1. /\ ages \in Seq(Nat) /\ Len(ages) \in Nat
      /\ imuClock \in 0 .. PERIOD + Late /\ clock \in Nat
  BY DEF TimedTypeOK
<1>2. /\ ages' = [k \in DOMAIN ages |-> ages[k] + 1]
      /\ imuClock < PERIOD + Late
      /\ imuClock' = imuClock + 1 /\ clock' = clock + 1
      /\ UNCHANGED <<age, recovered, sent, line, inputBuffer>>
  BY DEF Tick, vars
<1>3. /\ ages' \in Seq(Nat) /\ Len(ages') = Len(ages)
      /\ \A k \in 1..Len(ages) : ages'[k] = ages[k] + 1
  <2>1. ages' = [k \in 1..Len(ages) |-> ages[k] + 1]
    BY <1>1, <1>2
  <2>2. \A k \in 1..Len(ages) : ages[k] + 1 \in Nat
    BY <1>1
  <2> QED
    BY <1>1, <2>1, <2>2
<1>4. TimedTypeOK'
  BY <1>1, <1>2, <1>3, TimedAssumption DEF TimedTypeOK, PERIOD
<1>5. FramesPassed' = FramesPassed
  BY <1>2, NothingPasses
<1>6. ages' # <<>> => ages'[Len(ages')] = imuClock'
  BY <1>1, <1>2, <1>3 DEF Dated
<1> QED
  BY <1>2, <1>3, <1>4, <1>5, <1>6 DEF Dated

LEMMA WriteClocks ==
  ASSUME IInv, TimedTypeOK, Dated, Write
  PROVE  /\ TimedTypeOK' /\ Dated'
         /\ Len(ages') = Len(ages) + 1 /\ ages'[Len(ages) + 1] = 0
         /\ \A k \in 1..Len(ages) : ages'[k] = ages[k]
<1>1. ages \in Seq(Nat) /\ Len(ages) \in Nat
  BY DEF TimedTypeOK
<1>2. /\ Transmit /\ imuClock' = 0 /\ ages' = Append(ages, 0)
      /\ UNCHANGED <<clock, age, recovered>>
  BY DEF Write
<1>3. /\ ages' \in Seq(Nat) /\ Len(ages') = Len(ages) + 1 /\ ages'[Len(ages) + 1] = 0
      /\ \A k \in 1..Len(ages) : ages'[k] = ages[k]
  BY <1>1, <1>2
<1>4. TimedTypeOK'
  BY <1>2, <1>3, TimedAssumption DEF TimedTypeOK, PERIOD
<1>5. FramesPassed' = FramesPassed /\ Len(sent') = Len(sent) + 1
  BY <1>2, TransmitEffect
<1>6. Len(sent) \in Nat /\ FramesPassed \in Nat
  BY StreamTypes, FrameArithmetic DEF IInv
<1>7. Len(ages') = Len(sent') - FramesPassed'
  BY <1>3, <1>5, <1>6 DEF Dated
<1> QED
  BY <1>2, <1>3, <1>4, <1>7 DEF Dated

LEMMA QuietClocks ==
  ASSUME TimedTypeOK, Dated, NothingToRead \/ Sendto \/ WakesUp \/ UNCHANGED timedVars
  PROVE  /\ TimedTypeOK' /\ Dated'
         /\ UNCHANGED <<sent, line, imuClock, ages, age>>
<1>1. /\ UNCHANGED <<sent, line, inputBuffer, imuClock, ages, age>>
      /\ clock' \in {0, clock} /\ recovered' \in {0, recovered}
  <2>1. CASE NothingToRead
    BY <2>1 DEF NothingToRead, ReadWouldBlock, imuVars
  <2>2. CASE Sendto
    BY <2>2 DEF Sendto, Broadcast, imuVars
  <2>3. CASE WakesUp
    BY <2>3 DEF WakesUp, EndSleep, EndBackoff, imuVars
  <2>4. CASE UNCHANGED timedVars
    BY <2>4 DEF timedVars, vars, clocks
  <2> QED
    BY <2>1, <2>2, <2>3, <2>4
<1>2. TimedTypeOK'
  BY <1>1 DEF TimedTypeOK, ENOUGH
<1>3. FramesPassed' = FramesPassed
  BY <1>1, NothingPasses
<1> QED
  BY <1>1, <1>2, <1>3 DEF Dated

LEMMA ReadClocks ==
  ASSUME IInv, TimedTypeOK, Dated, NEW n \in ReadSizes, Read(n)
  PROVE  /\ TimedTypeOK' /\ Dated'
         /\ Len(line') = Len(line) - n
         /\ pc = "read" /\ UNCHANGED <<imuClock, clock, broadcast>>
         /\ \E d \in 0..Len(ages) :
              /\ Len(ages') = Len(ages) - d
              /\ \A k \in 1 .. Len(ages) - d : ages'[k] = ages[k + d]
              /\ \/ pc' = "read" /\ d = 0 /\ UNCHANGED <<age, recovered>>
                 \/ /\ pc' = "send" /\ d > 0 /\ age' = ages[1]
                    /\ recovered' = IF recovered \in 0 .. ENOUGH - 1
                                    THEN recovered + 1 ELSE recovered
<1>1. ages \in Seq(Nat) /\ Len(ages) \in Nat
  BY DEF TimedTypeOK
<1>2. /\ ReadBytes(n)
      /\ ages' = SubSeq(ages, FramesPassed' - FramesPassed + 1, Len(ages))
      /\ UNCHANGED <<imuClock, clock>>
      /\ IF pc' = "send"
         THEN /\ age' = ages[1]
              /\ recovered' = IF recovered \in 0 .. ENOUGH - 1 THEN recovered + 1 ELSE recovered
         ELSE UNCHANGED <<age, recovered>>
  BY DEF Read
<1>3. /\ pc = "read" /\ n <= Len(line) /\ line' = SubSeq(line, n + 1, Len(line))
      /\ UNCHANGED <<sent, broadcast>>
  BY <1>2 DEF ReadBytes
<1>4. Len(sent) \in Nat /\ FramesPassed \in Nat /\ line \in Seq(Byte) /\ Len(line) \in Nat
  BY StreamTypes, FrameArithmetic DEF IInv
<1>5. Len(line') = Len(line) - n
  <2>1. n \in 1..128
    BY ParserAssumption DEF STAGING_SIZE
  <2> QED
    BY <1>3, <1>4, <2>1
<1>6. PICK d \in 0..Len(ages) : /\ FramesPassed' = FramesPassed + d
                                /\ \/ pc' = "read" /\ d = 0
                                   \/ pc' = "send" /\ d > 0
  <2>1. Len(ages) = Len(sent) - FramesPassed
    BY DEF Dated
  <2>2. CASE pc' = "read" /\ FramesPassed' = FramesPassed
    BY <1>1, <1>4, <2>2
  <2>3. CASE /\ pc' = "send" /\ FramesPassed' \in FramesPassed + 1 .. FramesPassed + 8
             /\ FramesPassed' <= Len(sent)
    <3> DEFINE d == FramesPassed' - FramesPassed
    <3>0. /\ FramesPassed' \in FramesPassed + 1 .. FramesPassed + 8
          /\ FramesPassed' <= Len(sent)
      BY <2>3
    <3>1. d \in 0..Len(ages) /\ FramesPassed' = FramesPassed + d /\ d > 0
      <4>1. \A f, g, l \in Nat :
              g \in f + 1 .. f + 8 /\ g <= l => g - f \in 0 .. l - f /\ g = f + (g - f) /\ g - f > 0
        OBVIOUS
      <4>2. FramesPassed' \in Nat
        BY <1>4, <3>0
      <4> QED
        BY <1>4, <2>1, <3>0, <4>1, <4>2, Zenon
    <3> QED
      BY <2>3, <3>1, Zenon
  <2> QED
    BY <1>2, <2>2, <2>3, ReadEffect
<1>7. ages' = SubSeq(ages, d + 1, Len(ages))
  <2>1. FramesPassed' - FramesPassed + 1 = d + 1
    BY <1>4, <1>6
  <2> QED
    BY <1>2, <2>1
<1>8. /\ ages' \in Seq(Nat) /\ Len(ages') = Len(ages) - d
      /\ \A k \in 1 .. Len(ages) - d : ages'[k] = ages[k + d]
  <2>1. Len(ages') = Len(ages) - d
    BY <1>1, <1>6, <1>7, SMTT(30)
  <2>2. \A k \in 1 .. Len(ages) - d : ages'[k] = ages[k + d]
    BY <1>1, <1>6, <1>7, SMTT(30)
  <2> QED
    BY <1>1, <1>6, <1>7, <2>1, <2>2
<1>9. TimedTypeOK'
  <2>1. recovered' \in -1 .. ENOUGH
    BY <1>2 DEF TimedTypeOK, ENOUGH
  <2>2. age' \in Nat
    <3>1. CASE pc' = "send"
      BY <1>1, <1>2, <1>6, <3>1
    <3>2. CASE pc' # "send"
      BY <1>2, <3>2 DEF TimedTypeOK
    <3> QED
      BY <3>1, <3>2
  <2> QED
    BY <1>2, <1>8, <2>1, <2>2 DEF TimedTypeOK
<1>10. Dated'
  <2>1. Len(ages') = Len(sent') - FramesPassed'
    BY <1>1, <1>3, <1>4, <1>6, <1>8 DEF Dated
  <2>2. ASSUME ages' # <<>> PROVE ages'[Len(ages')] = imuClock'
    <3>1. Len(ages) - d \in 1 .. Len(ages) - d
      BY <1>1, <1>6, <1>8, <2>2
    <3>2. (Len(ages) - d) + d = Len(ages) /\ ages # <<>>
      BY <1>1, <1>6, <3>1
    <3> QED
      BY <1>2, <1>8, <3>1, <3>2 DEF Dated
  <2> QED
    BY <2>1, <2>2 DEF Dated
<1> QED
  BY <1>2, <1>3, <1>5, <1>6, <1>8, <1>9, <1>10

(* The ages are those of the frames that have not passed.                  *)
LEMMA ClocksStep ==
  IInv /\ TimedTypeOK /\ Dated /\ [TimedNext]_timedVars => TimedTypeOK' /\ Dated'
<1> SUFFICES ASSUME IInv, TimedTypeOK, Dated, [TimedNext]_timedVars
             PROVE  TimedTypeOK' /\ Dated'
  OBVIOUS
<1>1. CASE Tick
  BY <1>1, TickClocks
<1>2. CASE Write
  BY <1>2, WriteClocks
<1>3. CASE \E n \in ReadSizes : Read(n)
  BY <1>3, ReadClocks
<1>4. CASE NothingToRead \/ Sendto \/ WakesUp \/ UNCHANGED timedVars
  BY <1>4, QuietClocks
<1> QED
  BY <1>1, <1>2, <1>3, <1>4 DEF TimedNext
-----------------------------------------------------------------------------
LEMMA SleepInit == TimedInit => SleepBounded
BY TimedAssumption DEF TimedInit, Init, SleepBounded, PAUSE

LEMMA SleepStep ==
  TimedTypeOK /\ SleepBounded /\ [TimedNext]_timedVars => SleepBounded'
<1> SUFFICES ASSUME TimedTypeOK, SleepBounded, [TimedNext]_timedVars PROVE SleepBounded'
  OBVIOUS
<1> USE TimedAssumption DEF PAUSE, BACKOFF
<1>1. clock \in Nat /\ recovered \in -1..ENOUGH
  BY DEF TimedTypeOK
<1>2. CASE Tick
  BY <1>1, <1>2 DEF Tick, vars, SleepBounded, Overrun
<1>3. CASE Write
  BY <1>3 DEF Write, Transmit, parserVars, SleepBounded, Overrun
<1>4. CASE \E n \in ReadSizes : Read(n)
  <2>1. PICK n \in ReadSizes : Read(n)
    BY <1>4
  <2>2. /\ pc = "read" /\ pc' \in {"read", "send"} /\ clock' = clock
        /\ pc' = "read" => recovered' = recovered
        /\ recovered' \in {recovered} \cup 1..ENOUGH
        /\ recovered' >= 0 => recovered >= 0
    BY <1>1, <2>1 DEF Read, ReadBytes, ENOUGH
  <2> QED
    BY <2>2 DEF SleepBounded
<1>5. CASE NothingToRead
  BY <1>1, <1>5 DEF NothingToRead, ReadWouldBlock, SleepBounded, Overrun
<1>6. CASE Sendto
  BY <1>1, <1>6 DEF Sendto, Broadcast, SleepBounded, Overrun
<1>7. CASE WakesUp
  <2>1. PICK length \in {PAUSE, BACKOFF} :
          /\ \/ length = PAUSE /\ EndSleep
             \/ length = BACKOFF /\ EndBackoff
          /\ \/ clock \in length .. length + Late /\ UNCHANGED recovered
             \/ clock > length + Late /\ recovered = -1 /\ recovered' = 0
          /\ UNCHANGED clock
    BY <1>7 DEF WakesUp
  <2>2. pc' = "read" /\ length \in {8, 1} /\ clock <= length + Overrun
    BY <2>1 DEF EndSleep, EndBackoff, SleepBounded
  <2>3. CASE clock \in length .. length + Late /\ UNCHANGED recovered
    BY <1>1, <2>1, <2>2, <2>3 DEF SleepBounded
  <2>4. CASE clock > length + Late /\ recovered = -1 /\ recovered' = 0
    BY <1>1, <2>1, <2>2, <2>4 DEF SleepBounded, Overrun
  <2> QED
    BY <2>1, <2>3, <2>4
<1>8. CASE UNCHANGED timedVars
  BY <1>8 DEF timedVars, vars, clocks, SleepBounded, Overrun
<1> QED
  BY <1>2, <1>3, <1>4, <1>5, <1>6, <1>7, <1>8 DEF TimedNext

(* What is proved of the clocks for every delay.                           *)
ClockInv == IInv /\ TimedTypeOK /\ Dated /\ SleepBounded

LEMMA ClockInvHolds == TimedSpec => []ClockInv
<1>1. TimedInit => TimedTypeOK /\ Dated /\ SleepBounded
  BY FirstClocks, SleepInit
<1>2. IInv /\ TimedTypeOK /\ Dated /\ SleepBounded /\ [TimedNext]_timedVars
        => (TimedTypeOK /\ Dated /\ SleepBounded)'
  BY ClocksStep, SleepStep
<1>3. TimedSpec => []IInv
  BY TimedImplementsParser, InvariantHolds, PTL
<1>4. TimedSpec /\ []IInv => [](TimedTypeOK /\ Dated /\ SleepBounded)
  BY <1>1, <1>2, PTL DEF TimedSpec
<1> QED
  BY <1>3, <1>4, PTL DEF ClockInv
-----------------------------------------------------------------------------
(* Fewer than two frames wait where a buffer and at most a frame do.       *)
LEMMA OneFrame ==
  ASSUME NEW i \in Nat, NEW l \in Nat, NEW x \in Nat, NEW f \in Nat,
         i + l = x + 20 * f, i < x + 20, l <= 20, f > 0
  PROVE  f = 1 /\ l > 0
OBVIOUS

(* Fewer than 27 bytes are one frame at most, and this one just written.   *)
LEMMA JustWritten ==
  ASSUME NEW f \in Nat, NEW x \in Nat, NEW a \in Nat, f > 0,
         3 * (x + 20 * f) + 20 * a <= 79
  PROVE  f <= 1 /\ a <= 0
OBVIOUS

(* A line that holds no more than has just been written.                   *)
LEMMA WithinFew ==
  ASSUME Len(line) \in 0..20, imuClock \in Nat, Len(line) > 0 => imuClock = 0, Away \in Nat
  PROVE  Within(0)
<1>1. Len(line) > 0 => 3 * Len(line) + 20 * imuClock <= 20 * (3 + Away) + 0
  <2> DEFINE l == Len(line)
  <2>1. l \in Nat /\ l <= 20
    <3>1. \A i \in 0..20 : i \in Nat /\ i <= 20
      OBVIOUS
    <3> QED
      BY <3>1, Zenon
  <2> HIDE DEF l
  <2>2. l > 0 => 3 * l + 20 * imuClock <= 20 * (3 + Away) + 0
    BY <2>1 DEF l
  <2> QED
    BY <2>2 DEF l
<1> QED
  BY <1>1 DEF Within, PACKET_SIZE, PERIOD
-----------------------------------------------------------------------------
(* The largest delays for which the backlog of a stall is gone as said.    *)
ShortStall == Stall + Late <= 23

OnPace ==
  /\ Late <= 11
  /\ recovered = -1 \/ ShortStall
    => Backlog /\ Recent /\ Fresh /\ CatchesUp

LEMMA PaceInit == Late <= 11 /\ TimedInit => OnPace
<1> SUFFICES ASSUME Late <= 11, TimedInit PROVE OnPace
  OBVIOUS
<1>1. TimedTypeOK /\ Dated /\ Sizes
  BY FirstClocks, InitInvariant, UnreadSizes DEF TimedInit
<1>2. pc = "read" /\ recovered = -1 /\ imuClock = 0 /\ clock = 0 /\ Away = 0
  BY DEF TimedInit, Init, Away
<1>3. \A k \in DOMAIN ages : ages[k] <= 0
  BY DEF TimedInit
<1>4. Len(line) \in 0..20
  <2>1. \A p \in Packets : Encode(p) \in Seq(Byte) /\ Len(Encode(p)) = 20
    BY ParserAssumption, EncodeFrame DEF PACKET_SIZE
  <2>2. CASE line = <<>>
    BY <2>2
  <2>3. CASE \E p \in Packets, k \in JoinOffsets : line = SubSeq(Encode(p), k + 1, PACKET_SIZE)
    <3>1. PICK p \in Packets, k \in JoinOffsets : line = SubSeq(Encode(p), k + 1, PACKET_SIZE)
      BY <2>3
    <3>2. k \in 0..20
      BY ParserAssumption DEF PACKET_SIZE
    <3>3. Encode(p) \in Seq(Byte) /\ Len(Encode(p)) = 20
      BY <2>1
    <3> DEFINE e == Encode(p)
    <3> HIDE DEF e
    <3>4. line = SubSeq(e, k + 1, 20) /\ e \in Seq(Byte) /\ Len(e) = 20
      BY <3>1, <3>3 DEF e, PACKET_SIZE
    <3> QED
      BY <3>2, <3>4
  <2> QED
    BY <2>2, <2>3 DEF TimedInit, Init
<1>5. Within(0)
  BY <1>2, <1>4, WithinFew
<1> QED
  BY <1>2, <1>3, <1>5 DEF OnPace, Backlog, Recent, Fresh, CatchesUp

(* Time passes for the line as it does for the program.                    *)
LEMMA TickPace == ClockInv /\ OnPace /\ Tick => OnPace'
<1> SUFFICES ASSUME ClockInv, OnPace, Tick PROVE OnPace'
  OBVIOUS
<1>1. TimedTypeOK /\ Dated /\ Sizes
  BY UnreadSizes DEF ClockInv
<1>2. /\ imuClock \in Nat /\ clock \in Nat /\ Len(line) \in Nat /\ Len(ages) \in Nat
      /\ ages \in Seq(Nat)
  BY <1>1, TimedAssumption DEF TimedTypeOK, Sizes, PERIOD
<1>3. /\ imuClock' = imuClock + 1 /\ Away = clock /\ Away' = clock + 1
      /\ UNCHANGED <<line, pc, recovered>> /\ pc # "send" /\ pc' # "send"
  BY DEF Tick, vars, Away
<1>4. ASSUME NEW slack \in Int, Within(slack) PROVE Within(slack)'
  BY <1>2, <1>3, <1>4 DEF Within, PACKET_SIZE, PERIOD
<1>5. ASSUME recovered = -1 \/ ShortStall PROVE Backlog' /\ Recent'
  <2>1. Backlog /\ Recent
    BY <1>5 DEF OnPace
  <2>2. /\ 0 \in Int /\ PACKET_SIZE - 1 \in Int
        /\ PACKET_SIZE * (PAUSE + Stall) - PERIOD * STAGING_SIZE \in Int
    BY TimedAssumption DEF STAGING_SIZE, PAUSE, PERIOD, PACKET_SIZE
  <2>3. Backlog'
    BY <1>3, <1>4, <2>1, <2>2, Zenon DEF Backlog
  <2>4. Len(ages') = Len(ages) /\ \A k \in 1..Len(ages) : ages'[k] = ages[k] + 1
    BY <1>1, TickClocks
  <2>5. ages' \in Seq(Nat)
    BY <1>1, TickClocks DEF TimedTypeOK
  <2>6. Recent'
    <3> SUFFICES ASSUME recovered = -1 \/ recovered > 1, NEW k \in 1..Len(ages)
                 PROVE  ages'[k] <= Away'
      BY <1>2, <1>3, <2>4, <2>5 DEF Recent
    <3>1. ages[k] <= Away /\ ages[k] \in Nat
      BY <1>2, <2>1 DEF Recent
    <3> QED
      BY <1>2, <1>3, <2>4, <3>1
  <2> QED
    BY <2>3, <2>6
<1> QED
  BY <1>3, <1>5 DEF OnPace, Fresh, CatchesUp

(* A frame that is written leaves its period behind.                       *)
LEMMA WritePace == ClockInv /\ OnPace /\ Write => OnPace'
<1> SUFFICES ASSUME ClockInv, OnPace, Write PROVE OnPace'
  OBVIOUS
<1>1. IInv /\ TimedTypeOK /\ Dated /\ Sizes
  BY UnreadSizes DEF ClockInv
<1>2. /\ imuClock \in Nat /\ Away \in Nat /\ Len(line) \in Nat /\ Len(ages) \in Nat
      /\ ages \in Seq(Nat)
  BY <1>1, TimedAssumption DEF TimedTypeOK, Sizes, PERIOD, Away
<1>3. /\ imuClock >= 3 /\ imuClock' = 0 /\ Transmit
      /\ UNCHANGED <<pc, age, recovered, clock>> /\ Away' = Away
  BY DEF Write, Transmit, parserVars, PERIOD, Away
<1>4. Len(line') = Len(line) + 20
  BY <1>1, <1>3, TransmitEffect
<1>5. /\ Len(line) = 0 => Within(0)'
      /\ \A slack \in Int : Len(line) > 0 /\ Within(slack) => Within(slack)'
  BY <1>2, <1>3, <1>4 DEF Within, PACKET_SIZE, PERIOD
<1>6. ASSUME recovered = -1 \/ ShortStall PROVE Backlog' /\ Recent'
  <2>1. Backlog /\ Recent
    BY <1>6 DEF OnPace
  <2>2. /\ 0 \in Int /\ PACKET_SIZE - 1 \in Int
        /\ PACKET_SIZE * (PAUSE + Stall) - PERIOD * STAGING_SIZE \in Int
    BY TimedAssumption DEF STAGING_SIZE, PAUSE, PERIOD, PACKET_SIZE
  <2>3. Backlog'
    <3>1. Len(line) = 0 \/ Len(line) > 0
      BY <1>2
    <3> QED
      BY <1>3, <1>5, <2>1, <2>2, <3>1, Zenon DEF Backlog
  <2>4. /\ Len(ages') = Len(ages) + 1 /\ ages'[Len(ages) + 1] = 0
        /\ \A k \in 1..Len(ages) : ages'[k] = ages[k]
    BY <1>1, WriteClocks
  <2>5. ages' \in Seq(Nat)
    BY <1>1, WriteClocks DEF TimedTypeOK
  <2>6. Recent'
    <3> SUFFICES ASSUME recovered = -1 \/ recovered > 1, NEW k \in 1 .. Len(ages) + 1
                 PROVE  ages'[k] <= Away'
      BY <1>2, <1>3, <2>4, <2>5 DEF Recent
    <3>1. CASE k \in 1..Len(ages)
      BY <1>2, <1>3, <2>1, <2>4, <3>1 DEF Recent
    <3>2. CASE k = Len(ages) + 1
      BY <1>2, <1>3, <2>4, <3>2
    <3> QED
      BY <1>2, <3>1, <3>2
  <2> QED
    BY <2>3, <2>6
<1> QED
  BY <1>3, <1>6 DEF OnPace, Fresh, CatchesUp

(* A read that takes no packet takes nothing but time from what waits.     *)
LEMMA ReadOnPace ==
  ASSUME ClockInv, OnPace, NEW n \in ReadSizes, Read(n), pc' = "read"
  PROVE  OnPace'
<1>1. IInv /\ TimedTypeOK /\ Dated /\ Sizes
  BY UnreadSizes DEF ClockInv
<1>2. /\ imuClock \in Nat /\ clock \in Nat /\ Len(line) \in Nat /\ Len(ages) \in Nat
      /\ ages \in Seq(Nat)
  BY <1>1, TimedAssumption DEF TimedTypeOK, Sizes, PERIOD
<1>3. /\ pc = "read" /\ UNCHANGED <<imuClock, clock>> /\ Len(line') = Len(line) - n
  BY <1>1, ReadClocks
<1>4. n \in 1..128 /\ n <= Len(line)
  BY <1>1, ReadTakes
<1>5. /\ Len(ages') = Len(ages) /\ UNCHANGED recovered
      /\ \A k \in 1..Len(ages) : ages'[k] = ages[k]
  <2>1. PICK d \in 0..Len(ages) :
          /\ Len(ages') = Len(ages) - d
          /\ \A k \in 1 .. Len(ages) - d : ages'[k] = ages[k + d]
          /\ \/ pc' = "read" /\ d = 0 /\ UNCHANGED recovered
             \/ pc' = "send"
    BY <1>1, ReadClocks
  <2> QED
    BY <1>2, <2>1
<1>6. Away = clock /\ Away' = clock
  BY <1>3 DEF Away
<1>7. ASSUME NEW slack \in Int, Within(slack) PROVE Within(slack)'
  <2>1. n > 0 /\ n \in Nat
    BY <1>4
  <2> QED
    BY <1>2, <1>3, <1>4, <1>6, <1>7, <2>1 DEF Within, PACKET_SIZE, PERIOD
<1>8. ASSUME recovered = -1 \/ ShortStall PROVE Backlog' /\ Recent'
  <2>1. Backlog /\ Recent
    BY <1>8 DEF OnPace
  <2>2. /\ 0 \in Int /\ PACKET_SIZE - 1 \in Int
        /\ PACKET_SIZE * (PAUSE + Stall) - PERIOD * STAGING_SIZE \in Int
    BY TimedAssumption DEF STAGING_SIZE, PAUSE, PERIOD, PACKET_SIZE
  <2>3. Backlog'
    BY <1>5, <1>7, <2>1, <2>2, Zenon DEF Backlog
  <2>4. ages' \in Seq(Nat)
    BY <1>1, ReadClocks DEF TimedTypeOK
  <2>5. DOMAIN ages' = DOMAIN ages /\ \A k \in DOMAIN ages : ages'[k] = ages[k]
    BY <1>2, <1>5, <2>4
  <2>6. Recent'
    BY <1>5, <1>6, <2>1, <2>5, Zenon DEF Recent
  <2> QED
    BY <2>3, <2>6
<1> QED
  BY <1>5, <1>8 DEF OnPace, Fresh, CatchesUp

(* A read that takes a packet empties the line, or takes one chunk of the  *)
(* backlog of a stall.                                                     *)
LEMMA TakeBacklog ==
  ASSUME ClockInv, Late <= 11, Backlog, recovered = -1 \/ ShortStall,
         NEW n \in ReadSizes, Read(n), pc' = "send"
  PROVE  Backlog'
<1>1. IInv /\ TimedTypeOK /\ Dated /\ Sizes
  BY UnreadSizes DEF ClockInv
<1>2. /\ imuClock \in Nat /\ clock \in Nat /\ Len(line) \in Nat
      /\ recovered \in -1..4 /\ Late \in Nat /\ Stall \in Nat
  BY <1>1, TimedAssumption DEF TimedTypeOK, Sizes, PERIOD, ENOUGH
<1>3. /\ pc = "read" /\ UNCHANGED imuClock /\ Len(line') = Len(line) - n
      /\ recovered' = IF recovered \in 0 .. ENOUGH - 1 THEN recovered + 1 ELSE recovered
  BY <1>1, ReadClocks
<1>4. Away = clock /\ Away' = 0
  BY <1>3 DEF Away
<1>5. PICK missing \in 0..20 :
        /\ missing > 0 => imuClock = 0
        /\ \/ n = Len(line) - missing
           \/ n = 128 /\ n <= Len(line) - missing
  BY <1>1, ReadTakes
<1>6. clock <= 8 + (IF recovered = 0 THEN Stall ELSE Late)
  BY <1>3 DEF ClockInv, SleepBounded, PAUSE
<1>7. Len(line') \in Nat
  BY <1>1, <1>2, <1>3, ReadTakes
<1>8. CASE n = Len(line) - missing
  <2>1. Len(line') = missing
    BY <1>2, <1>3, <1>8
  <2>2. Len(line') > 0 => 3 * Len(line') + 20 * imuClock <= 20 * (3 + 0) + 0
    <3>1. missing \in Nat /\ missing <= 20
      OBVIOUS
    <3> QED
      BY <1>2, <1>5, <2>1, <3>1
  <2>3. Within(0)'
    BY <1>3, <1>4, <2>2 DEF Within, PACKET_SIZE, PERIOD
  <2> QED
    BY <2>3 DEF Backlog
<1>9. CASE n = 128 /\ n <= Len(line) - missing
  <2>1. Len(line) >= 128 /\ Len(line') = Len(line) - 128
    BY <1>2, <1>3, <1>9
  <2>2. ASSUME NEW slack \in Int, Within(slack), NEW left \in Int,
               20 * clock + slack - 384 <= left
        PROVE  Within(left)'
    <3>1. 3 * Len(line) + 20 * imuClock <= 20 * (3 + clock) + slack
      BY <1>2, <1>4, <2>1, <2>2 DEF Within, PACKET_SIZE, PERIOD
    <3>2. 3 * Len(line') + 20 * imuClock <= 20 * (3 + 0) + left
      BY <1>2, <2>1, <2>2, <3>1
    <3> QED
      BY <1>3, <1>4, <3>2 DEF Within, PACKET_SIZE, PERIOD
  <2>3. CASE Within(0) /\ recovered = 0
    <3>1. Within(20 * (8 + Stall) - 384)'
      <4>1. 20 * clock + 0 - 384 <= 20 * (8 + Stall) - 384 /\ 20 * (8 + Stall) - 384 \in Int
        BY <1>2, <1>6, <2>3
      <4> QED
        BY <2>2, <2>3, <4>1
    <3>2. recovered' = 1
      BY <1>3, <2>3 DEF ENOUGH
    <3> QED
      BY <3>1, <3>2 DEF Backlog, STAGING_SIZE, PAUSE, PACKET_SIZE, PERIOD
  <2>4. CASE Within(0) /\ recovered # 0
    <3>1. 20 * clock + 0 - 384 <= 0
      BY <1>2, <1>6, <2>4
    <3>2. Within(0)'
      BY <2>2, <2>4, <3>1
    <3> QED
      BY <3>2 DEF Backlog
  <2>5. CASE recovered = 1 /\ Within(20 * (8 + Stall) - 384)
    <3>1. /\ 20 * clock + (20 * (8 + Stall) - 384) - 384 <= 19
          /\ 20 * (8 + Stall) - 384 \in Int
      BY <1>2, <1>6, <2>5 DEF ShortStall
    <3>2. Within(19)'
      BY <2>2, <2>5, <3>1
    <3>3. recovered' > 1
      BY <1>3, <2>5 DEF ENOUGH
    <3> QED
      BY <3>2, <3>3 DEF Backlog, PACKET_SIZE
  <2>6. CASE recovered > 1 /\ Within(19)
    <3>1. 20 * clock + 19 - 384 <= 19
      BY <1>2, <1>6, <2>6
    <3>2. Within(19)'
      BY <2>2, <2>6, <3>1
    <3>3. recovered' > 1
      BY <1>2, <1>3, <2>6 DEF ENOUGH
    <3> QED
      BY <3>2, <3>3 DEF Backlog, PACKET_SIZE
  <2> QED
    BY <2>3, <2>4, <2>5, <2>6 DEF Backlog, STAGING_SIZE, PAUSE, PACKET_SIZE, PERIOD
<1> QED
  BY <1>5, <1>8, <1>9

(* A frame that a packet taken leaves whole on the line has just been      *)
(* written, but for the first packet after the stall.                      *)
LEMMA LeavesRecent ==
  ClockInv /\ (ShortStall \/ recovered = -1) /\ Backlog /\ pc = "send" => Recent
<1> SUFFICES ASSUME ClockInv, ShortStall \/ recovered = -1, Backlog, pc = "send"
             PROVE  Recent
  OBVIOUS
<1>1. TimedTypeOK /\ Dated /\ Sizes
  BY UnreadSizes DEF ClockInv
<1>2. /\ imuClock \in Nat /\ Len(line) \in Nat /\ Len(ages) \in Nat /\ ages \in Seq(Nat)
      /\ NextFrame \in 0..19 /\ Len(line) = NextFrame + 20 * Len(ages)
      /\ Late \in Nat /\ Stall \in Nat
  BY <1>1, TimedAssumption DEF TimedTypeOK, Sizes, PERIOD
<1>3. Away = 0
  BY DEF Away
<1>4. ages # <<>> => ages[Len(ages)] = imuClock
  BY <1>1 DEF Dated
<1>5. CASE Within(0) \/ Within(19)
  <2>1. ASSUME NEW k \in DOMAIN ages PROVE ages[k] <= Away
    <3>1. k \in 1..Len(ages) /\ ages # <<>>
      BY <1>2, <2>1
    <3>2. NextFrame \in Nat
      BY <1>2
    <3>3. Len(line) > 0 /\ 3 * Len(line) + 20 * imuClock <= 79
      BY <1>2, <1>3, <1>5, <3>1, <3>2 DEF Within, PACKET_SIZE, PERIOD
    <3>4. Len(ages) = 1 /\ imuClock = 0
      <4>1. Len(ages) > 0
        BY <1>2, <3>1
      <4>2. 3 * (NextFrame + 20 * Len(ages)) + 20 * imuClock <= 79
        BY <1>2, <3>3
      <4>3. NextFrame \in Nat /\ Len(ages) \in Nat /\ imuClock \in Nat
        BY <1>2, <3>2
      <4>4. Len(ages) <= 1 /\ imuClock <= 0
        BY <4>1, <4>2, <4>3, JustWritten, Zenon
      <4> QED
        BY <4>1, <4>3, <4>4
    <3> QED
      BY <1>2, <1>3, <1>4, <3>1, <3>4
  <2> QED
    BY <2>1 DEF Recent
<1>6. CASE recovered = 1
  BY <1>6 DEF Recent
<1> QED
  BY <1>5, <1>6 DEF Backlog, PACKET_SIZE

LEMMA LeavesRecentNext ==
  ASSUME ClockInv', (ShortStall \/ recovered = -1)', Backlog', (pc = "send")'
  PROVE  Recent'
BY LeavesRecent, PTL

LEMMA ReadPace ==
  ASSUME ClockInv, ClockInv', OnPace, NEW n \in ReadSizes, Read(n)
  PROVE  OnPace'
<1>1. IInv /\ TimedTypeOK /\ Dated
  BY DEF ClockInv
<1>2. PICK d \in 0..Len(ages) :
        \/ pc' = "read" /\ d = 0
        \/ /\ pc' = "send" /\ d > 0 /\ age' = ages[1]
           /\ recovered' = IF recovered \in 0 .. ENOUGH - 1 THEN recovered + 1 ELSE recovered
  BY <1>1, ReadClocks
<1>3. CASE pc' = "read"
  BY <1>3, ReadOnPace
<1>4. CASE pc' = "send"
  <2>1. d > 0 /\ age' = ages[1] /\ pc = "read"
        /\ recovered' = IF recovered \in 0 .. ENOUGH - 1 THEN recovered + 1 ELSE recovered
    BY <1>1, <1>2, <1>4, ReadClocks
  <2>2. /\ recovered \in -1..4 /\ ages \in Seq(Nat) /\ Len(ages) \in Nat /\ clock \in Nat
        /\ Late \in Nat
    BY <1>1, TimedAssumption DEF TimedTypeOK, ENOUGH
  <2>3. /\ recovered' = -1 <=> recovered = -1
        /\ recovered' > 2 => recovered > 1
    BY <2>1, <2>2 DEF ENOUGH
  <2>4. SUFFICES ASSUME recovered = -1 \/ ShortStall
                 PROVE  Backlog' /\ Recent' /\ Fresh' /\ CatchesUp'
    BY <2>3 DEF OnPace, ShortStall
  <2>5. Backlog /\ Recent /\ Late <= 11
    BY <2>4 DEF OnPace
  <2>6. Backlog'
    BY <1>4, <2>4, <2>5, TakeBacklog
  <2>7. Recent'
    <3>1. (ShortStall \/ recovered = -1)'
      BY <2>3, <2>4 DEF ShortStall
    <3> QED
      BY <1>4, <2>6, <3>1, LeavesRecentNext, Zenon
  <2>8. ASSUME recovered = -1 \/ recovered > 1 PROVE age' <= PAUSE + Late
    <3>1. clock <= 8 + Late
      BY <2>1, <2>8 DEF ClockInv, SleepBounded, PAUSE
    <3>2. 1 \in DOMAIN ages
      BY <1>2, <2>1, <2>2
    <3>3. ages[1] <= clock
      BY <2>1, <2>5, <2>8, <3>2 DEF Recent, Away
    <3> QED
      BY <2>1, <2>2, <3>1, <3>2, <3>3 DEF PAUSE
  <2>9. Fresh' /\ CatchesUp'
    BY <2>3, <2>8 DEF Fresh, CatchesUp
  <2> QED
    BY <2>6, <2>7, <2>9
<1> QED
  BY <1>2, <1>3, <1>4

(* Nothing to read: what there is has just been written.                   *)
LEMMA NothingPace == ClockInv /\ OnPace /\ NothingToRead => OnPace'
<1> SUFFICES ASSUME ClockInv, OnPace, NothingToRead PROVE OnPace'
  OBVIOUS
<1>1. TimedTypeOK /\ Dated /\ Sizes
  BY UnreadSizes DEF ClockInv
<1>2. /\ imuClock \in Nat /\ Len(line) \in Nat /\ Len(ages) \in Nat /\ ages \in Seq(Nat)
      /\ NextFrame \in 0..19 /\ Len(inputBuffer) \in Nat
      /\ Len(inputBuffer) + Len(line) = NextFrame + 20 * Len(ages)
      /\ Len(inputBuffer) < NextFrame + 20
  BY <1>1, TimedAssumption DEF TimedTypeOK, Sizes, PERIOD
<1>3. /\ Len(line) \in OnTheWire \cup {0} /\ pc' = "backoff" /\ clock' = 0 /\ Away' = 0
      /\ UNCHANGED <<line, imuClock, ages, recovered>>
  BY DEF NothingToRead, ReadWouldBlock, imuVars, Away
<1>4. Len(line) \in 0..20 /\ (Len(line) > 0 => imuClock = 0)
  <2>1. CASE imuClock = 0
    <3>1. \A m \in InFlight : m \in 0..20
      BY TimedAssumption DEF PACKET_SIZE
    <3> DEFINE l == Len(line)
    <3>2. l \in InFlight \/ l = 0
      BY <1>3, <2>1 DEF OnTheWire
    <3> HIDE DEF l
    <3>3. l \in 0..20
      BY <3>1, <3>2
    <3> QED
      BY <2>1, <3>3 DEF l
  <2>2. CASE imuClock # 0
    <3>1. Len(line) = 0
      BY <1>3, <2>2 DEF OnTheWire
    <3> QED
      BY <3>1
  <2> QED
    BY <2>1, <2>2
<1>5. Backlog'
  <2>1. Len(line) > 0 => 3 * Len(line) + 20 * imuClock <= 20 * (3 + 0) + 0
    <3>1. Len(line) <= 20
      <4>1. \A l \in 0..20 : l <= 20
        OBVIOUS
      <4> QED
        BY <1>4, <4>1, Zenon
    <3> QED
      BY <1>2, <1>4, <3>1
  <2>2. Within(0)'
    BY <1>3, <2>1 DEF Within, PACKET_SIZE, PERIOD
  <2> QED
    BY <2>2 DEF Backlog
<1>6. Recent'
  <2>1. ASSUME NEW k \in DOMAIN ages PROVE ages[k] <= 0
    <3>1. k \in 1..Len(ages) /\ ages # <<>>
      BY <1>2, <2>1
    <3>2. Len(ages) = 1 /\ Len(line) > 0
      <4>1. Len(ages) > 0 /\ NextFrame \in Nat /\ Len(line) <= 20
        <5>1. Len(ages) > 0
          BY <1>2, <3>1
        <5>2. NextFrame \in Nat
          BY <1>2
        <5>3. \A l \in 0..20 : l <= 20
          OBVIOUS
        <5> QED
          BY <1>4, <5>1, <5>2, <5>3, Zenon
      <4> QED
        BY <1>2, <4>1, OneFrame, Zenon
    <3>3. ages[Len(ages)] = imuClock
      BY <1>1, <3>1 DEF Dated
    <3> QED
      BY <1>2, <1>4, <3>1, <3>2, <3>3
  <2> QED
    BY <1>3, <2>1 DEF Recent
<1> QED
  BY <1>3, <1>5, <1>6 DEF OnPace, Fresh, CatchesUp

(* The clock of the program starts when it goes to sleep.                  *)
LEMMA RestPace ==
  ASSUME ClockInv, OnPace, Sendto \/ WakesUp \/ UNCHANGED timedVars
  PROVE  OnPace'
<1>1. /\ UNCHANGED <<line, imuClock, ages, age>> /\ Away' = Away
      /\ pc' = "send" => pc = "send"
      /\ \/ UNCHANGED recovered
         \/ recovered = -1 /\ recovered' = 0
  <2>1. CASE Sendto
    BY <2>1 DEF Sendto, Broadcast, imuVars, Away
  <2>2. CASE WakesUp
    BY <2>2 DEF WakesUp, EndSleep, EndBackoff, imuVars, Away
  <2>3. CASE UNCHANGED timedVars
    BY <2>3 DEF timedVars, vars, clocks, Away
  <2> QED
    BY <2>1, <2>2, <2>3
<1>2. \A slack : Within(slack)' <=> Within(slack)
  BY <1>1 DEF Within
<1>3. CASE UNCHANGED recovered
  BY <1>1, <1>2, <1>3 DEF OnPace, Backlog, Recent, Fresh, CatchesUp
<1>4. CASE recovered = -1 /\ recovered' = 0
  <2>1. pc' # "send" \/ recovered' = 0
    BY <1>4
  <2>2. OnPace => Within(0)
    BY <1>4 DEF OnPace, Backlog
  <2>3. Backlog'
    BY <1>2, <2>2 DEF Backlog
  <2> QED
    BY <1>1, <1>4, <2>3 DEF OnPace, Recent, Fresh, CatchesUp
<1> QED
  BY <1>1, <1>3, <1>4

LEMMA PaceStep == ClockInv /\ ClockInv' /\ OnPace /\ [TimedNext]_timedVars => OnPace'
<1> SUFFICES ASSUME ClockInv, ClockInv', OnPace, [TimedNext]_timedVars PROVE OnPace'
  OBVIOUS
<1>1. CASE Tick
  BY <1>1, TickPace
<1>2. CASE Write
  BY <1>2, WritePace
<1>3. CASE \E n \in ReadSizes : Read(n)
  BY <1>3, ReadPace
<1>4. CASE NothingToRead
  BY <1>4, NothingPace
<1>5. CASE Sendto \/ WakesUp \/ UNCHANGED timedVars
  BY <1>5, RestPace
<1> QED
  BY <1>1, <1>2, <1>3, <1>4, <1>5 DEF TimedNext

LEMMA PaceHolds == Late <= 11 => (TimedSpec => []OnPace)
<1>1. Late <= 11 /\ TimedInit => OnPace
  BY PaceInit
<1>2. ClockInv /\ ClockInv' /\ OnPace /\ [TimedNext]_timedVars => OnPace'
  BY PaceStep
<1> QED
  BY <1>1, <1>2, ClockInvHolds, PTL DEF TimedSpec

(* The line never gets ahead of the program by more than a frame and what  *)
(* a sleep brings, but for what is left of a stall, of which the second    *)
(* packet behind it leaves less than seven bytes (imu_parser.cpp:18-21 and *)
(* 91).                                                                    *)
THEOREM BacklogHolds == Late <= 11 /\ ShortStall => (TimedSpec => []Backlog)
<1> SUFFICES ASSUME Late <= 11, ShortStall PROVE TimedSpec => []Backlog
  OBVIOUS
<1>1. OnPace => Backlog
  BY DEF OnPace
<1> QED
  BY <1>1, PaceHolds, PTL

(* As long as the host is late by no more than Late, up to 110 ms, what is *)
(* broadcast is at most one sleep old: the clear() of parsePacket          *)
(* (parse_functions.cpp:49) keeps the frames of a sleep from piling up.    *)
THEOREM FreshHolds == Late <= 11 => (TimedSpec => []Fresh)
<1>1. OnPace => Fresh
  BY DEF OnPace, Fresh
<1> QED
  BY <1>1, PaceHolds, PTL

(* After a stall of up to 230 ms, Late included, the backlog is gone with  *)
(* the third packet (imu_parser.cpp:91, parse_functions.cpp:49).           *)
THEOREM CatchesUpHolds == Late <= 11 /\ ShortStall => (TimedSpec => []CatchesUp)
<1> SUFFICES ASSUME Late <= 11, ShortStall PROVE TimedSpec => []CatchesUp
  OBVIOUS
<1>1. OnPace => CatchesUp
  BY DEF OnPace
<1> QED
  BY <1>1, PaceHolds, PTL
-----------------------------------------------------------------------------
LEMMA CycleInit == TimedInit => Cycle /\ EveryCycle
BY DEF TimedInit, Init, Cycle, EveryCycle

(* Away from the line for a sleep the program finds a frame there.         *)
LEMMA ArrivedFrame ==
  ASSUME ClockInv, Arrived, pc = "read", inputBuffer = <<>>
  PROVE  /\ Len(line) \notin OnTheWire \cup {0}
         /\ \A n \in ReadSizes : Read(n) => pc' = "send"
<1>1. IInv /\ TimedTypeOK /\ Dated /\ Sizes
  BY UnreadSizes DEF ClockInv
<1> DEFINE l == Len(line)
           f == Len(ages)
           x == NextFrame
<1>2. /\ imuClock \in Nat /\ l \in Nat /\ f \in Nat /\ x \in 0..19
      /\ Len(inputBuffer) = 0 /\ l = x + 20 * f
  BY <1>1, TimedAssumption DEF TimedTypeOK, Sizes, PERIOD
<1>3. f > 0 /\ (f > 1 \/ imuClock > 0)
  <2>1. ages # <<>> => f > 0
    BY <1>1 DEF TimedTypeOK
  <2> QED
    BY <1>2, <2>1 DEF Arrived
<1> HIDE DEF l, f, x
<1>4. ASSUME NEW m \in 0..20, m > 0 => imuClock = 0 PROVE l - m >= x + 20
  BY <1>2, <1>3, <1>4
<1>5. l \notin OnTheWire \cup {0}
  <2>1. \A m \in InFlight : m \in 0..20
    BY TimedAssumption DEF PACKET_SIZE
  <2>2. \A m \in OnTheWire : m \in 0..20 /\ (m > 0 => imuClock = 0)
    BY <2>1 DEF OnTheWire
  <2>3. SUFFICES ASSUME l \in OnTheWire \cup {0} PROVE FALSE
    OBVIOUS
  <2>4. l \in 0..20 /\ (l > 0 => imuClock = 0)
    BY <2>2, <2>3
  <2>5. l - l >= x + 20
    BY <1>4, <2>4
  <2> QED
    BY <1>2, <2>5
<1>6. ASSUME NEW n \in ReadSizes, Read(n) PROVE pc' = "send"
  <2>1. n \in 1..128 /\ n <= Len(line)
    BY <1>1, <1>6, ReadTakes
  <2>2. PICK missing \in 0..20 :
          /\ missing > 0 => imuClock = 0
          /\ \/ n = Len(line) - missing
             \/ n = 128 /\ n <= Len(line) - missing
    BY <1>1, <1>6, ReadTakes
  <2>3. n = l - missing \/ n = 128
    BY <2>2 DEF l
  <2>4. x + 20 <= 0 + n
    BY <1>2, <1>4, <2>1, <2>2, <2>3
  <2>5. TypeOK /\ Streaming /\ NextFrame + 20 <= Len(inputBuffer) + n
    BY <1>1, <1>2, <2>4 DEF IInv, x
  <2>6. ParsePacket(Received(n), indexInBuffer, little_endian).second = TRUE
    <3>1. ParsePacket(Received(n), indexInBuffer, little_endian) =
            [ buffer |-> <<>>, position |-> 0, second |-> TRUE,
              first |-> sent[FramesPassed + 1] ]
      BY <2>1, <2>5, ReadOutcome, Zenon
    <3> QED
      BY <3>1
  <2>7. ReadBytes(n)
    BY <1>6 DEF Read
  <2> QED
    BY <2>6, <2>7 DEF ReadBytes
<1> QED
  BY <1>5, <1>6 DEF l

LEMMA CycleStep ==
  Late <= 4 /\ ClockInv /\ Cycle /\ EveryCycle /\ [TimedNext]_timedVars
    => Cycle' /\ EveryCycle'
<1> SUFFICES ASSUME Late <= 4, ClockInv, Cycle, EveryCycle, [TimedNext]_timedVars
             PROVE  Cycle' /\ EveryCycle'
  OBVIOUS
<1>1. IInv /\ TypeOK /\ TimedTypeOK /\ Dated /\ Sizes
  BY UnreadSizes DEF ClockInv, IInv
<1>2. /\ imuClock \in 0 .. 3 + Late /\ clock \in Nat /\ Late \in Nat
      /\ ages \in Seq(Nat) /\ Len(ages) \in Nat /\ (ages = <<>> <=> Len(ages) = 0)
  BY <1>1, TimedAssumption DEF TimedTypeOK, PERIOD
<1>3. CASE Tick
  <2>1. Len(ages') = Len(ages) /\ ages' \in Seq(Nat)
    BY <1>1, <1>3, TickClocks DEF TimedTypeOK
  <2>2. ages' = <<>> <=> ages = <<>>
    BY <1>2, <2>1
  <2>3. /\ imuClock' = imuClock + 1 /\ clock' = clock + 1
        /\ UNCHANGED <<pc, broadcast, inputBuffer>> /\ pc # "read"
    BY <1>3 DEF Tick, vars
  <2> QED
    BY <1>2, <2>1, <2>2, <2>3 DEF Cycle, EveryCycle, Arrived
<1>4. CASE Write
  <2>1. Len(ages') = Len(ages) + 1 /\ ages' \in Seq(Nat)
    BY <1>1, <1>4, WriteClocks DEF TimedTypeOK
  <2>2. ages' # <<>>
    BY <1>2, <2>1
  <2>3. /\ imuClock' = 0 /\ UNCHANGED <<clock, pc, broadcast, inputBuffer>>
    BY <1>4 DEF Write, Transmit, parserVars
  <2>4. Arrived => Arrived'
    BY <1>2, <2>1, <2>2 DEF Arrived
  <2>5. ASSUME pc = "sleep", ~ Arrived' PROVE clock <= 3 + Late
    <3>1. ages = <<>>
      BY <1>2, <2>1, <2>5 DEF Arrived
    <3> QED
      BY <1>2, <2>5, <3>1 DEF Cycle
  <2> QED
    BY <2>2, <2>3, <2>4, <2>5 DEF Cycle, EveryCycle, PERIOD
<1>5. CASE \E n \in ReadSizes : Read(n)
  <2>1. PICK n \in ReadSizes : Read(n)
    BY <1>5
  <2>2. pc = "read" /\ pc' \in {"read", "send"} /\ broadcast' = broadcast
    BY <2>1 DEF Read, ReadBytes
  <2>3. broadcast # <<>> => pc' = "send"
    BY <2>1, <2>2, ArrivedFrame DEF Cycle
  <2> QED
    BY <2>2, <2>3 DEF Cycle, EveryCycle
<1>6. CASE NothingToRead
  <2>1. /\ pc = "read" /\ pc' = "backoff" /\ broadcast' = broadcast
        /\ Len(line) \in OnTheWire \cup {0}
    BY <1>6 DEF NothingToRead, ReadWouldBlock
  <2>2. broadcast = <<>>
    BY <2>1, ArrivedFrame DEF Cycle
  <2> QED
    BY <2>1, <2>2 DEF Cycle, EveryCycle
<1>7. CASE Sendto
  <2>1. /\ pc' = "sleep" /\ broadcast' = Append(broadcast, packet) /\ clock' = 0
        /\ UNCHANGED <<imuClock, ages>>
    BY <1>7 DEF Sendto, Broadcast
  <2>2. broadcast' # <<>>
    <3>1. broadcast \in Seq(ParsedPacket)
      BY <1>1 DEF TypeOK
    <3> QED
      BY <2>1, <3>1
  <2> QED
    BY <1>2, <2>1, <2>2 DEF Cycle, EveryCycle, PERIOD
<1>8. CASE WakesUp
  <2>1. pc' = "read" /\ UNCHANGED <<imuClock, clock, ages, broadcast, inputBuffer>>
    BY <1>8 DEF WakesUp, EndSleep, EndBackoff, imuVars
  <2>2. CASE pc = "backoff"
    BY <2>1, <2>2 DEF Cycle, EveryCycle
  <2>3. CASE pc # "backoff"
    <3>1. pc = "sleep" /\ clock >= 8
      <4>1. PICK length \in {PAUSE, BACKOFF} :
              /\ \/ length = PAUSE /\ EndSleep
                 \/ length = BACKOFF /\ EndBackoff
              /\ clock >= length
        BY <1>2, <1>8 DEF WakesUp, PAUSE, BACKOFF
      <4> QED
        BY <2>3, <4>1 DEF EndSleep, EndBackoff, PAUSE
    <3>2. inputBuffer = <<>>
      BY <1>1, <3>1 DEF IInv, Streaming
    <3>3. Arrived
      <4>1. ages # <<>>
        BY <1>2, <3>1 DEF Cycle
      <4> QED
        BY <1>2, <3>1, <4>1 DEF Cycle, PERIOD
    <3>4. Arrived'
      BY <2>1, <3>3 DEF Arrived
    <3> QED
      BY <2>1, <3>2, <3>4 DEF Cycle, EveryCycle
  <2> QED
    BY <2>2, <2>3
<1>9. CASE UNCHANGED timedVars
  BY <1>9 DEF timedVars, vars, clocks, Cycle, EveryCycle, Arrived
<1> QED
  BY <1>3, <1>4, <1>5, <1>6, <1>7, <1>8, <1>9 DEF TimedNext

(* Once it has broadcast, imu_parser finds a frame whenever its 80 ms are  *)
(* over and never has to back off (imu_parser.cpp:32), as long as neither  *)
(* end of the line is late by more than 40 ms.                             *)
THEOREM EveryCycleHolds == Late <= 4 => (TimedSpec => []EveryCycle)
<1> SUFFICES ASSUME Late <= 4 PROVE TimedSpec => []EveryCycle
  OBVIOUS
<1>1. TimedInit => Cycle /\ EveryCycle
  BY CycleInit
<1>2. ClockInv /\ (Cycle /\ EveryCycle) /\ [TimedNext]_timedVars => (Cycle /\ EveryCycle)'
  BY CycleStep
<1> QED
  BY <1>1, <1>2, ClockInvHolds, PTL DEF TimedSpec
=============================================================================
