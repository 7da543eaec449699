------------------------- MODULE PacketRelayProofs -------------------------
(***************************************************************************)
(* Proofs about the abstract relay: its types, and that what it has taken  *)
(* is always a subsequence of what was sent, for any packets and any       *)
(* bound on the packets skipped.                                           *)
(***************************************************************************)
EXTENDS PacketRelay, TLAPS

SkipAssumption == MaxSkip \in Nat

(* Type correctness: the relay's counters never pass the packets sent, and *)
(* it holds and delivers packets only (processIMU_Frames handles one       *)
(* packet at a time).                                                      *)
THEOREM RelayTypeOK ==
  ASSUME SkipAssumption
  PROVE  Spec => []TypeOK
<1>1. Init => TypeOK
  <2> SUFFICES ASSUME Init PROVE TypeOK
    OBVIOUS
  <2>1. sent \in Seq(Packets)
    <3>1. CASE sent = <<>>
      BY <3>1
    <3>2. CASE sent \in {<<p>> : p \in Packets}
      <4>1. PICK p \in Packets : sent = <<p>>
        BY <3>2
      <4> QED
        BY <4>1
    <3> QED
      BY <3>1, <3>2 DEF Init
  <2> QED
    BY <2>1 DEF Init, TypeOK
<1>2. TypeOK /\ [Next]_vars => TypeOK'
  <2> SUFFICES ASSUME TypeOK, [Next]_vars PROVE TypeOK'
    OBVIOUS
  <2> USE DEF TypeOK, SkipAssumption
  <2>1. CASE Send
    <3>1. PICK p \in Packets : sent' = Append(sent, p)
      BY <2>1 DEF Send
    <3>2. sent' \in Seq(Packets) /\ Len(sent') = Len(sent) + 1
      BY <3>1
    <3> QED
      BY <2>1, <3>2 DEF Send
  <2>2. CASE Take
    <3>1. PICK skipped \in 0..MaxSkip :
            /\ passed + 1 + skipped <= Len(sent)
            /\ held' = <<sent[passed + 1]>>
            /\ passed' = passed + 1 + skipped
            /\ UNCHANGED <<sent, delivered>>
      BY <2>2 DEF Take
    <3>2. passed + 1 \in 1..Len(sent) /\ sent[passed + 1] \in Packets
      BY <3>1
    <3>3. passed' \in 0..Len(sent')
      BY <3>1
    <3> QED
      BY <3>1, <3>2, <3>3
  <2>3. CASE Deliver
    <3>1. PICK p \in Packets : held = <<p>>
      BY <2>3 DEF Deliver
    <3>2. delivered \o held \in Seq(Packets)
      BY <3>1
    <3> QED
      BY <2>3, <3>2 DEF Deliver
  <2>4. CASE Lose
    BY <2>4 DEF Lose
  <2>5. CASE UNCHANGED vars
    BY <2>5 DEF vars
  <2> QED
    BY <2>1, <2>2, <2>3, <2>4, <2>5 DEF Next
<1> QED
  BY <1>1, <1>2, PTL DEF Spec
-----------------------------------------------------------------------------
(* Sending more packets, and letting more of them pass, keeps a matching.  *)
LEMMA InOrderPrefix ==
  ASSUME TypeOK, TypeOK', InOrder,
         Taken' = Taken,
         passed <= passed',
         Len(sent) <= Len(sent'),
         \A k \in 1..Len(sent) : sent'[k] = sent[k]
  PROVE  InOrder'
<1>1. PICK origin \in [1..Len(Taken) -> 1..passed] :
        /\ Increasing(origin)
        /\ \A i \in 1..Len(Taken) : Taken[i] = sent[origin[i]]
  BY DEF InOrder
<1>2. origin \in [1..Len(Taken') -> 1..passed']
  BY <1>1 DEF TypeOK
<1>3. \A i \in 1..Len(Taken') : Taken'[i] = sent'[origin[i]]
  <2>1. \A i \in 1..Len(Taken) : origin[i] \in 1..passed
    BY <1>1
  <2>2. \A i \in 1..Len(Taken) : origin[i] \in 1..Len(sent)
    BY <2>1 DEF TypeOK
  <2>3. \A i \in 1..Len(Taken) : Taken[i] = sent'[origin[i]]
    BY <1>1, <2>2
  <2> QED
    BY <2>3
<1> QED
  BY <1>1, <1>2, <1>3 DEF InOrder, Increasing

(* Taking the next packet extends a matching by one.                       *)
LEMMA InOrderTake ==
  ASSUME SkipAssumption, TypeOK, TypeOK', InOrder, Take
  PROVE  InOrder'
<1>1. PICK origin \in [1..Len(Taken) -> 1..passed] :
        /\ Increasing(origin)
        /\ \A i \in 1..Len(Taken) : Taken[i] = sent[origin[i]]
  BY DEF InOrder
<1>2. PICK skipped \in 0..MaxSkip :
        /\ held = <<>>
        /\ passed + 1 + skipped <= Len(sent)
        /\ held' = <<sent[passed + 1]>>
        /\ passed' = passed + 1 + skipped
        /\ UNCHANGED <<sent, delivered>>
  BY DEF Take
<1>3. Taken = delivered /\ Len(Taken) \in Nat
  BY <1>2 DEF TypeOK, Taken
<1>4. Taken' = Append(Taken, sent[passed + 1])
  BY <1>2, <1>3 DEF TypeOK, Taken
<1> DEFINE n == Len(Taken)
           next == [i \in 1 .. n + 1 |-> IF i <= n THEN origin[i] ELSE passed + 1]
<1>5. Len(Taken') = n + 1
  BY <1>3, <1>4 DEF TypeOK
<1>6. /\ \A i \in 1..n : Taken'[i] = Taken[i]
      /\ Taken'[n + 1] = sent[passed + 1]
  BY <1>3, <1>4 DEF TypeOK
<1>7. passed + 1 \in 1..passed'
  BY <1>2 DEF TypeOK, SkipAssumption
<1>8. passed \in Nat /\ passed' \in Nat /\ passed <= passed'
  BY <1>2 DEF TypeOK, SkipAssumption
<1> HIDE DEF n
<1>9. /\ next \in [1 .. n + 1 -> 1..passed']
      /\ \A i \in 1..n : next[i] = origin[i] /\ origin[i] \in 1..passed
      /\ next[n + 1] = passed + 1
  <2>1. \A i \in 1..n : origin[i] \in 1..passed /\ origin[i] \in 1..passed'
    <3>1. \A i \in 1..n : origin[i] \in 1..passed
      BY <1>1 DEF n
    <3> QED
      BY <1>8, <3>1
  <2>2. n \in Nat
    BY <1>3 DEF n
  <2> QED
    BY <1>7, <2>1, <2>2
<1>10. Increasing(next)
  BY <1>1, <1>3, <1>8, <1>9, SMTT(30) DEF Increasing, n
<1>11. \A i \in 1 .. n + 1 : Taken'[i] = sent'[next[i]]
  <2>1. \A i \in 1..n : Taken'[i] = sent'[next[i]]
    BY <1>1, <1>2, <1>6, <1>9 DEF n
  <2>2. Taken'[n + 1] = sent'[next[n + 1]]
    BY <1>2, <1>6, <1>9
  <2>3. \A i \in 1 .. n + 1 : i \in 1..n \/ i = n + 1
    BY <1>3 DEF n
  <2> HIDE DEF next
  <2> QED
    BY <2>1, <2>2, <2>3
<1> QED
  BY <1>5, <1>9, <1>10, <1>11 DEF InOrder
-----------------------------------------------------------------------------
(* The packets taken and delivered can be matched, in order and one to     *)
(* one, with packets sent: none is invented, altered, repeated or          *)
(* reordered (parsePacket and the broadcast, imu_parser.cpp:23-28).        *)
THEOREM RelayInOrder ==
  ASSUME SkipAssumption
  PROVE  Spec => []InOrder
<1>1. Init => InOrder
  <2> SUFFICES ASSUME Init PROVE InOrder
    OBVIOUS
  <2>1. Taken = <<>>
    BY DEF Init, Taken
  <2>2. 1..Len(Taken) = {}
    BY <2>1
  <2>3. [i \in 1..Len(Taken) |-> 1] \in [1..Len(Taken) -> 1..passed]
    BY <2>2
  <2> QED
    BY <2>2, <2>3 DEF InOrder, Increasing
<1>2. TypeOK /\ TypeOK' /\ InOrder /\ [Next]_vars => InOrder'
  <2> SUFFICES ASSUME TypeOK, TypeOK', InOrder, [Next]_vars PROVE InOrder'
    OBVIOUS
  <2>1. CASE Send
    <3>1. PICK p \in Packets : sent' = Append(sent, p)
      BY <2>1 DEF Send
    <3>2. Len(sent) <= Len(sent') /\ \A k \in 1..Len(sent) : sent'[k] = sent[k]
      BY <3>1 DEF TypeOK
    <3>3. Taken' = Taken /\ passed <= passed'
      BY <2>1 DEF Send, Taken, TypeOK
    <3> QED
      BY <3>2, <3>3, InOrderPrefix
  <2>2. CASE Take
    BY <2>2, InOrderTake
  <2>3. CASE Deliver
    <3>1. PICK p \in Packets : held = <<p>>
      BY <2>3 DEF Deliver, TypeOK
    <3>2. Taken' = Taken
      BY <2>3, <3>1 DEF Deliver, Taken, TypeOK
    <3> QED
      BY <2>3, <3>2, InOrderPrefix DEF Deliver, TypeOK
  <2>4. CASE Lose
    <3>1. PICK origin \in [1..Len(Taken) -> 1..passed] :
            /\ Increasing(origin)
            /\ \A i \in 1..Len(Taken) : Taken[i] = sent[origin[i]]
      BY DEF InOrder
    <3>2. PICK p \in Packets : held = <<p>>
      BY <2>4 DEF Lose, TypeOK
    <3>3. Taken' = delivered /\ Taken = Append(delivered, p)
      BY <2>4, <3>2 DEF Lose, Taken, TypeOK
    <3>4. /\ Len(Taken') \in Nat
          /\ Len(Taken) = Len(Taken') + 1
          /\ \A i \in 1..Len(Taken') : Taken'[i] = Taken[i]
      BY <3>3 DEF TypeOK
    <3> DEFINE rest == [i \in 1..Len(Taken') |-> origin[i]]
    <3>5. rest \in [1..Len(Taken') -> 1..passed']
      BY <2>4, <3>1, <3>4 DEF Lose
    <3>6. Increasing(rest)
      BY <3>1, <3>4 DEF Increasing
    <3>7. \A i \in 1..Len(Taken') : Taken'[i] = sent'[rest[i]]
      BY <2>4, <3>1, <3>4 DEF Lose
    <3> QED
      BY <3>5, <3>6, <3>7 DEF InOrder
  <2>5. CASE UNCHANGED vars
    BY <2>5, InOrderPrefix DEF vars, Taken, TypeOK
  <2> QED
    BY <2>1, <2>2, <2>3, <2>4, <2>5 DEF Next
<1> QED
  BY <1>1, <1>2, RelayTypeOK, PTL DEF Spec
=============================================================================
