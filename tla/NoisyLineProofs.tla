-------------------------- MODULE NoisyLineProofs --------------------------
(***************************************************************************)
(* Proofs about imu_parser on a line with faults, each of which loses a    *)
(* run of bytes of any length, cuts a frame short or adds a stray byte or  *)
(* a run of them: for any number of faults anywhere, any packets whose     *)
(* frames hold no second header, and any reads.                            *)
(*                                                                         *)
(* The bytes that wait are explained: o[i] is the place in the stream of   *)
(* the frames sent that byte i comes from; m[i] is 0 if no fault struck    *)
(* there, or else the number of the trace that a fault has left: before    *)
(* the byte behind what it took away, or at the first byte of the noise    *)
(* and at the last.  The bytes of the noise between these have -1.         *)
(***************************************************************************)
EXTENDS NoisyLine, ImuParserProofs, FiniteSetTheorems

(* Noise that is one byte at a time, and noise without a header in it.     *)
StrayBytesOnly == \A run \in NoiseRuns : Len(run) = 1

NoHeaderInNoise ==
  \A run \in NoiseRuns : \A i \in 0 .. Len(run) - HEADER_SIZE : ~ HeaderAt(run, i)

LEMMA StrayHoldsNoHeader == StrayBytesOnly => NoHeaderInNoise
<1> SUFFICES ASSUME StrayBytesOnly, NEW run \in NoiseRuns, NEW i \in 0 .. Len(run) - HEADER_SIZE
             PROVE  FALSE
  BY Zenon DEF NoHeaderInNoise
<1>1. Len(run) = 1
  BY DEF StrayBytesOnly
<1> QED
  BY <1>1 DEF HEADER_SIZE

(* Only a longer run has bytes inside.                                     *)
Inner == IF StrayBytesOnly THEN 0 ELSE -1

LEMMA InnerLabel == Inner \in {-1, 0} /\ Inner \in Int /\ Inner <= 0
BY DEF Inner

(* The place behind the last byte is that of the next frame to be sent,    *)
(* which a fault may have struck, too.                                     *)
Tagged(N, T, F, o, m) ==
  /\ o \in [1 .. N + 1 -> Int]
  /\ m \in [1 .. N + 1 -> Inner..F]
  /\ o[N + 1] = T

(* Where no fault struck, bytes that are neighbours were so when sent.     *)
Runs(N, o, m) ==
  \A i, j \in 1 .. N + 1 :
    i < j /\ (\A k \in i + 1 .. j : m[k] = 0) => o[j] = o[i] + (j - i)

(* No two traces are the same.                                             *)
Once(N, m) == \A i, j \in 1 .. N + 1 : m[i] > 0 /\ m[i] = m[j] => i = j

(* Between what is inside of noise and what no fault struck is a trace.    *)
Apart(N, m) ==
  /\ m[N + 1] # -1
  /\ \A i \in 1..N : m[i] <= 0 /\ m[i + 1] <= 0 => m[i] = m[i + 1]

(* Inside of noise is no header.                                           *)
Inside(m, i) == \A k \in 1..4 : m[i + k] = -1

Headerless(b, m) == \A i \in 0 .. Len(b) - 4 : Inside(m, i) => ~ HeaderAt(b, i)

(* A byte that no fault put there is one of the stream.                    *)
Faithful(b, s, o, m) ==
  \A i \in 1..Len(b) : m[i] = 0 => o[i] \in 0 .. 20 * Len(s) - 1 /\ b[i] = Wire(s, o[i])
-----------------------------------------------------------------------------
(* The traces when bytes are taken from the front.                         *)
LEMMA TakeTags ==
  ASSUME NEW N \in Nat, NEW L \in 0..N, NEW T, NEW F \in Nat, NEW o, NEW m,
         Tagged(N, T, F, o, m), Runs(N, o, m), Once(N, m),
         NEW o2, o2 = [i \in 1 .. (N - L) + 1 |-> o[L + i]],
         NEW m2, m2 = [i \in 1 .. (N - L) + 1 |-> m[L + i]]
  PROVE  /\ Tagged(N - L, T, F, o2, m2)
         /\ Runs(N - L, o2, m2)
         /\ Once(N - L, m2)
<1>1. \A i \in 1 .. (N - L) + 1 : L + i \in 1 .. N + 1 /\ o2[i] = o[L + i] /\ m2[i] = m[L + i]
  OBVIOUS
<1>2. Tagged(N - L, T, F, o2, m2)
  <2>1. L + ((N - L) + 1) = N + 1 /\ (N - L) + 1 \in 1 .. (N - L) + 1
    OBVIOUS
  <2> QED
    BY <1>1, <2>1 DEF Tagged
<1>3. ASSUME NEW i \in 1 .. (N - L) + 1, NEW j \in 1 .. (N - L) + 1, i < j,
             \A k \in i + 1 .. j : m2[k] = 0
      PROVE  o2[j] = o2[i] + (j - i)
  <2>1. ASSUME NEW k \in (L + i) + 1 .. L + j PROVE m[k] = 0
    <3>1. k - L \in i + 1 .. j /\ k - L \in 1 .. (N - L) + 1 /\ L + (k - L) = k
      OBVIOUS
    <3> QED
      BY <1>1, <1>3, <3>1
  <2>2. /\ L + i \in 1 .. N + 1 /\ L + j \in 1 .. N + 1 /\ L + i < L + j
        /\ (L + j) - (L + i) = j - i
    BY <1>3
  <2>3. o[L + j] = o[L + i] + ((L + j) - (L + i))
    BY <2>1, <2>2, Zenon DEF Runs
  <2> QED
    BY <1>1, <2>2, <2>3
<1>4. Once(N - L, m2)
  <2> SUFFICES ASSUME NEW i \in 1 .. (N - L) + 1, NEW j \in 1 .. (N - L) + 1,
                      m2[i] > 0, m2[i] = m2[j]
               PROVE  i = j
    BY DEF Once
  <2>1. L + i = L + j
    BY <1>1 DEF Once
  <2> QED
    BY <2>1
<1> QED
  BY <1>2, <1>3, <1>4, Zenon DEF Runs

(* The traces when n bytes are lost behind the first a: the fault leaves   *)
(* its own before what follows.                                            *)
LossPlaces(N, a, n, o) == [i \in 1 .. (N - n) + 1 |-> IF i <= a THEN o[i] ELSE o[n + i]]

LossTraces(N, a, n, F, m) ==
  [i \in 1 .. (N - n) + 1 |-> IF i <= a THEN m[i] ELSE IF i = a + 1 THEN F + 1 ELSE m[n + i]]

LEMMA LoseTags ==
  ASSUME NEW N \in Nat, NEW a \in Nat, NEW n \in Nat \ {0}, a + n <= N,
         NEW T, NEW F \in Nat, NEW o, NEW m,
         Tagged(N, T, F, o, m), Runs(N, o, m), Once(N, m)
  PROVE  /\ Tagged(N - n, T, F + 1, LossPlaces(N, a, n, o), LossTraces(N, a, n, F, m))
         /\ Runs(N - n, LossPlaces(N, a, n, o), LossTraces(N, a, n, F, m))
         /\ Once(N - n, LossTraces(N, a, n, F, m))
<1> DEFINE o2 == LossPlaces(N, a, n, o)
           m2 == LossTraces(N, a, n, F, m)
<1>1. \A i \in 1 .. (N - n) + 1 :
        /\ i \in 1 .. N + 1 /\ n + i \in 1 .. N + 1
        /\ i <= a => o2[i] = o[i] /\ m2[i] = m[i]
        /\ i > a => o2[i] = o[n + i]
        /\ i > a + 1 => m2[i] = m[n + i]
        /\ i = a + 1 => m2[i] = F + 1
  BY DEF LossPlaces, LossTraces
<1>dom. /\ o2 = [i \in 1 .. (N - n) + 1 |-> o2[i]]
        /\ m2 = [i \in 1 .. (N - n) + 1 |-> m2[i]]
  BY DEF LossPlaces, LossTraces
<1> HIDE DEF o2, m2
<1>2. /\ \A i \in 1 .. N + 1 : o[i] \in Int /\ m[i] \in Inner..F
      /\ o[N + 1] = T
  BY DEF Tagged
<1>3. Tagged(N - n, T, F + 1, o2, m2)
  <2>1. n + ((N - n) + 1) = N + 1 /\ (N - n) + 1 \in 1 .. (N - n) + 1 /\ (N - n) + 1 > a
    OBVIOUS
  <2>2. \A i \in 1 .. (N - n) + 1 : o2[i] \in Int /\ m2[i] \in Inner .. F + 1
    BY <1>1, <1>2, InnerLabel
  <2>3. o2[(N - n) + 1] = T
    BY <1>1, <1>2, <2>1
  <2> QED
    BY <1>dom, <2>2, <2>3 DEF Tagged
<1>4. ASSUME NEW i \in 1 .. (N - n) + 1, NEW j \in 1 .. (N - n) + 1, i < j,
             \A k \in i + 1 .. j : m2[k] = 0
      PROVE  o2[j] = o2[i] + (j - i)
  <2>1. CASE j <= a
    <3>1. ASSUME NEW k \in i + 1 .. j PROVE m[k] = 0
      <4>1. k \in 1 .. (N - n) + 1 /\ k <= a
        BY <2>1
      <4> QED
        BY <1>1, <1>4, <4>1, Zenon
    <3>2. o[j] = o[i] + (j - i)
      BY <1>1, <1>4, <3>1, Zenon DEF Runs
    <3>3. i <= a
      BY <1>4, <2>1
    <3> QED
      BY <1>1, <2>1, <3>2, <3>3, Zenon
  <2>2. CASE i <= a /\ a < j
    <3>1. a + 1 \in i + 1 .. j /\ a + 1 \in 1 .. (N - n) + 1
      BY <2>2
    <3>2. m2[a + 1] = F + 1
      BY <1>1, <3>1
    <3>3. m2[a + 1] = 0
      BY <1>4, <3>1, Zenon
    <3> QED
      BY <3>2, <3>3
  <2>3. CASE a < i
    <3>1. ASSUME NEW k \in (n + i) + 1 .. n + j PROVE m[k] = 0
      <4>1. /\ k - n \in i + 1 .. j /\ k - n \in 1 .. (N - n) + 1
            /\ k - n > a + 1 /\ n + (k - n) = k
        BY <2>3
      <4> QED
        BY <1>1, <1>4, <4>1
    <3>2. n + i < n + j /\ (n + j) - (n + i) = j - i
      BY <1>4
    <3>3. o[n + j] = o[n + i] + ((n + j) - (n + i))
      BY <1>1, <3>1, <3>2, Zenon DEF Runs
    <3> QED
      BY <1>1, <1>4, <2>3, <3>2, <3>3
  <2> QED
    BY <2>1, <2>2, <2>3
<1>5. Once(N - n, m2)
  <2> SUFFICES ASSUME NEW i \in 1 .. (N - n) + 1, NEW j \in 1 .. (N - n) + 1,
                      m2[i] > 0, m2[i] = m2[j]
               PROVE  i = j
    BY DEF Once
  <2> DEFINE old(x) == IF x <= a THEN x ELSE n + x
  <2>1. \A x \in 1 .. (N - n) + 1 :
          old(x) \in 1 .. N + 1 /\ (x # a + 1 => m2[x] = m[old(x)] /\ m2[x] # F + 1)
    BY <1>1, <1>2, InnerLabel
  <2>2. CASE i = a + 1 \/ j = a + 1
    BY <1>1, <2>1, <2>2
  <2>3. CASE i # a + 1 /\ j # a + 1
    <3>1. m[old(i)] > 0 /\ m[old(i)] = m[old(j)]
      BY <2>1, <2>3
    <3>2. old(i) = old(j)
      BY <2>1, <3>1, Zenon DEF Once
    <3> QED
      BY <3>2
  <2> QED
    BY <2>2, <2>3
<1> QED
  BY <1>3, <1>4, <1>5, Zenon DEF Runs, o2, m2

(* The traces when a run of n bytes gets in behind the first a: one at its *)
(* first byte, and one at its last if that is another.                     *)
RunPlaces(N, a, n, o) ==
  [i \in 1 .. (N + n) + 1 |->
     IF i <= a THEN o[i] ELSE IF i <= a + n THEN o[a + 1] - 1 ELSE o[i - n]]

RunTraces(N, a, n, F, m) ==
  [i \in 1 .. (N + n) + 1 |->
     IF i <= a THEN m[i] ELSE IF i = a + 1 THEN F + 1
     ELSE IF i < a + n THEN -1 ELSE IF i = a + n THEN F + 2 ELSE m[i - n]]

RunLabelled(N, a, n, F, o, m, o2, m2) ==
  \A i \in 1 .. (N + n) + 1 :
    /\ o2[i] \in Int
    /\ i <= a => i \in 1 .. N + 1 /\ o2[i] = o[i] /\ m2[i] = m[i]
    /\ i > a + n => i - n \in 1 .. N + 1 /\ o2[i] = o[i - n] /\ m2[i] = m[i - n]
    /\ i > a /\ i <= a + n => o2[i] = o[a + 1] - 1
    /\ i = a + 1 => m2[i] = F + 1
    /\ i > a + 1 /\ i < a + n => m2[i] = -1
    /\ i > a + 1 /\ i = a + n => m2[i] = F + 2 /\ n > 1

LEMMA RunLabels ==
  ASSUME NEW N \in Nat, NEW a \in 0..N, NEW n \in Nat \ {0}, n = 1 \/ Inner = -1,
         NEW T, NEW F \in Nat, NEW o, NEW m, Tagged(N, T, F, o, m)
  PROVE  RunLabelled(N, a, n, F, o, m, RunPlaces(N, a, n, o), RunTraces(N, a, n, F, m))
<1> SUFFICES ASSUME NEW i \in 1 .. (N + n) + 1
             PROVE  LET o2 == RunPlaces(N, a, n, o)
                        m2 == RunTraces(N, a, n, F, m)
                    IN
                        /\ o2[i] \in Int
                        /\ i <= a => i \in 1 .. N + 1 /\ o2[i] = o[i] /\ m2[i] = m[i]
                        /\ i > a + n => i - n \in 1 .. N + 1 /\ o2[i] = o[i - n] /\ m2[i] = m[i - n]
                        /\ i > a /\ i <= a + n => o2[i] = o[a + 1] - 1
                        /\ i = a + 1 => m2[i] = F + 1
                        /\ i > a + 1 /\ i < a + n => m2[i] = -1
                        /\ i > a + 1 /\ i = a + n => m2[i] = F + 2 /\ n > 1
  BY DEF RunLabelled
<1>1. \A j \in 1 .. N + 1 : o[j] \in Int
  BY DEF Tagged
<1>2. a + 1 \in 1 .. N + 1
  OBVIOUS
<1>3. i > a + n => i - n \in 1 .. N + 1
  OBVIOUS
<1>4. i <= a => i \in 1 .. N + 1
  OBVIOUS
<1> QED
  BY <1>1, <1>2, <1>3, <1>4 DEF RunPlaces, RunTraces

LEMMA RunTags ==
  ASSUME NEW N \in Nat, NEW a \in 0..N, NEW n \in Nat \ {0}, n = 1 \/ Inner = -1,
         NEW T, NEW F \in Nat, NEW G \in Nat, G >= F + 1, n > 1 => G >= F + 2, NEW o, NEW m,
         Tagged(N, T, F, o, m), Runs(N, o, m), Once(N, m), Apart(N, m)
  PROVE  /\ Tagged(N + n, T, G, RunPlaces(N, a, n, o), RunTraces(N, a, n, F, m))
         /\ Runs(N + n, RunPlaces(N, a, n, o), RunTraces(N, a, n, F, m))
         /\ Once(N + n, RunTraces(N, a, n, F, m))
         /\ Apart(N + n, RunTraces(N, a, n, F, m))
<1> DEFINE o2 == RunPlaces(N, a, n, o)
           m2 == RunTraces(N, a, n, F, m)
<1>1. \A i \in 1 .. (N + n) + 1 :
        /\ o2[i] \in Int
        /\ i <= a => i \in 1 .. N + 1 /\ o2[i] = o[i] /\ m2[i] = m[i]
        /\ i > a + n => i - n \in 1 .. N + 1 /\ o2[i] = o[i - n] /\ m2[i] = m[i - n]
        /\ i > a /\ i <= a + n => o2[i] = o[a + 1] - 1
        /\ i = a + 1 => m2[i] = F + 1
        /\ i > a + 1 /\ i < a + n => m2[i] = -1
        /\ i > a + 1 /\ i = a + n => m2[i] = F + 2 /\ n > 1
  BY RunLabels, Zenon DEF RunLabelled
<1>dom. /\ o2 = [i \in 1 .. (N + n) + 1 |-> o2[i]]
        /\ m2 = [i \in 1 .. (N + n) + 1 |-> m2[i]]
  BY DEF RunPlaces, RunTraces
<1> HIDE DEF o2, m2
<1>2. /\ \A i \in 1 .. N + 1 : o[i] \in Int /\ m[i] \in Inner..F
      /\ o[N + 1] = T /\ a + 1 \in 1 .. N + 1
  BY DEF Tagged
<1>3. ASSUME NEW i \in 1 .. (N + n) + 1
      PROVE  i <= a \/ i > a + n \/ i = a + 1 \/ (i > a + 1 /\ i < a + n) \/ (i > a + 1 /\ i = a + n)
  OBVIOUS
<1>4. Tagged(N + n, T, G, o2, m2)
  <2>1. ASSUME NEW i \in 1 .. (N + n) + 1 PROVE m2[i] \in Inner..G
    <3>1. CASE i <= a
      <4>1. m2[i] \in Inner..F
        BY <1>1, <1>2, <3>1
      <4> QED
        BY <4>1, InnerLabel
    <3>2. CASE i > a + n
      <4>1. m2[i] \in Inner..F
        BY <1>1, <1>2, <3>2
      <4> QED
        BY <4>1, InnerLabel
    <3>3. CASE i = a + 1
      BY <1>1, <3>3, InnerLabel
    <3>4. CASE i > a + 1 /\ i < a + n
      BY <1>1, <3>4, InnerLabel
    <3>5. CASE i > a + 1 /\ i = a + n
      BY <1>1, <3>5, InnerLabel
    <3> QED
      BY <1>3, <3>1, <3>2, <3>3, <3>4, <3>5
  <2>2. o2[(N + n) + 1] = T
    <3>1. (N + n) + 1 \in 1 .. (N + n) + 1 /\ (N + n) + 1 > a + n /\ ((N + n) + 1) - n = N + 1
      OBVIOUS
    <3> QED
      BY <1>1, <1>2, <3>1
  <2> QED
    BY <1>1, <1>dom, <2>1, <2>2 DEF Tagged
<1>5. ASSUME NEW i \in 1 .. (N + n) + 1, NEW j \in 1 .. (N + n) + 1, i < j,
             \A k \in i + 1 .. j : m2[k] = 0
      PROVE  o2[j] = o2[i] + (j - i)
  <2>1. CASE j <= a
    <3>1. ASSUME NEW k \in i + 1 .. j PROVE m[k] = 0
      <4>1. k \in 1 .. (N + n) + 1 /\ k <= a
        BY <2>1
      <4> QED
        BY <1>1, <1>5, <4>1, Zenon
    <3>2. i \in 1 .. N + 1 /\ j \in 1 .. N + 1 /\ i <= a
      BY <1>5, <2>1
    <3>3. o[j] = o[i] + (j - i)
      BY <1>5, <3>1, <3>2, Zenon DEF Runs
    <3> QED
      BY <1>1, <2>1, <3>2, <3>3, Zenon
  <2>2. CASE i <= a /\ a < j
    <3>1. a + 1 \in i + 1 .. j /\ a + 1 \in 1 .. (N + n) + 1
      BY <2>2
    <3>2. m2[a + 1] = F + 1
      BY <1>1, <3>1
    <3>3. m2[a + 1] = 0
      BY <1>5, <3>1, Zenon
    <3> QED
      BY <3>2, <3>3
  <2>3. CASE a < i /\ i < a + n
    <3>1. i + 1 \in i + 1 .. j /\ i + 1 \in 1 .. (N + n) + 1
          /\ i + 1 > a + 1 /\ (i + 1 < a + n \/ i + 1 = a + n)
      BY <1>5, <2>3
    <3>2. m2[i + 1] = -1 \/ m2[i + 1] = F + 2
      BY <1>1, <3>1
    <3>3. m2[i + 1] = 0
      BY <1>5, <3>1, Zenon
    <3> QED
      BY <3>2, <3>3
  <2>4. CASE a + n <= i
    <3> DEFINE e == IF i = a + n THEN a + 1 ELSE i - n
    <3>1. e \in 1 .. N + 1 /\ j - n \in 1 .. N + 1 /\ e <= j - n /\ j > a + n
      BY <1>2, <1>5, <2>4
    <3>2. ASSUME NEW k \in e + 1 .. j - n PROVE m[k] = 0
      <4>1. /\ k + n \in i + 1 .. j /\ k + n \in 1 .. (N + n) + 1
            /\ k + n > a + n /\ (k + n) - n = k
        BY <2>4
      <4> QED
        BY <1>1, <1>5, <4>1, ZenonT(60)
    <3>3. o[j - n] = o[e] + ((j - n) - e)
      <4>1. CASE e < j - n
        BY <3>1, <3>2, <4>1, Zenon DEF Runs
      <4>2. CASE e = j - n
        <5>1. o[e] \in Int /\ o[j - n] = o[e] /\ (j - n) - e = 0
          BY <1>2, <3>1, <4>2
        <5> HIDE DEF e
        <5> QED
          BY <5>1
      <4> QED
        BY <3>1, <4>1, <4>2
    <3>4. o2[j] = o[j - n] /\ o[e] \in Int
      BY <1>1, <1>2, <3>1
    <3>5. CASE i = a + n
      <4>1. o2[i] = o[a + 1] - 1 /\ e = a + 1
        BY <1>1, <3>5
      <4> QED
        BY <3>3, <3>4, <3>5, <4>1
    <3>6. CASE i # a + n
      <4>1. o2[i] = o[i - n] /\ e = i - n /\ (j - n) - (i - n) = j - i
        BY <1>1, <2>4, <3>6
      <4> HIDE DEF e
      <4> QED
        BY <3>3, <3>4, <4>1
    <3> QED
      BY <3>5, <3>6
  <2> QED
    BY <2>1, <2>2, <2>3, <2>4
<1>6. Once(N + n, m2)
  <2> SUFFICES ASSUME NEW i \in 1 .. (N + n) + 1, NEW j \in 1 .. (N + n) + 1,
                      m2[i] > 0, m2[i] = m2[j]
               PROVE  i = j
    BY DEF Once
  <2> DEFINE Old(x) == x <= a \/ x > a + n
             old(x) == IF x <= a THEN x ELSE x - n
  <2>1. ASSUME NEW x \in 1 .. (N + n) + 1, m2[x] > 0
        PROVE  \/ Old(x) /\ old(x) \in 1 .. N + 1 /\ m2[x] = m[old(x)] /\ m2[x] <= F
               \/ x = a + 1 /\ m2[x] = F + 1
               \/ x = a + n /\ m2[x] = F + 2
    <3>1. CASE Old(x)
      <4>1. old(x) \in 1 .. N + 1 /\ m2[x] = m[old(x)]
        BY <1>1, <3>1
      <4>2. m2[x] <= F
        BY <1>2, <4>1, InnerLabel
      <4> QED
        BY <3>1, <4>1, <4>2
    <3>2. CASE ~ Old(x)
      BY <1>1, <1>3, <2>1, <3>2
    <3> QED
      BY <3>1, <3>2
  <2>2. CASE m2[i] <= F
    <3>1. /\ Old(i) /\ old(i) \in 1 .. N + 1 /\ m2[i] = m[old(i)]
          /\ Old(j) /\ old(j) \in 1 .. N + 1 /\ m2[j] = m[old(j)]
      BY <2>1, <2>2
    <3>2. old(i) = old(j)
      BY <3>1, Zenon DEF Once
    <3> QED
      BY <3>1, <3>2
  <2>3. CASE ~ (m2[i] <= F)
    BY <2>1, <2>3
  <2> QED
    BY <2>2, <2>3
<1>7. Apart(N + n, m2)
  <2>1. m2[(N + n) + 1] # -1
    <3>1. (N + n) + 1 \in 1 .. (N + n) + 1 /\ (N + n) + 1 > a + n /\ ((N + n) + 1) - n = N + 1
      OBVIOUS
    <3> QED
      BY <1>1, <3>1 DEF Apart
  <2>2. ASSUME NEW i \in 1 .. N + n, m2[i] <= 0, m2[i + 1] <= 0 PROVE m2[i] = m2[i + 1]
    <3>0. i \in 1 .. (N + n) + 1 /\ i + 1 \in 1 .. (N + n) + 1
      OBVIOUS
    <3>1. CASE i < a
      <4>1. m2[i] = m[i] /\ m2[i + 1] = m[i + 1] /\ i \in 1..N
        BY <1>1, <3>0, <3>1
      <4> QED
        BY <2>2, <4>1 DEF Apart
    <3>2. CASE i = a \/ i = a + 1
      <4>1. m2[a + 1] = F + 1
        <5>1. a + 1 \in 1 .. (N + n) + 1
          OBVIOUS
        <5> QED
          BY <1>1, <5>1
      <4> QED
        BY <2>2, <3>2, <4>1
    <3>3. CASE i > a + 1 /\ i + 1 < a + n
      BY <1>1, <3>0, <3>3
    <3>4. CASE i > a + 1 /\ (i + 1 = a + n \/ i = a + n)
      <4>1. m2[a + n] = F + 2
        <5>1. a + n \in 1 .. (N + n) + 1 /\ a + n > a + 1
          BY <3>4
        <5> QED
          BY <1>1, <5>1
      <4> QED
        BY <2>2, <3>4, <4>1
    <3>5. CASE i > a + n
      <4>1. m2[i] = m[i - n] /\ m2[i + 1] = m[(i - n) + 1] /\ i - n \in 1..N
        <5>1. (i + 1) - n = (i - n) + 1 /\ i + 1 > a + n /\ i - n \in 1..N
          BY <3>5
        <5> QED
          BY <1>1, <3>0, <3>5, <5>1
      <4> QED
        BY <2>2, <4>1 DEF Apart
    <3> QED
      BY <3>1, <3>2, <3>3, <3>4, <3>5
  <2> QED
    BY <2>1, <2>2 DEF Apart
<1> QED
  BY <1>4, <1>5, <1>6, <1>7, Zenon DEF Runs, o2, m2

(* The traces when the next frame is sent, all 20 bytes of it or the first *)
(* r: a frame cut short leaves one where its end would be.                 *)
SendPlaces(N, r, T, o) ==
  [i \in 1 .. (N + r) + 1 |->
     IF i <= N THEN o[i] ELSE IF i <= N + r THEN T + (i - (N + 1)) ELSE T + 20]

SendTraces(N, r, F, G, m) ==
  [i \in 1 .. (N + r) + 1 |->
     IF i <= N + 1 THEN m[i] ELSE IF i <= N + r \/ G = F THEN 0 ELSE F + 1]

LEMMA SendTags ==
  ASSUME NEW N \in Nat, NEW r \in 1..20, NEW T \in Int, NEW F \in Nat, NEW G \in {F, F + 1},
         r = 20 \/ G = F + 1,
         NEW o, NEW m, Tagged(N, T, F, o, m), Runs(N, o, m), Once(N, m)
  PROVE  /\ Tagged(N + r, T + 20, G, SendPlaces(N, r, T, o), SendTraces(N, r, F, G, m))
         /\ Runs(N + r, SendPlaces(N, r, T, o), SendTraces(N, r, F, G, m))
         /\ Once(N + r, SendTraces(N, r, F, G, m))
<1> DEFINE o2 == SendPlaces(N, r, T, o)
           m2 == SendTraces(N, r, F, G, m)
<1>1. /\ \A i \in 1 .. N + 1 : o[i] \in Int /\ m[i] \in Inner..F
      /\ o[N + 1] = T
  BY DEF Tagged
<1>2. \A i \in 1 .. (N + r) + 1 :
        /\ i <= N + 1 => i \in 1 .. N + 1 /\ o2[i] = o[i] /\ m2[i] = m[i]
        /\ i > N /\ m2[i] = 0 => o2[i] = T + (i - (N + 1))
        /\ i > N + 1 => m2[i] \in {0, G} /\ (m2[i] # 0 => i = (N + r) + 1 /\ m2[i] = F + 1)
  BY <1>1 DEF SendPlaces, SendTraces
<1>3. Tagged(N + r, T + 20, G, o2, m2)
  <2>1. \A i \in 1 .. (N + r) + 1 : o2[i] \in Int /\ m2[i] \in Inner..G
    BY <1>1, InnerLabel DEF SendPlaces, SendTraces
  <2>2. o2[(N + r) + 1] = T + 20
    BY DEF SendPlaces
  <2>3. /\ o2 = [i \in 1 .. (N + r) + 1 |-> o2[i]]
        /\ m2 = [i \in 1 .. (N + r) + 1 |-> m2[i]]
    BY DEF SendPlaces, SendTraces
  <2> HIDE DEF o2, m2
  <2> QED
    BY <2>1, <2>2, <2>3 DEF Tagged
<1> HIDE DEF o2, m2
<1>4. ASSUME NEW i \in 1 .. (N + r) + 1, NEW j \in 1 .. (N + r) + 1, i < j,
             \A k \in i + 1 .. j : m2[k] = 0
      PROVE  o2[j] = o2[i] + (j - i)
  <2>1. CASE j <= N + 1
    <3>1. ASSUME NEW k \in i + 1 .. j PROVE m[k] = 0
      <4>1. k \in 1 .. (N + r) + 1 /\ k <= N + 1
        BY <2>1
      <4> QED
        BY <1>2, <1>4, <4>1, Zenon
    <3>2. i \in 1 .. N + 1 /\ j \in 1 .. N + 1 /\ i <= N + 1
      BY <1>4, <2>1
    <3>3. o[j] = o[i] + (j - i)
      BY <1>4, <3>1, <3>2, Zenon DEF Runs
    <3> QED
      BY <1>2, <2>1, <3>2, <3>3, Zenon
  <2>2. CASE i <= N + 1 /\ N + 1 < j
    <3>1. o2[j] = T + (j - (N + 1))
      <4>1. j \in i + 1 .. j /\ j > N
        BY <1>4, <2>2
      <4>2. m2[j] = 0
        BY <1>4, <4>1, Zenon
      <4> QED
        BY <1>2, <4>1, <4>2, Zenon
    <3>2. T = o[i] + ((N + 1) - i)
      <4>1. CASE i < N + 1
        <5>1. ASSUME NEW k \in i + 1 .. N + 1 PROVE m[k] = 0
          <6>1. k \in 1 .. (N + r) + 1 /\ k <= N + 1 /\ k \in i + 1 .. j
            BY <2>2
          <6> QED
            BY <1>2, <1>4, <6>1, Zenon
        <5>2. i \in 1 .. N + 1 /\ N + 1 \in 1 .. N + 1
          BY <2>2
        <5> QED
          BY <1>1, <4>1, <5>1, <5>2, Zenon DEF Runs
      <4>2. CASE i = N + 1
        BY <1>1, <4>2
      <4> QED
        BY <2>2, <4>1, <4>2
    <3>3. o2[i] = o[i] /\ o[i] \in Int
      BY <1>1, <1>2, <2>2
    <3> QED
      BY <3>1, <3>2, <3>3
  <2>3. CASE N + 1 < i
    <3>1. m2[j] = 0 /\ i <= N + r /\ m2[i] = 0
      <4>1. j \in i + 1 .. j /\ i <= N + r /\ i # (N + r) + 1
        BY <1>4
      <4>2. m2[j] = 0
        BY <1>4, <4>1, Zenon
      <4>3. m2[i] = 0
        BY <1>2, <2>3, <4>1, Zenon
      <4> QED
        BY <4>1, <4>2, <4>3
    <3>2. o2[j] = T + (j - (N + 1)) /\ o2[i] = T + (i - (N + 1))
      BY <1>2, <1>4, <2>3, <3>1
    <3> QED
      BY <3>2
  <2> QED
    BY <2>1, <2>2, <2>3
<1>5. Once(N + r, m2)
  <2> SUFFICES ASSUME NEW i \in 1 .. (N + r) + 1, NEW j \in 1 .. (N + r) + 1,
                      m2[i] > 0, m2[i] = m2[j]
               PROVE  i = j
    BY DEF Once
  <2>1. CASE i <= N + 1 /\ j <= N + 1
    BY <1>2, <2>1 DEF Once
  <2>2. CASE i > N + 1 \/ j > N + 1
    <3>1. \A x \in 1 .. (N + r) + 1 : x <= N + 1 => m2[x] # F + 1
      BY <1>1, <1>2, InnerLabel
    <3> QED
      BY <1>2, <2>2, <3>1
  <2> QED
    BY <2>1, <2>2
<1> QED
  BY <1>3, <1>4, <1>5, Zenon DEF Runs, o2, m2

(* What keeps the inside of noise apart stays, whatever is taken or lost,  *)
(* or sent behind it.                                                      *)
LEMMA TakeApart ==
  ASSUME NEW N \in Nat, NEW L \in 0..N, NEW m, Apart(N, m),
         NEW m2, m2 = [i \in 1 .. (N - L) + 1 |-> m[L + i]]
  PROVE  Apart(N - L, m2)
<1>1. m2[(N - L) + 1] = m[N + 1]
  <2>1. (N - L) + 1 \in 1 .. (N - L) + 1 /\ L + ((N - L) + 1) = N + 1
    OBVIOUS
  <2> QED
    BY <2>1
<1>2. ASSUME NEW i \in 1 .. N - L
      PROVE  m2[i] = m[L + i] /\ m2[i + 1] = m[(L + i) + 1] /\ L + i \in 1..N
  <2>1. i \in 1 .. (N - L) + 1 /\ i + 1 \in 1 .. (N - L) + 1
        /\ L + (i + 1) = (L + i) + 1 /\ L + i \in 1..N
    OBVIOUS
  <2> QED
    BY <2>1
<1> QED
  BY <1>1, <1>2 DEF Apart

LEMMA LoseApart ==
  ASSUME NEW N \in Nat, NEW a \in Nat, NEW n \in Nat \ {0}, a + n <= N, NEW F \in Nat,
         NEW m, Apart(N, m)
  PROVE  Apart(N - n, LossTraces(N, a, n, F, m))
<1> DEFINE m2 == LossTraces(N, a, n, F, m)
<1>1. \A i \in 1 .. (N - n) + 1 :
        /\ i <= a => m2[i] = m[i]
        /\ i > a + 1 => m2[i] = m[n + i]
        /\ i = a + 1 => m2[i] = F + 1
  BY DEF LossTraces
<1> HIDE DEF m2
<1>2. m2[(N - n) + 1] # -1
  <2>1. (N - n) + 1 \in 1 .. (N - n) + 1 /\ n + ((N - n) + 1) = N + 1 /\ (N - n) + 1 > a
    OBVIOUS
  <2>2. CASE (N - n) + 1 = a + 1
    BY <1>1, <2>1, <2>2
  <2>3. CASE (N - n) + 1 > a + 1
    BY <1>1, <2>1, <2>3 DEF Apart
  <2> QED
    BY <2>1, <2>2, <2>3
<1>3. ASSUME NEW i \in 1 .. N - n, m2[i] <= 0, m2[i + 1] <= 0 PROVE m2[i] = m2[i + 1]
  <2>1. i \in 1 .. (N - n) + 1 /\ i + 1 \in 1 .. (N - n) + 1
    OBVIOUS
  <2>2. CASE i < a
    <3>1. m2[i] = m[i] /\ m2[i + 1] = m[i + 1] /\ i \in 1..N
      BY <1>1, <2>1, <2>2
    <3> QED
      BY <1>3, <3>1 DEF Apart
  <2>3. CASE i = a \/ i = a + 1
    BY <1>1, <1>3, <2>1, <2>3
  <2>4. CASE i > a + 1
    <3>1. m2[i] = m[n + i] /\ m2[i + 1] = m[(n + i) + 1] /\ n + i \in 1..N
      <4>1. n + (i + 1) = (n + i) + 1 /\ i + 1 > a + 1 /\ n + i \in 1..N
        BY <2>4
      <4> QED
        BY <1>1, <2>1, <2>4, <4>1
    <3> QED
      BY <1>3, <3>1 DEF Apart
  <2> QED
    BY <2>2, <2>3, <2>4
<1> QED
  BY <1>2, <1>3 DEF Apart, m2

LEMMA SendApart ==
  ASSUME NEW N \in Nat, NEW r \in 1..20, NEW F \in Nat, NEW G \in {F, F + 1},
         NEW m, m[N + 1] \in Inner..F, Apart(N, m)
  PROVE  Apart(N + r, SendTraces(N, r, F, G, m))
<1> DEFINE m2 == SendTraces(N, r, F, G, m)
<1>1. \A i \in 1 .. (N + r) + 1 :
        /\ i <= N + 1 => m2[i] = m[i]
        /\ i > N + 1 => m2[i] = 0 \/ m2[i] = F + 1
  BY DEF SendTraces
<1> HIDE DEF m2
<1>2. m2[(N + r) + 1] # -1
  BY <1>1
<1>3. ASSUME NEW i \in 1 .. N + r, m2[i] <= 0, m2[i + 1] <= 0 PROVE m2[i] = m2[i + 1]
  <2>1. CASE i <= N
    <3>1. m2[i] = m[i] /\ m2[i + 1] = m[i + 1] /\ i \in 1..N
      BY <1>1, <2>1
    <3> QED
      BY <1>3, <3>1 DEF Apart
  <2>2. CASE i = N + 1
    <3>1. m2[i] = m[N + 1] /\ m[N + 1] # -1 /\ m2[i + 1] = 0
      BY <1>1, <1>3, <2>2 DEF Apart
    <3> QED
      BY <1>3, <3>1, InnerLabel
  <2>3. CASE i > N + 1
    BY <1>1, <1>3, <2>3
  <2> QED
    BY <2>1, <2>2, <2>3
<1> QED
  BY <1>2, <1>3 DEF Apart, m2
-----------------------------------------------------------------------------
(* The bytes that wait, with their traces.                                 *)
Explained(b, s, F, o, m) ==
  /\ Tagged(Len(b), 20 * Len(s), F, o, m)
  /\ Runs(Len(b), o, m)
  /\ Once(Len(b), m)
  /\ Apart(Len(b), m)
  /\ Faithful(b, s, o, m)
  /\ Headerless(b, m)

(* The four bytes of c from index i on are four of the inside of noise in b. *)
FourOf(b, m, c, i) ==
  \E j \in 0 .. Len(b) - 4 : Inside(m, j) /\ \A k \in 1..4 : c[i + k] = b[j + k]

LEMMA HeaderlessKept ==
  ASSUME NEW b, NEW c, NEW m, NEW m2, Headerless(b, m),
         \A i \in 0 .. Len(c) - 4 : Inside(m2, i) => FourOf(b, m, c, i)
  PROVE  Headerless(c, m2)
<1> SUFFICES ASSUME NEW i \in 0 .. Len(c) - 4, Inside(m2, i), HeaderAt(c, i) PROVE FALSE
  BY DEF Headerless
<1>1. PICK j \in 0 .. Len(b) - 4 : Inside(m, j) /\ \A k \in 1..4 : c[i + k] = b[j + k]
  BY Zenon DEF FourOf
<1>2. c[i + 1] = b[j + 1] /\ c[i + 2] = b[j + 2] /\ c[i + 3] = b[j + 3] /\ c[i + 4] = b[j + 4]
  BY <1>1
<1>3. HeaderAt(b, j)
  BY <1>2, Zenon DEF HeaderAt
<1> QED
  BY <1>1, <1>3, Zenon DEF Headerless

(* L bytes are taken from the front of b, which leaves c.                  *)
Taken(b, c, L) ==
  /\ L \in 0..Len(b)
  /\ c \in Seq(Byte) /\ Len(c) = Len(b) - L
  /\ \A i \in 1 .. Len(b) - L : c[i] = b[L + i]

Follow(c, L, m, m2) == \A i \in 1 .. Len(c) + 1 : m2[i] = m[L + i]

LEMMA TakeExplained ==
  ASSUME NEW b \in Seq(Byte), NEW s, NEW F \in Nat, NEW o, NEW m, Explained(b, s, F, o, m),
         NEW L, NEW c, Taken(b, c, L)
  PROVE  \E o2, m2 : Explained(c, s, F, o2, m2) /\ Follow(c, L, m, m2)
<1> DEFINE N == Len(b)
           o2 == [i \in 1 .. (N - L) + 1 |-> o[L + i]]
           m2 == [i \in 1 .. (N - L) + 1 |-> m[L + i]]
<1>0. /\ L \in 0..Len(b) /\ c \in Seq(Byte) /\ Len(c) = N - L
      /\ \A i \in 1 .. N - L : c[i] = b[L + i]
  BY DEF Taken
<1>1. N \in Nat /\ L \in 0..N
  BY <1>0
<1>2. /\ Tagged(N, 20 * Len(s), F, o, m) /\ Runs(N, o, m) /\ Once(N, m)
      /\ Apart(N, m) /\ Faithful(b, s, o, m) /\ Headerless(b, m)
  BY DEF Explained
<1>3. /\ Tagged(N - L, 20 * Len(s), F, o2, m2)
      /\ Runs(N - L, o2, m2)
      /\ Once(N - L, m2)
      /\ Apart(N - L, m2)
  <2> HIDE DEF N
  <2> QED
    BY <1>1, <1>2, TakeTags, TakeApart
<1>4. ASSUME NEW i \in 1 .. N - L, m2[i] = 0
      PROVE  o2[i] \in 0 .. 20 * Len(s) - 1 /\ c[i] = Wire(s, o2[i])
  <2>1. L + i \in 1..N /\ i \in 1 .. (N - L) + 1
    BY <1>1
  <2>2. m[L + i] = 0 /\ o2[i] = o[L + i]
    BY <1>4, <2>1
  <2>3. o[L + i] \in 0 .. 20 * Len(s) - 1 /\ b[L + i] = Wire(s, o[L + i])
    BY <1>2, <2>1, <2>2, Zenon DEF Faithful, N
  <2> QED
    BY <1>0, <2>2, <2>3, Zenon DEF N
<1>less. Headerless(c, m2)
  <2>1. ASSUME NEW i \in 0 .. Len(c) - 4, Inside(m2, i) PROVE FourOf(b, m, c, i)
    <3>1. ASSUME NEW k \in 1..4 PROVE m[(L + i) + k] = -1 /\ c[i + k] = b[(L + i) + k]
      <4>1. i + k \in 1 .. N - L /\ i + k \in 1 .. (N - L) + 1 /\ L + (i + k) = (L + i) + k
        BY <1>0, <1>1
      <4>2. m2[i + k] = -1
        BY <2>1 DEF Inside
      <4> QED
        BY <1>0, <4>1, <4>2
    <3>2. L + i \in 0 .. Len(b) - 4
      BY <1>0
    <3> QED
      BY <3>1, <3>2, Zenon DEF FourOf, Inside
  <2> QED
    BY <1>2, <2>1, HeaderlessKept, Zenon
<1>5. Explained(c, s, F, o2, m2)
  BY <1>0, <1>3, <1>4, <1>less, Zenon DEF Explained, Faithful, N
<1>6. Follow(c, L, m, m2)
  BY <1>0 DEF Follow
<1> QED
  BY <1>5, <1>6, Zenon

(* No trace comes back: where F have been left, those that are new have    *)
(* other numbers.                                                          *)
NewTraceOnly(b, c, F, m, m2) ==
  \A i \in 1 .. Len(c) + 1 :
    m2[i] \in 1..F => \E j \in 1 .. Len(b) + 1 : m2[i] = m[j]

(* n bytes are lost behind the first a.                                    *)
LEMMA LoseExplained ==
  ASSUME NEW b \in Seq(Byte), NEW s, NEW F \in Nat, NEW o, NEW m, Explained(b, s, F, o, m),
         NEW a \in Nat, NEW n \in Nat \ {0}, a + n <= Len(b),
         NEW c \in Seq(Byte), Len(c) = Len(b) - n,
         \A i \in 1..a : c[i] = b[i],
         \A i \in a + 1 .. Len(b) - n : c[i] = b[n + i]
  PROVE  \E o2, m2 : Explained(c, s, F + 1, o2, m2) /\ NewTraceOnly(b, c, F, m, m2)
<1> DEFINE N == Len(b)
           o2 == LossPlaces(N, a, n, o)
           m2 == LossTraces(N, a, n, F, m)
<1>1. N \in Nat /\ a + n <= N
  OBVIOUS
<1>2. /\ Tagged(N, 20 * Len(s), F, o, m) /\ Runs(N, o, m) /\ Once(N, m)
      /\ Apart(N, m) /\ Faithful(b, s, o, m) /\ Headerless(b, m)
  BY DEF Explained
<1>3. /\ Tagged(N - n, 20 * Len(s), F + 1, o2, m2)
      /\ Runs(N - n, o2, m2)
      /\ Once(N - n, m2)
      /\ Apart(N - n, m2)
  <2> HIDE DEF N
  <2> QED
    BY <1>1, <1>2, LoseTags, LoseApart, Zenon
<1>4. ASSUME NEW i \in 1 .. N - n, m2[i] = 0
      PROVE  o2[i] \in 0 .. 20 * Len(s) - 1 /\ c[i] = Wire(s, o2[i])
  <2> DEFINE e == IF i <= a THEN i ELSE n + i
  <2>1. e \in 1..N /\ m[e] = 0 /\ o2[i] = o[e]
    BY <1>1, <1>4 DEF LossPlaces, LossTraces
  <2>2. c[i] = b[e]
    BY <1>1
  <2> HIDE DEF e
  <2>3. o[e] \in 0 .. 20 * Len(s) - 1 /\ b[e] = Wire(s, o[e])
    BY <1>2, <2>1, Zenon DEF Faithful, N
  <2> QED
    BY <2>1, <2>2, <2>3, Zenon
<1>less. Headerless(c, m2)
  <2>1. \A i \in 1 .. (N - n) + 1 :
          /\ i <= a => m2[i] = m[i]
          /\ i > a + 1 => m2[i] = m[n + i]
          /\ i = a + 1 => m2[i] = F + 1
    BY DEF LossTraces
  <2> HIDE DEF m2
  <2>2. ASSUME NEW i \in 0 .. Len(c) - 4, Inside(m2, i) PROVE FourOf(b, m, c, i)
    <3>1. ASSUME NEW k \in 1..4 PROVE m2[i + k] = -1 /\ i + k # a + 1 /\ i + k \in 1 .. N - n
      <4>1. i + k \in 1 .. N - n /\ i + k \in 1 .. (N - n) + 1
        BY <1>1
      <4>2. m2[i + k] = -1
        BY <2>2, Zenon DEF Inside
      <4>3. i + k # a + 1
        BY <2>1, <4>1, <4>2
      <4> HIDE DEF N
      <4> QED
        BY <4>1, <4>2, <4>3, Zenon
    <3>2. CASE i < a
      <4>1. i + 4 <= a
        <5>1. i + 1 # a + 1 /\ i + 2 # a + 1 /\ i + 3 # a + 1 /\ i + 4 # a + 1
          BY <3>1
        <5> QED
          BY <3>2, <5>1
      <4>2. ASSUME NEW k \in 1..4 PROVE m[i + k] = -1 /\ c[i + k] = b[i + k]
        <5>1. i + k <= a /\ i + k \in 1..a /\ i + k \in 1 .. (N - n) + 1
          <6>1. i + k \in 1 .. N - n
            BY <3>1
          <6>2. i \in Nat
            OBVIOUS
          <6> HIDE DEF N
          <6> QED
            BY <1>1, <4>1, <6>1, <6>2
        <5>2. m[i + k] = -1
          BY <2>1, <3>1, <5>1, Zenon
        <5> QED
          BY <5>1, <5>2, Zenon
      <4>3. i \in 0 .. Len(b) - 4
        BY <1>1
      <4> QED
        BY <4>2, <4>3, Zenon DEF FourOf, Inside
    <3>3. CASE i >= a
      <4>1. i >= a + 1
        <5>1. i + 1 # a + 1
          BY <3>1
        <5> QED
          BY <3>3, <5>1
      <4>2. ASSUME NEW k \in 1..4 PROVE m[(n + i) + k] = -1 /\ c[i + k] = b[(n + i) + k]
        <5>1. n + (i + k) = (n + i) + k /\ i + k > a + 1 /\ i + k \in a + 1 .. Len(b) - n
              /\ i + k \in 1 .. (N - n) + 1
          BY <3>1, <4>1
        <5>2. m[n + (i + k)] = -1
          BY <2>1, <3>1, <5>1, Zenon
        <5>3. c[i + k] = b[n + (i + k)]
          BY <5>1, Zenon
        <5> QED
          BY <5>1, <5>2, <5>3
      <4>3. n + i \in 0 .. Len(b) - 4
        BY <1>1
      <4> QED
        BY <4>2, <4>3, Zenon DEF FourOf, Inside
    <3> QED
      BY <3>2, <3>3
  <2> QED
    BY <1>2, <2>2, HeaderlessKept, Zenon
<1>5. Explained(c, s, F + 1, o2, m2)
  BY <1>3, <1>4, <1>less, Zenon DEF Explained, Faithful, N
<1>6. ASSUME NEW i \in 1 .. (N - n) + 1, m2[i] \in 1..F
      PROVE  \E j \in 1 .. N + 1 : m2[i] = m[j]
  <2>1. CASE i <= a
    <3>1. i \in 1 .. N + 1 /\ m2[i] = m[i]
      BY <1>1, <2>1 DEF LossTraces
    <3> QED
      BY <3>1, Zenon
  <2>2. CASE i = a + 1
    BY <1>6, <2>2 DEF LossTraces
  <2>3. CASE i > a + 1
    <3>1. n + i \in 1 .. N + 1 /\ m2[i] = m[n + i]
      BY <1>1, <2>3 DEF LossTraces
    <3> QED
      BY <3>1, Zenon
  <2>4. i <= a \/ i = a + 1 \/ i > a + 1
    <3> i \in Int /\ a \in Int
      BY <1>1
    <3> QED
      OBVIOUS
  <2> QED
    BY <2>1, <2>2, <2>3, <2>4, Zenon
<1>7. NewTraceOnly(b, c, F, m, m2)
  BY <1>6, Zenon DEF NewTraceOnly, N
<1> QED
  BY <1>5, <1>7, Zenon

(* A run of noise gets in behind the first a bytes of b.                   *)
RunInserted(b, c, a, run) ==
  /\ a \in 0..Len(b)
  /\ c \in Seq(Byte) /\ Len(c) = Len(b) + Len(run)
  /\ \A i \in 1..a : c[i] = b[i]
  /\ \A i \in 1..Len(run) : c[a + i] = run[i]
  /\ \A i \in a + Len(run) + 1 .. Len(b) + Len(run) : c[i] = b[i - Len(run)]

LEMMA FourthPlace ==
  ASSUME NEW a \in Nat, NEW i \in Nat, NEW k \in 1..4, i + 4 <= a
  PROVE  i + k \in 1..a /\ i + k <= a
  OBVIOUS

(* The k-th byte behind place i, both behind a run of n that starts at a,  *)
(* stood n places earlier before it.                                       *)
LEMMA ShiftedPlace ==
  ASSUME NEW N \in Nat, NEW n \in Nat, NEW a \in Nat, NEW i \in Nat, NEW k \in 1..4,
         i >= a + n, i + k \in 1 .. N + n
  PROVE  /\ (i + k) - n = (i - n) + k
         /\ i + k > a + n
         /\ i + k \in a + n + 1 .. N + n
         /\ i + k \in 1 .. (N + n) + 1
OBVIOUS

LEMMA RunExplained ==
  ASSUME NEW b \in Seq(Byte), NEW s, NEW F \in Nat, NEW o, NEW m, Explained(b, s, F, o, m),
         NEW run \in NoiseRuns, NoHeaderInNoise,
         NEW G \in Nat, G >= F + 1, Len(run) > 1 => G >= F + 2,
         NEW a, NEW c, RunInserted(b, c, a, run)
  PROVE  \E o2, m2 : Explained(c, s, G, o2, m2) /\ NewTraceOnly(b, c, F, m, m2)
<1> DEFINE N == Len(b)
           n == Len(run)
           o2 == RunPlaces(N, a, n, o)
           m2 == RunTraces(N, a, n, F, m)
<1>0. /\ a \in 0..N
      /\ c \in Seq(Byte) /\ Len(c) = N + n
      /\ \A i \in 1..a : c[i] = b[i]
      /\ \A i \in 1..n : c[a + i] = run[i]
      /\ \A i \in a + n + 1 .. N + n : c[i] = b[i - n]
  BY DEF RunInserted
<1>1. N \in Nat /\ n \in Nat \ {0}
  <2>1. run \in Seq(Byte) /\ run # <<>>
    BY NoiseAssumption
  <2> QED
    BY <2>1
<1>short. n = 1 \/ Inner = -1
  BY DEF Inner, StrayBytesOnly
<1>2. /\ Tagged(N, 20 * Len(s), F, o, m) /\ Runs(N, o, m) /\ Once(N, m)
      /\ Apart(N, m) /\ Faithful(b, s, o, m) /\ Headerless(b, m)
  BY DEF Explained
<1>3. /\ Tagged(N + n, 20 * Len(s), G, o2, m2)
      /\ Runs(N + n, o2, m2)
      /\ Once(N + n, m2)
      /\ Apart(N + n, m2)
  <2>1. n > 1 => G >= F + 2
    OBVIOUS
  <2> HIDE DEF N, n
  <2> QED
    BY <1>0, <1>1, <1>short, <1>2, <2>1, RunTags, ZenonT(60)
<1>tags. \A i \in 1 .. (N + n) + 1 :
           /\ o2[i] \in Int
           /\ i <= a => i \in 1 .. N + 1 /\ o2[i] = o[i] /\ m2[i] = m[i]
           /\ i > a + n => i - n \in 1 .. N + 1 /\ o2[i] = o[i - n] /\ m2[i] = m[i - n]
           /\ i > a /\ i <= a + n => o2[i] = o[a + 1] - 1
           /\ i = a + 1 => m2[i] = F + 1
           /\ i > a + 1 /\ i < a + n => m2[i] = -1
           /\ i > a + 1 /\ i = a + n => m2[i] = F + 2 /\ n > 1
  <2>1. a \in 0..N
    BY <1>0, Zenon
  <2> HIDE DEF N, n
  <2>2. RunLabelled(N, a, n, F, o, m, RunPlaces(N, a, n, o), RunTraces(N, a, n, F, m))
    BY <1>1, <1>short, <1>2, <2>1, RunLabels, Zenon
  <2> QED
    BY <2>2, Zenon DEF RunLabelled
<1> HIDE DEF n, o2, m2
<1>cases. ASSUME NEW i \in 1 .. (N + n) + 1
          PROVE  i <= a \/ i > a + n \/ i = a + 1 \/ (i > a + 1 /\ i < a + n) \/ (i > a + 1 /\ i = a + n)
  BY <1>0, <1>1
<1>4. ASSUME NEW i \in 1 .. N + n, m2[i] = 0
      PROVE  o2[i] \in 0 .. 20 * Len(s) - 1 /\ c[i] = Wire(s, o2[i])
  <2> DEFINE e == IF i <= a THEN i ELSE i - n
  <2>0. i \in 1 .. (N + n) + 1
    BY <1>1
  <2>1. i <= a \/ i > a + n
    BY <1>4, <1>tags, <1>cases, <2>0
  <2>2. e \in 1..N /\ m[e] = 0 /\ o2[i] = o[e]
    BY <1>0, <1>1, <1>4, <1>tags, <2>0, <2>1
  <2>3. c[i] = b[e]
    <3>1. CASE i <= a
      <4>1. i \in 1..a /\ e = i
        BY <3>1
      <4> HIDE DEF e
      <4> QED
        BY <1>0, <4>1, Zenon
    <3>2. CASE i > a + n
      <4>1. i \in a + n + 1 .. N + n /\ e = i - n
        BY <1>0, <1>1, <3>2
      <4> HIDE DEF e
      <4> QED
        BY <1>0, <4>1, Zenon
    <3> QED
      BY <2>1, <3>1, <3>2
  <2> HIDE DEF e
  <2>4. o[e] \in 0 .. 20 * Len(s) - 1 /\ b[e] = Wire(s, o[e])
    BY <1>2, <2>2, Zenon DEF Faithful, N
  <2> QED
    BY <2>2, <2>3, <2>4, Zenon
<1>less. Headerless(c, m2)
  <2> SUFFICES ASSUME NEW i \in 0 .. Len(c) - 4, Inside(m2, i) PROVE ~ HeaderAt(c, i)
    BY DEF Headerless
  <2>1. ASSUME NEW k \in 1..4
        PROVE  /\ m2[i + k] = -1 /\ i + k \in 1 .. N + n /\ i + k \in 1 .. (N + n) + 1
               /\ i + k # a + 1 /\ ~ (i + k > a + 1 /\ i + k = a + n)
    <3>1. i + k \in 1 .. N + n /\ i + k \in 1 .. (N + n) + 1
      <4> HIDE DEF N
      <4> QED
        BY <1>0, <1>1
    <3>2. m2[i + k] = -1
      BY Zenon DEF Inside
    <3> HIDE DEF N
    <3> QED
      BY <1>1, <1>tags, <3>1, <3>2
  <2>2. i + 1 # a + 1 /\ i + 2 # a + 1 /\ i + 3 # a + 1 /\ i + 4 # a + 1
    BY <2>1
  <2>3. CASE i < a
    <3>1. i + 4 <= a
      BY <1>0, <2>2, <2>3
    <3>2. ASSUME NEW k \in 1..4 PROVE m[i + k] = -1 /\ c[i + k] = b[i + k]
      <4>1. i + k \in 1..a /\ i + k <= a
        <5>1. a \in Nat /\ i \in Nat
          BY <1>0
        <5> QED
          BY <3>1, <5>1, FourthPlace, Zenon
      <4>2. m2[i + k] = -1 /\ i + k \in 1 .. (N + n) + 1
        BY <2>1, Zenon
      <4>3. m[i + k] = -1
        BY <1>tags, <4>1, <4>2
      <4> QED
        BY <1>0, <4>1, <4>3, Zenon
    <3>3. i \in 0 .. N - 4
      BY <1>0, <3>1
    <3>4. Inside(m, i)
      BY <3>2 DEF Inside
    <3>5. ~ HeaderAt(b, i)
      BY <1>2, <3>3, <3>4, Zenon DEF Headerless, N
    <3> QED
      BY <3>2, <3>5 DEF HeaderAt
  <2>4. CASE a < i /\ i + 4 < a + n
    <3> DEFINE j == i - a
    <3>1. j \in 0 .. n - 4 /\ a + j = i
      BY <1>0, <1>1, <2>4
    <3>2. ASSUME NEW k \in 1..4 PROVE c[i + k] = run[j + k]
      <4>1. j + k \in 1..n /\ a + (j + k) = i + k
        BY <1>0, <1>1, <3>1
      <4> HIDE DEF j
      <4> QED
        BY <1>0, <4>1
    <3> HIDE DEF j
    <3>3. ~ HeaderAt(run, j)
      BY <3>1, Zenon DEF NoHeaderInNoise, HEADER_SIZE, n
    <3> QED
      BY <3>2, <3>3 DEF HeaderAt
  <2>5. CASE a < i /\ i < a + n /\ i + 4 >= a + n
    <3>1. a + n \in i + 1 .. i + 4 /\ a + n > a + 1
      BY <1>0, <1>1, <2>5
    <3>2. i + 1 = a + n \/ i + 2 = a + n \/ i + 3 = a + n \/ i + 4 = a + n
      BY <1>0, <1>1, <3>1
    <3> QED
      BY <2>1, <3>1, <3>2
  <2>6. CASE i >= a + n
    <3> DEFINE j == i - n
    <3>1. j \in 0 .. N - 4 /\ j \in Nat
      BY <1>0, <1>1, <2>6
    <3>2. ASSUME NEW k \in 1..4 PROVE m[j + k] = -1 /\ c[i + k] = b[j + k]
      <4>1. (i + k) - n = j + k /\ i + k > a + n /\ i + k \in a + n + 1 .. N + n
            /\ i + k \in 1 .. (N + n) + 1
        <5>1. i + k \in 1 .. N + n
          BY <2>1
        <5>2. i \in Nat /\ a \in Nat
          BY <1>0, <1>1
        <5> HIDE DEF N, j
        <5>3. (i + k) - n = (i - n) + k /\ i + k > a + n /\ i + k \in a + n + 1 .. N + n
              /\ i + k \in 1 .. (N + n) + 1
          <6>1. n \in Nat /\ N \in Nat
            BY <1>1, Zenon
          <6> QED
            BY <2>6, <5>1, <5>2, <6>1, ShiftedPlace, SMTT(30)
        <5> QED
          BY <5>3, Zenon DEF j
      <4>2. m2[i + k] = -1
        BY <2>1
      <4> HIDE DEF j
      <4> QED
        BY <1>0, <1>tags, <4>1, <4>2
    <3> HIDE DEF j
    <3>3. Inside(m, j)
      BY <3>2 DEF Inside
    <3>4. ~ HeaderAt(b, j)
      BY <1>2, <3>1, <3>3, Zenon DEF Headerless, N
    <3> QED
      BY <3>2, <3>4 DEF HeaderAt
  <2>7. i # a
    BY <2>2
  <2> QED
    BY <1>0, <1>1, <2>3, <2>4, <2>5, <2>6, <2>7
<1>5. Explained(c, s, G, o2, m2)
  BY <1>0, <1>3, <1>4, <1>less, Zenon DEF Explained, Faithful, N
<1>6. ASSUME NEW i \in 1 .. (N + n) + 1, m2[i] \in 1..F
      PROVE  \E j \in 1 .. N + 1 : m2[i] = m[j]
  <2>1. i <= a \/ i > a + n
    BY <1>6, <1>tags, <1>cases
  <2>2. CASE i <= a
    <3>1. i \in 1 .. N + 1 /\ m2[i] = m[i]
      BY <1>tags, <2>2
    <3> QED
      BY <3>1, Zenon
  <2>3. CASE i > a + n
    <3>1. i - n \in 1 .. N + 1 /\ m2[i] = m[i - n]
      BY <1>tags, <2>3
    <3> QED
      BY <3>1, Zenon
  <2> QED
    BY <2>1, <2>2, <2>3
<1>7. NewTraceOnly(b, c, F, m, m2)
  BY <1>0, <1>6, Zenon DEF NewTraceOnly, N
<1> QED
  BY <1>5, <1>7, Zenon

(* A packet is sent, and r bytes of its frame get on the line.             *)
Extended(b, c, p, r) ==
  /\ c \in Seq(Byte) /\ Len(c) = Len(b) + r
  /\ \A i \in 1..Len(b) : c[i] = b[i]
  /\ \A i \in 1..r : c[Len(b) + i] = Encode(p)[i]

LEMMA SendExplained ==
  ASSUME NEW b \in Seq(Byte), NEW s \in Seq(Packets), NEW F \in Nat, NEW o, NEW m,
         Explained(b, s, F, o, m),
         NEW p \in Packets, NEW r \in 1..20, NEW G \in {F, F + 1}, r = 20 \/ G = F + 1,
         NEW c, Extended(b, c, p, r)
  PROVE  \E o2, m2 : Explained(c, Append(s, p), G, o2, m2) /\ NewTraceOnly(b, c, F, m, m2)
<1> DEFINE N == Len(b)
           T == 20 * Len(s)
           o2 == SendPlaces(N, r, T, o)
           m2 == SendTraces(N, r, F, G, m)
<1>0. /\ c \in Seq(Byte) /\ Len(c) = Len(b) + r
      /\ \A i \in 1..Len(b) : c[i] = b[i]
      /\ \A i \in 1..r : c[Len(b) + i] = Encode(p)[i]
  BY DEF Extended
<1> USE <1>0
<1>1. N \in Nat /\ T \in Nat
  OBVIOUS
<1>2. /\ Tagged(N, T, F, o, m) /\ Runs(N, o, m) /\ Once(N, m)
      /\ Apart(N, m) /\ Faithful(b, s, o, m) /\ Headerless(b, m)
  BY DEF Explained
<1>3. /\ Tagged(N + r, T + 20, G, o2, m2)
      /\ Runs(N + r, o2, m2)
      /\ Once(N + r, m2)
      /\ Apart(N + r, m2)
  <2>1. T \in Int
    BY <1>1
  <2> HIDE DEF N, T
  <2>2. m[N + 1] \in Inner..F
    <3>1. N + 1 \in 1 .. N + 1
      BY <1>1
    <3> QED
      BY <1>2, <3>1 DEF Tagged
  <2> QED
    BY <1>1, <1>2, <2>1, <2>2, SendTags, SendApart, Zenon
<1>4. 20 * Len(Append(s, p)) = T + 20
  OBVIOUS
<1>5. ASSUME NEW i \in 1 .. N + r, m2[i] = 0
      PROVE  o2[i] \in 0 .. (T + 20) - 1 /\ c[i] = Wire(Append(s, p), o2[i])
  <2>1. CASE i <= N
    <3>1. i \in 1..N /\ m[i] = 0 /\ o2[i] = o[i]
      BY <1>1, <1>5, <2>1 DEF SendPlaces, SendTraces
    <3>2. o[i] \in 0 .. T - 1 /\ b[i] = Wire(s, o[i])
      BY <1>2, <3>1, Zenon DEF Faithful, N, T
    <3>3. Wire(Append(s, p), o[i]) = Wire(s, o[i])
      BY <3>2, WireAppend
    <3>4. o[i] \in 0 .. (T + 20) - 1
      BY <1>1, <3>2
    <3> QED
      BY <3>1, <3>2, <3>3, <3>4, Zenon DEF N
  <2>2. CASE i > N
    <3> DEFINE q == i - N
    <3>1. /\ q \in 1..r /\ q \in 1..20 /\ N + q = i
          /\ o2[i] = T + q - 1
          /\ T + q - 1 \in 0 .. (T + 20) - 1
      <4>1. o2[i] = T + (i - (N + 1))
        BY <1>1, <2>2 DEF SendPlaces
      <4> HIDE DEF N, T, o2
      <4>2. q \in 1..r /\ q \in 1..20 /\ N + q = i
        BY <1>1, <2>2
      <4>3. T + (i - (N + 1)) = T + q - 1 /\ T + q - 1 \in 0 .. (T + 20) - 1
        BY <1>1, <4>2
      <4> QED
        BY <4>1, <4>2, <4>3
    <3> HIDE DEF q
    <3>2. c[N + q] = Encode(p)[q]
      BY <3>1, Zenon DEF N
    <3>3. Wire(Append(s, p), T + q - 1) = Encode(p)[q]
      BY <3>1, WireAppend
    <3> QED
      BY <3>1, <3>2, <3>3, Zenon
  <2> QED
    BY <1>1, <2>1, <2>2
<1>less. Headerless(c, m2)
  <2>1. \A i \in 1 .. (N + r) + 1 :
          /\ i <= N + 1 => m2[i] = m[i]
          /\ i > N + 1 => m2[i] # -1
    BY DEF SendTraces
  <2> HIDE DEF m2
  <2>2. ASSUME NEW i \in 0 .. Len(c) - 4, Inside(m2, i) PROVE FourOf(b, m, c, i)
    <3>1. ASSUME NEW k \in 1..4 PROVE m2[i + k] = -1 /\ m[i + k] = -1 /\ i + k \in 1..N
      <4>0. i + k \in 1 .. (N + r) + 1
        BY <1>1
      <4>1. m2[i + k] = -1 /\ i + k \in 1 .. (N + r) + 1
        BY <2>2, <4>0, Zenon DEF Inside
      <4>2. i + k <= N + 1 /\ m[i + k] = -1
        BY <2>1, <4>1
      <4>3. i + k # N + 1
        BY <1>2, <4>2 DEF Apart
      <4>4. i + k \in 1..N
        <5> HIDE DEF N
        <5> QED
          BY <1>1, <4>0, <4>2, <4>3
      <4> QED
        BY <4>1, <4>2, <4>4, Zenon
    <3>2. \A k \in 1..4 : m[i + k] = -1 /\ c[i + k] = b[i + k]
      BY <3>1
    <3>3. i \in 0 .. Len(b) - 4
      BY <3>1
    <3> QED
      BY <3>2, <3>3, Zenon DEF FourOf, Inside
  <2> QED
    BY <1>2, <2>2, HeaderlessKept, Zenon
<1>6. Explained(c, Append(s, p), G, o2, m2)
  <2> HIDE DEF T, o2, m2
  <2> QED
    BY <1>3, <1>4, <1>5, <1>less, Zenon DEF Explained, Faithful, N
<1>7. ASSUME NEW i \in 1 .. (N + r) + 1, m2[i] \in 1..F
      PROVE  \E j \in 1 .. N + 1 : m2[i] = m[j]
  <2>1. CASE i <= N + 1
    <3>1. i \in 1 .. N + 1 /\ m2[i] = m[i]
      BY <1>1, <2>1 DEF SendTraces
    <3> QED
      BY <3>1, Zenon
  <2>2. CASE i > N + 1
    BY <1>1, <1>7, <2>2 DEF SendTraces
  <2> QED
    BY <1>1, <2>1, <2>2
<1>8. NewTraceOnly(b, c, F, m, m2)
  BY <1>7, Zenon DEF NewTraceOnly, N
<1> QED
  BY <1>6, <1>8, Zenon
-----------------------------------------------------------------------------
(* What parsePacket makes of a buffer of any content: a packet it finds is *)
(* copied from the index of the first header, modulo 256.                  *)
LEMMA ParseOutcome ==
  ASSUME NEW c \in Seq(Byte), NEW position \in 0 .. POSITION_RANGE - 1
  PROVE  LET result == ParsePacket(c, position, little_endian)
             h == Min(HeaderIndices(c)) % POSITION_RANGE
         IN  /\ result.second \in BOOLEAN
             /\ result.position \in 0 .. POSITION_RANGE - 1
             /\ ~ result.second => result.buffer = c /\ result.first = ZeroPacket
             /\ result.second => /\ result.buffer = <<>>
                                 /\ HeaderIndices(c) # {}
                                 /\ h \in Nat /\ h + 20 <= Len(c)
                                 /\ result.first = PacketAt(c, h, little_endian)
<1> DEFINE result == ParsePacket(c, position, little_endian)
           h == Min(HeaderIndices(c)) % POSITION_RANGE
<1>1. CASE HeaderIndices(c) = {}
  <2>1. result = [ buffer |-> c, position |-> position, second |-> FALSE, first |-> ZeroPacket ]
    BY <1>1, ParseNoHeader
  <2> QED
    BY <2>1
<1>2. CASE HeaderIndices(c) # {}
  <2>1. HeaderIndices(c) \in SUBSET Nat
    BY DEF HeaderIndices
  <2>2. Min(HeaderIndices(c)) \in Nat
    BY <1>2, <2>1, MinOfNats
  <2>3. h \in Nat /\ h \in 0 .. POSITION_RANGE - 1
    <3>1. \A x \in Nat : x % 256 \in Nat /\ x % 256 \in 0 .. 256 - 1
      OBVIOUS
    <3> QED
      BY <2>2, <3>1, Zenon DEF POSITION_RANGE
  <2>4. FindHeader(c, position) = [found |-> TRUE, position |-> h]
    BY <1>2 DEF FindHeader
  <2> HIDE DEF h
  <2>5. result = IF h + 20 <= Len(c)
                 THEN [ buffer |-> <<>>, position |-> 0, second |-> TRUE,
                        first |-> PacketAt(c, h, little_endian) ]
                 ELSE [ buffer |-> c, position |-> h, second |-> FALSE, first |-> ZeroPacket ]
    BY <2>4 DEF ParsePacket, PACKET_SIZE
  <2>6. 0 \in 0 .. POSITION_RANGE - 1
    BY DEF POSITION_RANGE
  <2> HIDE DEF result
  <2>7. CASE h + 20 <= Len(c)
    <3>1. result = [ buffer |-> <<>>, position |-> 0, second |-> TRUE,
                     first |-> PacketAt(c, h, little_endian) ]
      BY <2>5, <2>7
    <3> QED
      BY <1>2, <2>3, <2>6, <2>7, <3>1 DEF h, result
  <2>8. CASE ~ (h + 20 <= Len(c))
    <3>1. result = [ buffer |-> c, position |-> h, second |-> FALSE, first |-> ZeroPacket ]
      BY <2>5, <2>8
    <3> QED
      BY <2>3, <3>1 DEF h, result
  <2> QED
    BY <2>7, <2>8
<1> QED
  BY <1>1, <1>2

(* Any 16 bytes behind four others make a packet.                          *)
LEMMA AnyBytesAPacket ==
  ASSUME NEW b \in Seq(Byte), NEW i \in Nat, i + 20 <= Len(b)
  PROVE  PacketAt(b, i, little_endian) \in ParsedPacket
<1>1. \A k \in 1..20 : b[i + k] \in Byte
  OBVIOUS
<1>2. ASSUME NEW f \in {4, 8, 12, 16} PROVE Field(b, i + f, little_endian) \in Word
  <2> DEFINE w == <<b[(i + f) + 1], b[(i + f) + 2], b[(i + f) + 3], b[(i + f) + 4]>>
  <2>1. /\ f + 1 \in 1..20 /\ f + 2 \in 1..20 /\ f + 3 \in 1..20 /\ f + 4 \in 1..20
        /\ i + (f + 1) = (i + f) + 1 /\ i + (f + 2) = (i + f) + 2
        /\ i + (f + 3) = (i + f) + 3 /\ i + (f + 4) = (i + f) + 4
    OBVIOUS
  <2>2. /\ b[(i + f) + 1] \in Byte /\ b[(i + f) + 2] \in Byte
        /\ b[(i + f) + 3] \in Byte /\ b[(i + f) + 4] \in Byte
    BY <1>1, <2>1, Zenon
  <2>3. w \in Word
    BY <2>2 DEF Word
  <2> HIDE DEF w
  <2>4. ntohl(w) \in Word
    BY <2>3, NtohlInvolution
  <2> QED
    BY <2>3, <2>4 DEF Field, w
<1>3. /\ Field(b, i + 4, little_endian) \in Word /\ Field(b, i + 8, little_endian) \in Word
      /\ Field(b, i + 12, little_endian) \in Word /\ Field(b, i + 16, little_endian) \in Word
  BY <1>2
<1> QED
  BY <1>3 DEF PacketAt, ParsedPacket
-----------------------------------------------------------------------------
(* From every place of the stream on, a frame begins within 20 bytes.      *)
LEMMA NextMultiple ==
  ASSUME NEW x \in Nat
  PROVE  \E d \in 0..19 : (x + d) % 20 = 0 /\ \A i \in Nat : (x + i) % 20 = 0 => d <= i
<1> DEFINE d == 20 * ((x + 19) \div 20) - x
<1>1. d \in 0..19 /\ (x + d) % 20 = 0 /\ \A i \in Nat : (x + i) % 20 = 0 => d <= i
  OBVIOUS
<1> QED
  BY <1>1

(* Bytes without a trace are a piece of the stream.                        *)
Untouched(m, x, y) == \A k \in x..y : m[k] = 0

Piece(b, s, B, x, y) == \A i \in x..y : b[i] = Wire(s, B + (i - x))

LEMMA CleanPiece ==
  ASSUME NEW b \in Seq(Byte), NEW F \in Nat, NEW o, NEW m, Explained(b, sent, F, o, m),
         sent \in Seq(Packets),
         NEW x \in 1..Len(b), NEW y \in x..Len(b), Untouched(m, x, y)
  PROVE  /\ o[x] \in Nat
         /\ o[x] + (y - x) < 20 * Len(sent)
         /\ Piece(b, sent, o[x], x, y)
<1>0. \A k \in x..y : m[k] = 0
  BY Zenon DEF Untouched
<1>1. /\ Runs(Len(b), o, m) /\ Faithful(b, sent, o, m)
      /\ \A i \in 1 .. Len(b) + 1 : o[i] \in Int
  BY DEF Explained, Tagged
<1>2. ASSUME NEW i \in x..y
      PROVE  o[i] = o[x] + (i - x) /\ o[i] \in 0 .. 20 * Len(sent) - 1 /\ b[i] = Wire(sent, o[i])
  <2>1. i \in 1..Len(b) /\ m[i] = 0
    BY <1>0
  <2>2. o[i] \in 0 .. 20 * Len(sent) - 1 /\ b[i] = Wire(sent, o[i])
    BY <1>1, <2>1, Zenon DEF Faithful
  <2>3. o[i] = o[x] + (i - x)
    <3>1. CASE x < i
      <4>1. x \in 1 .. Len(b) + 1 /\ i \in 1 .. Len(b) + 1
        OBVIOUS
      <4>2. ASSUME NEW k \in x + 1 .. i PROVE m[k] = 0
        BY <1>0
      <4> QED
        BY <1>1, <3>1, <4>1, <4>2, Zenon DEF Runs
    <3>2. CASE x = i
      <4>1. o[x] \in Int /\ i - x = 0
        BY <1>1, <3>2
      <4> QED
        BY <3>2, <4>1
    <3> QED
      BY <3>1, <3>2
  <2> QED
    BY <2>2, <2>3
<1>3. o[x] \in 0 .. 20 * Len(sent) - 1
  BY <1>2
<1>4. o[y] = o[x] + (y - x) /\ o[y] \in 0 .. 20 * Len(sent) - 1
  BY <1>2
<1>5. Len(sent) \in Nat
  OBVIOUS
<1>6. ASSUME NEW i \in x..y PROVE b[i] = Wire(sent, o[x] + (i - x))
  <2>1. o[i] = o[x] + (i - x) /\ b[i] = Wire(sent, o[i])
    BY <1>2
  <2> QED
    BY <2>1
<1>7. o[x] \in Nat /\ o[x] + (y - x) < 20 * Len(sent)
  BY <1>3, <1>4, <1>5
<1> QED
  BY <1>6, <1>7, Zenon DEF Piece

(* In such a piece, headers are where frames begin.                        *)
LEMMA PieceHeader ==
  ASSUME sent \in Seq(Packets), NEW b, NEW B \in Nat, NEW x \in Nat, NEW y \in Nat,
         B + (y - x) < 20 * Len(sent), Piece(b, sent, B, x, y),
         NEW d \in Nat, x + d + 3 <= y
  PROVE  HeaderAt(b, (x + d) - 1) <=> (B + d) % 20 = 0
<1>0. \A i \in x..y : b[i] = Wire(sent, B + (i - x))
  BY Zenon DEF Piece
<1>1. /\ b[((x + d) - 1) + 1] = Wire(sent, B + d)
      /\ b[((x + d) - 1) + 2] = Wire(sent, (B + d) + 1)
      /\ b[((x + d) - 1) + 3] = Wire(sent, (B + d) + 2)
      /\ b[((x + d) - 1) + 4] = Wire(sent, (B + d) + 3)
  <2>1. /\ ((x + d) - 1) + 1 \in x..y /\ B + ((((x + d) - 1) + 1) - x) = B + d
        /\ ((x + d) - 1) + 2 \in x..y /\ B + ((((x + d) - 1) + 2) - x) = (B + d) + 1
        /\ ((x + d) - 1) + 3 \in x..y /\ B + ((((x + d) - 1) + 3) - x) = (B + d) + 2
        /\ ((x + d) - 1) + 4 \in x..y /\ B + ((((x + d) - 1) + 4) - x) = (B + d) + 3
    OBVIOUS
  <2> QED
    BY <1>0, <2>1
<1>2. B + d \in Nat /\ (B + d) + 4 <= 20 * Len(sent)
  <2>1. Len(sent) \in Nat
    OBVIOUS
  <2> QED
    BY <2>1
<1>3. (/\ Wire(sent, B + d) = HEADER1 /\ Wire(sent, (B + d) + 1) = HEADER2
       /\ Wire(sent, (B + d) + 2) = HEADER3 /\ Wire(sent, (B + d) + 3) = HEADER4)
      <=> (B + d) % 20 = 0
  BY <1>2, WireHeader
<1> QED
  BY <1>1, <1>3, Zenon DEF HeaderAt

(* A packet found in bytes without a trace is one that was sent: the first *)
(* header is within 20 bytes, and 20 more are the frame.                   *)
Beginning(b, c) == c \in Seq(Byte) /\ Len(c) <= Len(b) /\ \A i \in 1..Len(c) : c[i] = b[i]

LEMMA CleanParse ==
  ASSUME NEW b \in Seq(Byte), NEW F \in Nat, NEW o, NEW m, Explained(b, sent, F, o, m),
         sent \in Seq(Packets),
         NEW c, Beginning(b, c), Untouched(m, 1, Len(c)),
         NEW position \in 0 .. POSITION_RANGE - 1,
         ParsePacket(c, position, little_endian).second
  PROVE  ParsePacket(c, position, little_endian).first \in ToSet(sent)
<1> DEFINE L == Len(c)
           h == Min(HeaderIndices(c))
<1>0. /\ c \in Seq(Byte) /\ Len(c) <= Len(b) /\ \A i \in 1..Len(c) : c[i] = b[i]
  BY DEF Beginning
<1> USE <1>0
<1>1. /\ HeaderIndices(c) # {}
      /\ (h % POSITION_RANGE) + 20 <= L
      /\ ParsePacket(c, position, little_endian).first
           = PacketAt(c, h % POSITION_RANGE, little_endian)
  BY ParseOutcome
<1>2. HeaderIndices(c) = {i \in 0 .. L - 5 : HeaderAt(c, i)}
  BY DEF HeaderIndices, HEADER_SIZE
<1>3. HeaderIndices(c) \in SUBSET Nat
  BY <1>2
<1>4. h \in HeaderIndices(c) /\ \A j \in HeaderIndices(c) : h <= j
  BY <1>1, <1>3, MinOfNats
<1>5. h \in Nat /\ h + 5 <= L /\ HeaderAt(c, h) /\ L \in Nat
  BY <1>2, <1>4
<1> HIDE DEF h
<1>6. 1 \in 1..Len(b) /\ L \in 1..Len(b) /\ 1 <= L
  BY <1>5
<1>7. /\ o[1] \in Nat
      /\ o[1] + (L - 1) < 20 * Len(sent)
      /\ \A i \in 1..L : b[i] = Wire(sent, o[1] + (i - 1))
  BY <1>6, CleanPiece DEF Piece
<1>piece. Piece(b, sent, o[1], 1, L)
  BY <1>7, Zenon DEF Piece
<1> HIDE DEF L
<1>8. ASSUME NEW i \in Nat, i + 5 <= L PROVE HeaderAt(c, i) <=> (o[1] + i) % 20 = 0
  <2>1. HeaderAt(b, (1 + i) - 1) <=> (o[1] + i) % 20 = 0
    <3>1. 1 + i + 3 <= L /\ 1 \in Nat
      BY <1>5, <1>8
    <3> QED
      <4> DEFINE B == o[1]
                 x == 1
      <4>1. B \in Nat /\ x \in Nat /\ L \in Nat /\ B + (L - x) < 20 * Len(sent)
            /\ Piece(b, sent, B, x, L) /\ i \in Nat /\ x + i + 3 <= L
        BY <1>5, <1>7, <1>8, <1>piece, <3>1, Zenon
      <4> HIDE DEF B, x
      <4> HIDE <1>0
      <4>2. HeaderAt(b, (x + i) - 1) <=> (B + i) % 20 = 0
        BY <4>1, PieceHeader, Zenon
      <4> QED
        BY <4>2, Zenon DEF B, x
  <2>2. /\ i + 1 \in 1..L /\ i + 2 \in 1..L /\ i + 3 \in 1..L /\ i + 4 \in 1..L
        /\ (1 + i) - 1 = i
    BY <1>5, <1>8
  <2>3. /\ c[i + 1] = b[i + 1] /\ c[i + 2] = b[i + 2]
        /\ c[i + 3] = b[i + 3] /\ c[i + 4] = b[i + 4]
    BY <2>2 DEF L
  <2> QED
    <3>1. HeaderAt(b, i) <=> (o[1] + i) % 20 = 0
      BY <2>1, <2>2
    <3> QED
      BY <2>3, <3>1 DEF HeaderAt
<1>9. PICK d \in 0..19 : (o[1] + d) % 20 = 0 /\ \A i \in Nat : (o[1] + i) % 20 = 0 => d <= i
  BY <1>7, NextMultiple
<1>10. h \in 0..19 /\ (o[1] + h) % 20 = 0
  <2>1. (o[1] + h) % 20 = 0
    BY <1>5, <1>8
  <2>2. d <= h
    BY <1>5, <1>9, <2>1
  <2>3. d \in HeaderIndices(c)
    <3>1. d \in Nat /\ d + 5 <= L /\ d \in 0 .. L - 5
      BY <1>5, <2>2
    <3> QED
      BY <1>2, <1>8, <1>9, <3>1
  <2>4. h <= d
    BY <1>4, <2>3
  <2> QED
    BY <1>5, <2>1, <2>4
<1> HIDE <1>0
<1>11. h % POSITION_RANGE = h
  <2>1. \A x \in 0..19 : x % 256 = x
    OBVIOUS
  <2> QED
    BY <1>10, <2>1, Zenon DEF POSITION_RANGE
<1> DEFINE B == o[1]
           f == (B + h) \div 20
<1>size. B \in Nat /\ B + (L - 1) < 20 * Len(sent) /\ h \in 0..19 /\ (B + h) % 20 = 0
  BY <1>7, <1>10
<1>room. h + 20 <= L
  BY <1>1, <1>11
<1> HIDE DEF B
<1>12. 20 * f = B + h /\ f \in 0 .. Len(sent) - 1 /\ f \in Nat
  <2>1. Len(sent) \in Nat
    OBVIOUS
  <2>2. \A x \in Nat : x % 20 = 0 => x \div 20 \in Nat /\ 20 * (x \div 20) = x
    OBVIOUS
  <2>3. B + h \in Nat
    BY <1>size
  <2>4. f \in Nat /\ 20 * f = B + h
    BY <1>size, <2>2, <2>3
  <2> HIDE DEF f
  <2> QED
    BY <1>5, <1>size, <1>room, <2>1, <2>4
<1> HIDE DEF f
<1>13. ASSUME NEW k \in 1..20 PROVE c[h + k] = Encode(sent[f + 1])[k]
  <2>1. h + k \in 1..L /\ B + ((h + k) - 1) = 20 * f + k - 1
    BY <1>5, <1>size, <1>room, <1>12
  <2>2. b[h + k] = Wire(sent, 20 * f + k - 1)
    BY <1>7, <2>1 DEF B
  <2>3. c[h + k] = b[h + k]
    BY <1>0, <2>1 DEF L
  <2> QED
    BY <1>12, <2>2, <2>3, WireFrame
<1>14. sent[f + 1] \in ParsedPacket /\ f + 1 \in 1..Len(sent)
  <2>1. f + 1 \in 1..Len(sent)
    BY <1>12
  <2> QED
    BY <2>1, SentIsParsed
<1>15. PacketAt(c, h, little_endian) = sent[f + 1]
  BY <1>0, <1>5, <1>13, <1>14, FieldsRoundTrip DEF PACKET_SIZE, little_endian
<1>16. sent[f + 1] \in ToSet(sent)
  BY <1>14 DEF ToSet
<1> QED
  BY <1>1, <1>11, <1>15, <1>16

(* Bytes without a trace are all of the stream or all of the inside of one *)
(* run of noise; no packet is parsed from the latter.                      *)
Untraced(m, L) == \A i \in 1..L : m[i] <= 0

LEMMA AllAlike ==
  ASSUME NEW N \in Nat, NEW m, Apart(N, m), NEW L \in 1..N, Untraced(m, L)
  PROVE  \A i \in 1..L : m[i] = m[1]
<1> DEFINE S == {i \in 1..L : m[i] # m[1]}
           h == Min(S)
<1>1. SUFFICES ASSUME S # {} PROVE FALSE
  OBVIOUS
<1>2. S \in SUBSET Nat
  OBVIOUS
<1>3. h \in S /\ \A j \in S : h <= j
  <2> HIDE DEF S
  <2> QED
    BY <1>1, <1>2, MinOfNats
<1> HIDE DEF h
<1>4. h \in 1..L /\ m[h] # m[1]
  BY <1>3
<1>5. h - 1 \in 1..L /\ h - 1 \in 1..N /\ (h - 1) + 1 = h
  BY <1>4
<1>6. m[h - 1] = m[1]
  <2>1. h - 1 \notin S
    <3>1. ~ (h <= h - 1)
      BY <1>4
    <3> QED
      BY <1>3, <3>1
  <2> QED
    BY <1>5, <2>1
<1>7. m[h - 1] <= 0 /\ m[(h - 1) + 1] <= 0
  BY <1>4, <1>5 DEF Untraced
<1>8. m[h - 1] = m[(h - 1) + 1]
  BY <1>5, <1>7, Zenon DEF Apart
<1> QED
  BY <1>4, <1>5, <1>6, <1>8

LEMMA UntracedParse ==
  ASSUME NEW b \in Seq(Byte), NEW F \in Nat, NEW o, NEW m, Explained(b, sent, F, o, m),
         sent \in Seq(Packets),
         NEW c, Beginning(b, c), Untraced(m, Len(c)),
         NEW position \in 0 .. POSITION_RANGE - 1,
         ParsePacket(c, position, little_endian).second
  PROVE  ParsePacket(c, position, little_endian).first \in ToSet(sent)
<1> DEFINE h == Min(HeaderIndices(c))
<1>0. /\ c \in Seq(Byte) /\ Len(c) <= Len(b) /\ \A i \in 1..Len(c) : c[i] = b[i]
      /\ Len(b) \in Nat /\ Len(c) \in Nat
  BY DEF Beginning
<1>1. HeaderIndices(c) # {} /\ (h % POSITION_RANGE) + 20 <= Len(c) /\ h % POSITION_RANGE \in Nat
  BY <1>0, ParseOutcome
<1>2. h \in 0 .. Len(c) - 5 /\ HeaderAt(c, h)
  <2>1. HeaderIndices(c) = {i \in 0 .. Len(c) - 5 : HeaderAt(c, i)}
    BY <1>0 DEF HeaderIndices, HEADER_SIZE
  <2>2. HeaderIndices(c) \in SUBSET Nat
    BY <2>1
  <2>3. h \in HeaderIndices(c)
    BY <1>1, <2>2, MinOfNats
  <2> HIDE DEF h
  <2> QED
    BY <2>1, <2>3
<1> HIDE DEF h
<1>3. /\ Apart(Len(b), m) /\ Headerless(b, m)
      /\ \A i \in 1 .. Len(b) + 1 : m[i] \in Inner..F
  BY DEF Explained, Tagged
<1>4. \A i \in 1..Len(c) : m[i] = m[1]
  <2>1. Len(c) \in 1..Len(b)
    BY <1>0, <1>1
  <2> QED
    BY <1>0, <1>3, <2>1, AllAlike
<1>5. m[1] = 0 \/ m[1] = -1
  <2>1. 1 \in 1..Len(c) /\ 1 \in 1 .. Len(b) + 1
    BY <1>0, <1>1
  <2>2. m[1] <= 0 /\ m[1] \in Inner..F
    BY <1>3, <2>1 DEF Untraced
  <2> QED
    BY <2>2, InnerLabel
<1>6. CASE m[1] = 0
  <2>1. Untouched(m, 1, Len(c))
    BY <1>4, <1>6 DEF Untouched
  <2> QED
    BY <2>1, CleanParse, Zenon
<1>7. CASE m[1] = -1
  <2>1. h \in 0 .. Len(b) - 4
    BY <1>0, <1>2
  <2>2. ASSUME NEW k \in 1..4 PROVE m[h + k] = -1 /\ c[h + k] = b[h + k]
    <3>1. h + k \in 1..Len(c)
      BY <1>0, <1>2
    <3> QED
      BY <1>0, <1>4, <1>7, <3>1
  <2>3. Inside(m, h)
    BY <2>2 DEF Inside
  <2>4. ~ HeaderAt(b, h)
    BY <1>3, <2>1, <2>3, Zenon DEF Headerless
  <2>5. HeaderAt(b, h)
    BY <1>2, <2>2 DEF HeaderAt
  <2> QED
    BY <2>4, <2>5
<1> QED
  BY <1>5, <1>6, <1>7
-----------------------------------------------------------------------------
(* Types.                                                                  *)
NoisyTypeOK == TypeOK /\ faults \in 0..MaxFaults

LEMMA SentTyped ==
  ASSUME NEW p \in Packets
  PROVE  /\ p \in ParsedPacket
         /\ Encode(p) \in Seq(Byte) /\ Len(Encode(p)) = 20
  BY ParserAssumption, EncodeFrame DEF PACKET_SIZE

LEMMA Associative ==
  ASSUME NEW a \in Seq(Byte), NEW b \in Seq(Byte), NEW c \in Seq(Byte)
  PROVE  a \o (b \o c) = (a \o b) \o c
  OBVIOUS

LEMMA Rejoined ==
  ASSUME NEW l \in Seq(Byte), NEW k \in 0..Len(l)
  PROVE  SubSeq(l, 1, k) \o SubSeq(l, k + 1, Len(l)) = l
<1> DEFINE a == SubSeq(l, 1, k)
           b == SubSeq(l, k + 1, Len(l))
<1>1. /\ a \in Seq(Byte) /\ Len(a) = k /\ b \in Seq(Byte) /\ Len(b) = Len(l) - k
      /\ \A i \in 1..k : a[i] = l[i]
      /\ \A i \in 1 .. Len(l) - k : b[i] = l[k + i]
  BY Pieces, Zenon
<1> HIDE DEF a, b
<1>2. /\ a \o b \in Seq(Byte) /\ Len(a \o b) = Len(a) + Len(b)
      /\ \A i \in 1..Len(a) : (a \o b)[i] = a[i]
      /\ \A i \in 1..Len(b) : (a \o b)[Len(a) + i] = b[i]
  BY <1>1, Joined, Zenon
<1>3. Len(a \o b) = Len(l)
  BY <1>1, <1>2
<1>4. ASSUME NEW i \in 1..Len(l) PROVE (a \o b)[i] = l[i]
  <2>1. CASE i <= k
    <3>1. i \in 1..k
      BY <2>1
    <3> QED
      BY <1>1, <1>2, <3>1, Zenon
  <2>2. CASE i > k
    <3> DEFINE j == i - k
    <3>1. j \in 1 .. Len(l) - k /\ k + j = i
      BY <2>2
    <3> HIDE DEF j
    <3>2. (a \o b)[k + j] = b[j] /\ b[j] = l[k + j]
      BY <1>1, <1>2, <3>1, Zenon
    <3> QED
      BY <3>1, <3>2, Zenon
  <2>3. i <= k \/ i > k
    OBVIOUS
  <2> QED
    BY <2>1, <2>2, <2>3, Zenon
<1>5. a \o b = l
  BY <1>2, <1>3, <1>4, SeqEqual, Zenon
<1> QED
  BY <1>5 DEF a, b

(* The faults start at none and the types are those of a clean line.       *)
LEMMA NoisyTypesInit == NoisyInit => NoisyTypeOK
<1>1. Init => IInv
  BY InitInvariant
<1>2. 0 \in 0..MaxFaults
  BY NoiseAssumption
<1> QED
  BY <1>1, <1>2 DEF NoisyInit, NoisyTypeOK, IInv
(* What is left, piece by piece, when n bytes of l are lost behind the     *)
(* first k.                                                                *)
LEMMA LoseAt ==
  ASSUME NEW a \in Seq(Byte), NEW l \in Seq(Byte), NEW k \in 0..Len(l), NEW n \in 0 .. Len(l) - k
  PROVE  LET l2 == SubSeq(l, 1, k) \o SubSeq(l, k + n + 1, Len(l))
             b == a \o l
             c == a \o l2
         IN  /\ l2 \in Seq(Byte) /\ c \in Seq(Byte)
             /\ Len(a) + k \in Nat /\ (Len(a) + k) + n <= Len(b)
             /\ Len(c) = Len(b) - n
             /\ \A i \in 1 .. Len(a) + k : c[i] = b[i]
             /\ \A i \in (Len(a) + k) + 1 .. Len(b) - n : c[i] = b[n + i]
<1> DEFINE l2 == SubSeq(l, 1, k) \o SubSeq(l, k + n + 1, Len(l))
           b == a \o l
           c == a \o l2
<1>0. l2 = SubSeq(l, 1, k) \o SubSeq(l, k + n + 1, Len(l)) /\ b = a \o l /\ c = a \o l2
  OBVIOUS
<1> HIDE DEF l2, b, c
<1> USE <1>0
<1> DEFINE s1 == SubSeq(l, 1, k)
           s2 == SubSeq(l, k + n + 1, Len(l))
           d == a \o s1
           A == Len(a) + k
<1>1. /\ Len(l) \in Nat /\ Len(a) \in Nat /\ k \in 0..Len(l) /\ k + n \in 0..Len(l)
      /\ b \in Seq(Byte) /\ Len(b) = Len(a) + Len(l)
  BY Joined
<1>2. /\ s1 \in Seq(Byte) /\ s2 \in Seq(Byte) /\ l2 = s1 \o s2 /\ l2 \in Seq(Byte)
  <2>1. s1 \in Seq(Byte)
    BY <1>1, Pieces
  <2>2. s2 \in Seq(Byte)
    BY <1>1, Pieces
  <2> QED
    BY <2>1, <2>2, Joined
<1>3. c = d \o s2
  <2>1. a \o (s1 \o s2) = (a \o s1) \o s2
    BY <1>2, Associative
  <2> HIDE DEF s1, s2
  <2> QED
    BY <1>2, <2>1
<1>4. d \in Seq(Byte) /\ Len(d) = A /\ \A i \in 1..A : d[i] = b[i]
  BY Cut, Zenon
<1>5. /\ Len(s2) = Len(l) - (k + n)
      /\ \A i \in 1 .. Len(l) - (k + n) : s2[i] = b[(Len(a) + (k + n)) + i]
  <2>1. ASSUME NEW x \in 0..Len(l)
        PROVE  /\ Len(SubSeq(l, x + 1, Len(l))) = Len(l) - x
               /\ \A i \in 1 .. Len(l) - x : SubSeq(l, x + 1, Len(l))[i] = b[(Len(a) + x) + i]
    BY Cut, Zenon
  <2> QED
    BY <1>1, <2>1
<1> HIDE DEF s1, s2, d
<1>6. /\ c \in Seq(Byte) /\ Len(c) = A + Len(s2)
      /\ \A i \in 1..A : c[i] = d[i]
      /\ \A i \in 1..Len(s2) : c[A + i] = s2[i]
  <2> HIDE DEF A
  <2>1. /\ d \o s2 \in Seq(Byte) /\ Len(d \o s2) = Len(d) + Len(s2)
        /\ \A i \in 1..Len(d) : (d \o s2)[i] = d[i]
        /\ \A i \in 1..Len(s2) : (d \o s2)[Len(d) + i] = s2[i]
    BY <1>2, <1>4, Joined
  <2> QED
    BY <1>3, <1>4, <2>1, Zenon
<1>7. A \in Nat /\ A + n <= Len(b) /\ Len(c) = Len(b) - n
  <2>1. Len(c) = A + (Len(l) - (k + n))
    BY <1>5, <1>6, Zenon
  <2>2. Len(a) \in Nat /\ Len(l) \in Nat /\ Len(b) = Len(a) + Len(l)
    BY <1>1
  <2>3. \A x, y \in Nat : k + n <= y =>
          /\ x + k \in Nat /\ (x + k) + n <= x + y
          /\ (x + k) + (y - (k + n)) = (x + y) - n
    OBVIOUS
  <2>4. /\ A \in Nat /\ A + n <= Len(a) + Len(l)
        /\ A + (Len(l) - (k + n)) = (Len(a) + Len(l)) - n
    BY <2>2, <2>3
  <2> HIDE DEF A
  <2> QED
    BY <2>1, <2>2, <2>4, Zenon
<1>8. \A i \in 1..A : c[i] = b[i]
  BY <1>4, <1>6, Zenon
<1>9. ASSUME NEW i \in A + 1 .. Len(b) - n PROVE c[i] = b[n + i]
  <2> DEFINE j == i - A
  <2>1. /\ j \in 1 .. Len(l) - (k + n) /\ A + j = i
        /\ (Len(a) + (k + n)) + j = n + i
    BY <1>1
  <2> HIDE DEF j, A
  <2>2. c[A + j] = s2[j]
    BY <1>5, <1>6, <2>1
  <2>3. s2[j] = b[n + i]
    BY <1>5, <2>1
  <2> QED
    BY <2>1, <2>2, <2>3
<1> QED
  BY <1>2, <1>6, <1>7, <1>8, <1>9 DEF l2, b, c

(* ... and when a run of bytes gets in there.                              *)
LEMMA RunAt ==
  ASSUME NEW a \in Seq(Byte), NEW l \in Seq(Byte), NEW k \in 0..Len(l), NEW run \in Seq(Byte)
  PROVE  LET l2 == SubSeq(l, 1, k) \o run \o SubSeq(l, k + 1, Len(l))
             b == a \o l
             c == a \o l2
         IN  l2 \in Seq(Byte) /\ RunInserted(b, c, Len(a) + k, run)
<1> DEFINE l2 == SubSeq(l, 1, k) \o run \o SubSeq(l, k + 1, Len(l))
           b == a \o l
           c == a \o l2
<1>0. l2 = SubSeq(l, 1, k) \o run \o SubSeq(l, k + 1, Len(l)) /\ b = a \o l /\ c = a \o l2
  OBVIOUS
<1> HIDE DEF l2, b, c
<1> USE <1>0
<1> DEFINE s1 == SubSeq(l, 1, k)
           s2 == SubSeq(l, k + 1, Len(l))
           d == a \o s1
           e == d \o run
           A == Len(a) + k
           R == Len(run)
<1>1. /\ Len(l) \in Nat /\ Len(a) \in Nat /\ R \in Nat
      /\ b \in Seq(Byte) /\ Len(b) = Len(a) + Len(l)
  BY Joined
<1>2. /\ s1 \in Seq(Byte) /\ s2 \in Seq(Byte) /\ s1 \o run \in Seq(Byte)
      /\ l2 = (s1 \o run) \o s2 /\ l2 \in Seq(Byte)
  <2>1. s1 \in Seq(Byte) /\ s2 \in Seq(Byte)
    BY Pieces
  <2>2. s1 \o run \in Seq(Byte)
    BY <2>1, Joined
  <2> QED
    BY <2>1, <2>2, Joined
<1>3. c = e \o s2
  <2> HIDE DEF s1, s2
  <2>1. a \o ((s1 \o run) \o s2) = (a \o (s1 \o run)) \o s2
    BY <1>2, Associative, ZenonT(60)
  <2>2. a \o (s1 \o run) = (a \o s1) \o run
    BY <1>2, Associative, ZenonT(60)
  <2> QED
    BY <1>2, <2>1, <2>2
<1>4. d \in Seq(Byte) /\ Len(d) = A /\ \A i \in 1..A : d[i] = b[i]
  BY Cut, ZenonT(60)
<1>5. /\ Len(s2) = Len(l) - k
      /\ \A i \in 1 .. Len(l) - k : s2[i] = b[A + i]
  BY Cut, Zenon
<1> HIDE DEF s1, s2, d
<1>6. /\ e \in Seq(Byte) /\ Len(e) = A + R /\ \A i \in 1..A : e[i] = d[i]
      /\ \A i \in 1..R : e[A + i] = run[i]
  <2>1. /\ d \o run \in Seq(Byte) /\ Len(d \o run) = Len(d) + Len(run)
        /\ \A i \in 1..Len(d) : (d \o run)[i] = d[i]
        /\ \A i \in 1..Len(run) : (d \o run)[Len(d) + i] = run[i]
    BY <1>4, Joined
  <2> QED
    BY <1>4, <2>1
<1> HIDE DEF e
<1>7. /\ c \in Seq(Byte) /\ Len(c) = (A + R) + Len(s2)
      /\ \A i \in 1 .. A + R : c[i] = e[i]
      /\ \A i \in 1..Len(s2) : c[(A + R) + i] = s2[i]
  <2>1. /\ e \o s2 \in Seq(Byte) /\ Len(e \o s2) = Len(e) + Len(s2)
        /\ \A i \in 1..Len(e) : (e \o s2)[i] = e[i]
        /\ \A i \in 1..Len(s2) : (e \o s2)[Len(e) + i] = s2[i]
    BY <1>2, <1>6, Joined
  <2> HIDE DEF A, R
  <2> QED
    BY <1>3, <1>6, <2>1
<1>8. A \in 0..Len(b) /\ Len(c) = Len(b) + R
  <2>1. k \in Nat /\ k <= Len(l) /\ A \in Nat
    BY <1>1
  <2>2. Len(c) = (A + R) + (Len(l) - k)
    BY <1>5, <1>7
  <2>3. A = Len(a) + k
    OBVIOUS
  <2>4. A <= Len(b) /\ (A + R) + (Len(l) - k) = Len(b) + R
    <3>1. \A x, y, z, r \in Nat : x <= y => z + x <= z + y /\ (z + x + r) + (y - x) = (z + y) + r
      OBVIOUS
    <3> HIDE DEF R
    <3> QED
      BY <1>1, <2>1
  <2> HIDE DEF A, R
  <2>5. Len(b) \in Nat
    BY <1>1
  <2>6. A \in 0..Len(b)
    <3>1. \A x, y \in Nat : x <= y => x \in 0..y
      OBVIOUS
    <3> QED
      BY <2>1, <2>4, <2>5, <3>1, Zenon
  <2> QED
    BY <2>2, <2>4, <2>6, Zenon
<1>9. ASSUME NEW i \in 1..A PROVE c[i] = b[i]
  <2>1. i \in 1 .. A + R
    BY <1>1
  <2> QED
    BY <1>4, <1>6, <1>7, <2>1, Zenon
<1>run. ASSUME NEW i \in 1..R PROVE c[A + i] = run[i]
  <2>1. A + i \in 1 .. A + R
    BY <1>1
  <2> HIDE DEF A, R
  <2> QED
    BY <1>6, <1>7, <2>1
<1>10. ASSUME NEW i \in A + R + 1 .. Len(b) + R PROVE c[i] = b[i - R]
  <2> DEFINE j == i - (A + R)
  <2>1. j \in 1 .. Len(l) - k /\ (A + R) + j = i /\ A + j = i - R
    BY <1>1
  <2> HIDE DEF j, A, R
  <2>2. c[(A + R) + j] = s2[j]
    BY <1>5, <1>7, <2>1
  <2>3. s2[j] = b[A + j]
    BY <1>5, <2>1
  <2> QED
    BY <2>1, <2>2, <2>3
<1> QED
  BY <1>2, <1>7, <1>8, <1>9, <1>run, <1>10, Zenon DEF l2, b, c, RunInserted
(* The faults, as changes of what waits.                                   *)
LEMMA LoseEffect ==
  ASSUME NoisyTypeOK, LoseBytes
  PROVE  /\ line' \in Seq(Byte) /\ Pending' \in Seq(Byte)
         /\ \E a \in Nat, n \in Nat \ {0} :
              /\ a + n <= Len(Pending)
              /\ Len(Pending') = Len(Pending) - n
              /\ \A i \in 1..a : Pending'[i] = Pending[i]
              /\ \A i \in a + 1 .. Len(Pending) - n : Pending'[i] = Pending[n + i]
<1>1. PICK k \in Places, n \in LossSizes :
        /\ k + n <= Len(line)
        /\ line' = SubSeq(line, 1, k) \o SubSeq(line, k + n + 1, Len(line))
  BY DEF LoseBytes
<1>2. k \in Nat /\ n \in Nat \ {0} /\ n \in Nat
  BY NoiseAssumption
<1>3. inputBuffer' = inputBuffer
  BY DEF LoseBytes, parserVars
<1>4. inputBuffer \in Seq(Byte) /\ line \in Seq(Byte)
  BY DEF NoisyTypeOK, TypeOK
<1> DEFINE a == Len(inputBuffer) + k
<1>5. /\ line' \in Seq(Byte) /\ Pending' \in Seq(Byte)
      /\ a \in Nat /\ a + n <= Len(Pending)
      /\ Len(Pending') = Len(Pending) - n
      /\ \A i \in 1..a : Pending'[i] = Pending[i]
      /\ \A i \in a + 1 .. Len(Pending) - n : Pending'[i] = Pending[n + i]
  <2>1. Pending = inputBuffer \o line /\ Pending' = inputBuffer \o line'
    BY <1>3 DEF Pending
  <2> DEFINE l2 == SubSeq(line, 1, k) \o SubSeq(line, k + n + 1, Len(line))
             b == inputBuffer \o line
             c == inputBuffer \o l2
  <2>2. /\ l2 \in Seq(Byte) /\ c \in Seq(Byte)
        /\ a \in Nat /\ a + n <= Len(b)
        /\ Len(c) = Len(b) - n
        /\ \A i \in 1..a : c[i] = b[i]
        /\ \A i \in a + 1 .. Len(b) - n : c[i] = b[n + i]
    <3>1. k \in 0..Len(line) /\ n \in 0 .. Len(line) - k
      BY <1>1, <1>2, <1>4
    <3> QED
      BY <1>4, <3>1, LoseAt, Zenon
  <2>3. line' = l2 /\ Pending' = c /\ Pending = b
    BY <1>1, <2>1
  <2> HIDE DEF l2, b, c, a
  <2> QED
    BY <2>2, <2>3, Zenon
<1> QED
  BY <1>2, <1>5, Zenon

LEMMA NoiseEffect ==
  ASSUME NoisyTypeOK, PickUpNoise
  PROVE  /\ line' \in Seq(Byte)
         /\ \E a \in Nat, run \in NoiseRuns : RunInserted(Pending, Pending', a, run)
<1>1. PICK k \in Places, run \in NoiseRuns :
        /\ k <= Len(line)
        /\ line' = Insert(k, run)
  BY DEF PickUpNoise
<1>2. run \in Seq(Byte)
  BY NoiseAssumption
<1>3. inputBuffer' = inputBuffer
  BY DEF PickUpNoise, parserVars
<1>4. inputBuffer \in Seq(Byte) /\ line \in Seq(Byte) /\ k \in 0..Len(line)
  <2>1. inputBuffer \in Seq(Byte) /\ line \in Seq(Byte)
    BY DEF NoisyTypeOK, TypeOK
  <2>2. k \in Nat
    BY NoiseAssumption
  <2> QED
    BY <1>1, <2>1, <2>2
<1> DEFINE l2 == SubSeq(line, 1, k) \o run \o SubSeq(line, k + 1, Len(line))
           a == Len(inputBuffer) + k
<1>5. line' = l2 /\ Pending = inputBuffer \o line /\ Pending' = inputBuffer \o l2
  BY <1>1, <1>3 DEF Insert, Pending
<1>6. l2 \in Seq(Byte) /\ RunInserted(inputBuffer \o line, inputBuffer \o l2, a, run)
  BY <1>2, <1>4, RunAt, ZenonT(60)
<1>7. a \in Nat
  BY <1>4
<1> HIDE DEF l2, a
<1> QED
  BY <1>5, <1>6, <1>7, Zenon

(* A frame, or the beginning of one, is put behind what waits.             *)
LEMMA SendEffect ==
  ASSUME NoisyTypeOK, NEW p \in Packets, NEW r \in 1..20,
         inputBuffer' = inputBuffer, line' = line \o SubSeq(Encode(p), 1, r)
  PROVE  /\ line' \in Seq(Byte) /\ Pending' \in Seq(Byte)
         /\ Len(Pending') = Len(Pending) + r
         /\ \A i \in 1..Len(Pending) : Pending'[i] = Pending[i]
         /\ \A i \in 1..r : Pending'[Len(Pending) + i] = Encode(p)[i]
<1> DEFINE e == SubSeq(Encode(p), 1, r)
<1>1. e \in Seq(Byte) /\ Len(e) = r /\ \A i \in 1..r : e[i] = Encode(p)[i]
  <2>1. Encode(p) \in Seq(Byte) /\ r \in 0..Len(Encode(p))
    <3>1. Encode(p) \in Seq(Byte) /\ Len(Encode(p)) = 20
      BY SentTyped, Zenon
    <3>2. r \in 0..20
      OBVIOUS
    <3> QED
      BY <3>1, <3>2, Zenon
  <2> QED
    BY <2>1, Pieces, Zenon
<1>2. inputBuffer \in Seq(Byte) /\ line \in Seq(Byte)
  BY DEF NoisyTypeOK, TypeOK
<1> HIDE DEF e
<1>3. line' \in Seq(Byte)
  BY <1>1, <1>2, Joined DEF e
<1>4. Pending = inputBuffer \o line /\ Pending' = inputBuffer \o (line \o e)
  BY DEF Pending, e
<1>5. Pending' \in Seq(Byte)
  BY <1>2, <1>3, Joined DEF Pending
<1>6. /\ Len(Pending') = Len(Pending) + Len(e)
      /\ \A i \in 1..Len(Pending) : Pending'[i] = Pending[i]
      /\ \A i \in 1..Len(e) : Pending'[Len(Pending) + i] = e[i]
  BY <1>1, <1>2, <1>4, Extend, ZenonT(60)
<1> QED
  BY <1>1, <1>3, <1>5, <1>6, Zenon
-----------------------------------------------------------------------------
(* Every wrong packet is charged to a trace that has left, D being those   *)
(* that have been charged.                                                 *)
Charged(b, W, F, m, D) ==
  /\ D \subseteq 1..F
  /\ \A i \in 1 .. Len(b) + 1 : m[i] \notin D
  /\ Cardinality(W) <= Cardinality(D)

LEMMA FaultsFinite ==
  ASSUME NEW F \in Nat, NEW D \in SUBSET (1..F)
  PROVE  IsFiniteSet(D) /\ Cardinality(D) \in Nat /\ Cardinality(D) <= F
<1>1. IsFiniteSet(1..F) /\ Cardinality(1..F) = F
  BY FS_Interval
<1>2. IsFiniteSet(D) /\ Cardinality(D) <= Cardinality(1..F)
  BY <1>1, FS_Subset
<1>3. Cardinality(D) \in Nat
  BY <1>2, FS_CardinalityType
<1> QED
  BY <1>1, <1>2, <1>3

(* No packet is parsed.                                                    *)
LEMMA ChargeKept ==
  ASSUME NEW b \in Seq(Byte), NEW c \in Seq(Byte), NEW F \in Nat, NEW G \in Nat, F <= G,
         NEW W, IsFiniteSet(W), NEW W2 \in SUBSET W, NEW m, NEW D, Charged(b, W, F, m, D),
         NEW m2, NewTraceOnly(b, c, F, m, m2)
  PROVE  Charged(c, W2, G, m2, D)
<1>1. /\ D \subseteq 1..F /\ \A i \in 1 .. Len(b) + 1 : m[i] \notin D
      /\ Cardinality(W) <= Cardinality(D)
  BY DEF Charged
<1>2. D \subseteq 1..G
  BY <1>1
<1>4. \A i \in 1 .. Len(c) + 1 : m2[i] \notin D
  BY <1>1, Zenon DEF NewTraceOnly
<1>5. Cardinality(W2) <= Cardinality(D)
  <2>1. Cardinality(W2) <= Cardinality(W) /\ IsFiniteSet(W2)
    BY FS_Subset
  <2>2. Cardinality(W2) \in Nat /\ Cardinality(W) \in Nat
    BY <2>1, FS_CardinalityType
  <2>3. Cardinality(D) \in Nat
    BY <1>1, FaultsFinite
  <2> QED
    BY <1>1, <2>1, <2>2, <2>3
<1> QED
  BY <1>2, <1>4, <1>5, Zenon DEF Charged

(* A packet is parsed from the first L bytes, and a trace goes with them.  *)
LEMMA ChargeAdded ==
  ASSUME NEW b \in Seq(Byte), NEW s, NEW F \in Nat, NEW o, NEW m, Explained(b, s, F, o, m),
         NEW W, IsFiniteSet(W), NEW D, Charged(b, W, F, m, D),
         NEW L \in 0..Len(b), NEW i \in 1..L, m[i] > 0,
         NEW c \in Seq(Byte), Len(c) = Len(b) - L,
         NEW m2, \A j \in 1 .. Len(c) + 1 : m2[j] = m[L + j],
         NEW x, NEW W2 \in SUBSET (W \cup {x})
  PROVE  Charged(c, W2, F, m2, D \cup {m[i]})
<1>1. /\ D \subseteq 1..F /\ \A j \in 1 .. Len(b) + 1 : m[j] \notin D
      /\ Cardinality(W) <= Cardinality(D)
  BY DEF Charged
<1>2. Once(Len(b), m) /\ m \in [1 .. Len(b) + 1 -> Inner..F]
  BY DEF Explained, Tagged
<1>3. i \in 1 .. Len(b) + 1
  OBVIOUS
<1>4. m[i] \in 1..F /\ m[i] \notin D
  <2>1. m[i] \in Inner..F
    BY <1>2, <1>3
  <2> QED
    BY <1>1, <1>3, <2>1, InnerLabel
<1>5. D \cup {m[i]} \subseteq 1..F
  BY <1>1, <1>4
<1>6. ASSUME NEW j \in 1 .. Len(c) + 1 PROVE m2[j] \notin D \cup {m[i]}
  <2>1. L + j \in 1 .. Len(b) + 1 /\ L + j # i
    OBVIOUS
  <2>2. m[L + j] # m[i]
    BY <1>2, <1>3, <2>1, Zenon DEF Once
  <2>3. m[L + j] \notin D
    BY <1>1, <2>1
  <2> QED
    BY <2>2, <2>3
<1>7. Cardinality(D \cup {m[i]}) = Cardinality(D) + 1 /\ Cardinality(D) \in Nat
  <2>1. IsFiniteSet(D) /\ Cardinality(D) \in Nat
    BY <1>1, FaultsFinite
  <2> QED
    BY <1>4, <2>1, FS_AddElement
<1>8. Cardinality(W2) <= Cardinality(D \cup {m[i]})
  <2>1. IsFiniteSet(W \cup {x}) /\ Cardinality(W \cup {x}) <= Cardinality(W) + 1
    <3>1. Cardinality(W) \in Nat
      BY FS_CardinalityType
    <3>2. /\ IsFiniteSet(W \cup {x})
          /\ Cardinality(W \cup {x}) = IF x \in W THEN Cardinality(W) ELSE Cardinality(W) + 1
      BY FS_AddElement
    <3> QED
      BY <3>1, <3>2
  <2>2. IsFiniteSet(W2) /\ Cardinality(W2) <= Cardinality(W \cup {x})
    BY <2>1, FS_Subset
  <2>3. /\ Cardinality(W2) \in Nat /\ Cardinality(W \cup {x}) \in Nat /\ Cardinality(W) \in Nat
    BY <2>1, <2>2, FS_CardinalityType
  <2> QED
    BY <1>1, <1>7, <2>1, <2>2, <2>3
<1> QED
  BY <1>5, <1>6, <1>8, Zenon DEF Charged
-----------------------------------------------------------------------------
(* The steps of the line and of the program, with faults or without.       *)

LEMMA AnySend ==
  ASSUME NoisyTypeOK, Transmit \/ ShortWrite
  PROVE  /\ \E p \in Packets, r \in 1..20 :
              /\ sent' = Append(sent, p)
              /\ r = 20 \/ ShortWrite
              /\ line' \in Seq(Byte) /\ Pending' \in Seq(Byte)
              /\ Len(Pending') = Len(Pending) + r
              /\ \A i \in 1..Len(Pending) : Pending'[i] = Pending[i]
              /\ \A i \in 1..r : Pending'[Len(Pending) + i] = Encode(p)[i]
         /\ UNCHANGED <<lineOpen, parserVars>>
<1>1. UNCHANGED <<lineOpen, parserVars>> /\ inputBuffer' = inputBuffer
  BY DEF Transmit, ShortWrite, parserVars
<1>2. ASSUME NEW p \in Packets, NEW r \in 1..20, sent' = Append(sent, p), r = 20 \/ ShortWrite,
             line' = line \o SubSeq(Encode(p), 1, r)
      PROVE  \E q \in Packets, t \in 1..20 :
               /\ sent' = Append(sent, q)
               /\ t = 20 \/ ShortWrite
               /\ line' \in Seq(Byte) /\ Pending' \in Seq(Byte)
               /\ Len(Pending') = Len(Pending) + t
               /\ \A i \in 1..Len(Pending) : Pending'[i] = Pending[i]
               /\ \A i \in 1..t : Pending'[Len(Pending) + i] = Encode(q)[i]
  <2>1. /\ line' \in Seq(Byte) /\ Pending' \in Seq(Byte)
        /\ Len(Pending') = Len(Pending) + r
        /\ \A i \in 1..Len(Pending) : Pending'[i] = Pending[i]
        /\ \A i \in 1..r : Pending'[Len(Pending) + i] = Encode(p)[i]
    BY <1>1, <1>2, SendEffect, Zenon
  <2> QED
    BY <1>2, <2>1, Zenon
<1>3. CASE Transmit
  <2>1. PICK p \in Packets : sent' = Append(sent, p) /\ line' = line \o Encode(p)
    BY <1>3 DEF Transmit
  <2>2. SubSeq(Encode(p), 1, 20) = Encode(p)
    BY SentTyped
  <2>3. 20 \in 1..20
    OBVIOUS
  <2> QED
    BY <1>1, <1>2, <2>1, <2>2, <2>3, Zenon
<1>4. CASE ShortWrite
  <2>1. PICK p \in Packets :
          sent' = Append(sent, p) /\ line' = line \o SubSeq(Encode(p), 1, Room)
    BY <1>4 DEF ShortWrite
  <2>2. Room \in 1..20
    <3>1. Room \in 1..19
      BY <1>4 DEF ShortWrite, PACKET_SIZE
    <3> QED
      BY <3>1
  <2> QED
    BY <1>1, <1>2, <1>4, <2>1, <2>2, Zenon
<1> QED
  BY <1>3, <1>4

LEMMA AnyRead ==
  ASSUME NoisyTypeOK, NEW n \in ReadSizes, ReadBytes(n)
  PROVE  LET c == Received(n)
             result == ParsePacket(c, indexInBuffer, little_endian)
         IN  /\ c \in Seq(Byte) /\ Len(c) \in 0..Len(Pending)
             /\ \A i \in 1..Len(c) : c[i] = Pending[i]
             /\ line' \in Seq(Byte) /\ inputBuffer' \in Seq(Byte) /\ Pending' \in Seq(Byte)
             /\ indexInBuffer' \in 0 .. POSITION_RANGE - 1
             /\ packet' = result.first /\ packet' \in ParsedPacket
             /\ pc' = (IF result.second THEN "send" ELSE "read")
             /\ UNCHANGED <<sent, lineOpen, broadcast>>
             /\ result.second => /\ Len(Pending') = Len(Pending) - Len(c)
                                 /\ \A i \in 1 .. Len(Pending) - Len(c) :
                                      Pending'[i] = Pending[Len(c) + i]
             /\ ~ result.second => Pending' = Pending
<1> DEFINE c == Received(n)
           result == ParsePacket(c, indexInBuffer, little_endian)
           rest == SubSeq(line, n + 1, Len(line))
           L == Len(inputBuffer) + n
<1>1. /\ n <= Len(line) /\ line' = rest
      /\ inputBuffer' = result.buffer /\ indexInBuffer' = result.position
      /\ packet' = result.first /\ pc' = (IF result.second THEN "send" ELSE "read")
      /\ UNCHANGED <<sent, lineOpen, broadcast>>
  BY DEF ReadBytes
<1>2. /\ inputBuffer \in Seq(Byte) /\ line \in Seq(Byte)
      /\ indexInBuffer \in 0 .. POSITION_RANGE - 1
  BY DEF NoisyTypeOK, TypeOK
<1>3. n \in 0..Len(line) /\ Len(line) \in Nat /\ Len(inputBuffer) \in Nat
  BY <1>1, <1>2, ParserAssumption
<1>4. Len(Pending) = Len(inputBuffer) + Len(line) /\ Pending \in Seq(Byte)
  BY <1>2, Joined, Zenon DEF Pending
<1>5. /\ c \in Seq(Byte) /\ Len(c) = L /\ \A i \in 1..L : c[i] = Pending[i]
      /\ rest \in Seq(Byte) /\ Len(rest) = Len(line) - n
      /\ \A i \in 1 .. Len(line) - n : rest[i] = Pending[L + i]
  BY <1>2, <1>3, Cut, Zenon DEF Pending, Received
<1>6. L \in 0..Len(Pending) /\ Len(Pending) - L = Len(line) - n
  BY <1>3, <1>4
<1> HIDE DEF c
<1>7. /\ result.second \in BOOLEAN /\ result.position \in 0 .. POSITION_RANGE - 1
      /\ ~ result.second => result.buffer = c /\ result.first = ZeroPacket
      /\ result.second => /\ result.buffer = <<>>
                          /\ Min(HeaderIndices(c)) % POSITION_RANGE \in Nat
                          /\ (Min(HeaderIndices(c)) % POSITION_RANGE) + 20 <= Len(c)
                          /\ result.first
                               = PacketAt(c, Min(HeaderIndices(c)) % POSITION_RANGE, little_endian)
  BY <1>2, <1>5, ParseOutcome, Zenon
<1> HIDE DEF result
<1>8. CASE result.second
  <2>1. packet' \in ParsedPacket
    BY <1>1, <1>5, <1>7, <1>8, AnyBytesAPacket, Zenon
  <2>2. inputBuffer' = <<>> /\ inputBuffer' \in Seq(Byte) /\ Pending' = rest
    <3>1. inputBuffer' = <<>> /\ line' = rest
      BY <1>1, <1>7, <1>8, Zenon
    <3>2. <<>> \o rest = rest
      BY <1>5, ConcatEmptySeq, Zenon
    <3>3. <<>> \in Seq(Byte)
      OBVIOUS
    <3> HIDE DEF rest
    <3> QED
      BY <3>1, <3>2, <3>3, Zenon DEF Pending
  <2> HIDE DEF rest, L
  <2> QED
    BY <1>1, <1>5, <1>6, <1>7, <1>8, <2>1, <2>2, Zenon DEF c, result
<1>9. CASE ~ result.second
  <2>1. packet' \in ParsedPacket
    BY <1>1, <1>7, <1>9, ZeroIsParsed, Zenon
  <2>2. inputBuffer' = c /\ inputBuffer' \in Seq(Byte)
    BY <1>1, <1>5, <1>7, <1>9
  <2>3. Pending' = Pending
    <3> DEFINE piece == SubSeq(line, 1, n)
    <3>1. piece \in Seq(Byte) /\ rest \in Seq(Byte) /\ piece \o rest = line
      BY <1>2, <1>3, <1>5, Pieces, Rejoined, Zenon
    <3>2. Pending' = (inputBuffer \o piece) \o rest
      BY <1>1, <2>2 DEF Pending, c, Received
    <3> HIDE DEF piece, rest
    <3>3. inputBuffer \o (piece \o rest) = (inputBuffer \o piece) \o rest
      BY <1>2, <3>1, Associative, ZenonT(60)
    <3> QED
      BY <3>1, <3>2, <3>3, Zenon DEF Pending
  <2>4. Pending' \in Seq(Byte)
    BY <1>4, <2>3
  <2> HIDE DEF rest, L
  <2> QED
    BY <1>1, <1>5, <1>6, <1>7, <1>9, <2>1, <2>2, <2>3, <2>4, Zenon DEF c, result
<1> QED
  BY <1>7, <1>8, <1>9, Zenon DEF c, result
(* The steps that move no byte.                                            *)
Quiet == HangUp \/ ReadWouldBlock \/ ReadFails \/ EndBackoff \/ EndSleep \/ UNCHANGED vars

LEMMA QuietEffect ==
  ASSUME Quiet
  PROVE  /\ UNCHANGED <<sent, line, inputBuffer, packet, broadcast>>
         /\ lineOpen' \in {lineOpen, FALSE}
         /\ indexInBuffer' \in {indexInBuffer, 0}
         /\ pc' \in {pc, "read", "backoff"}
  BY DEF Quiet, HangUp, ReadWouldBlock, ReadFails, EndBackoff, EndSleep, imuVars, parserVars, vars

(* What may happen to the line and the program, and to the faults then.    *)
LEMMA NoisyCases ==
  ASSUME [NoisyNext]_noisyVars
  PROVE  \/ (Transmit \/ Broadcast \/ Quiet \/ \E n \in ReadSizes : ReadBytes(n))
              /\ faults' = faults
         \/ (ShortWrite \/ PickUpNoise \/ LoseBytes)
              /\ faults' = faults + 1 /\ faults < MaxFaults
<1>1. CASE UNCHANGED noisyVars
  BY <1>1 DEF noisyVars, Quiet
<1>2. CASE Next /\ faults' = faults
  BY <1>2 DEF Next, Quiet
<1>3. CASE ShortWrite \/ PickUpNoise \/ LoseBytes
  BY <1>3 DEF ShortWrite, PickUpNoise, LoseBytes
<1> QED
  BY <1>1, <1>2, <1>3, Zenon DEF NoisyNext

LEMMA NoisyTypesStep == NoisyTypeOK /\ [NoisyNext]_noisyVars => NoisyTypeOK'
<1> SUFFICES ASSUME NoisyTypeOK, [NoisyNext]_noisyVars PROVE NoisyTypeOK'
  OBVIOUS
<1>1. /\ sent \in Seq(Packets) /\ line \in Seq(Byte) /\ lineOpen \in BOOLEAN
      /\ pc \in {"read", "backoff", "send", "sleep"}
      /\ inputBuffer \in Seq(Byte) /\ indexInBuffer \in 0 .. POSITION_RANGE - 1
      /\ packet \in ParsedPacket /\ broadcast \in Seq(ParsedPacket)
      /\ faults \in 0..MaxFaults
  BY Zenon DEF NoisyTypeOK, TypeOK
<1>2. faults' \in 0..MaxFaults
  <2>1. faults' = faults \/ (faults' = faults + 1 /\ faults < MaxFaults)
    BY NoisyCases, Zenon
  <2>2. MaxFaults \in Nat
    BY NoiseAssumption
  <2> QED
    BY <1>1, <2>1, <2>2
<1>3. CASE Transmit \/ ShortWrite
  <2>1. PICK p \in Packets : sent' = Append(sent, p) /\ line' \in Seq(Byte)
    BY <1>3, AnySend, Zenon
  <2>2. UNCHANGED <<lineOpen, pc, inputBuffer, indexInBuffer, packet, broadcast>>
    BY <1>3, AnySend DEF parserVars
  <2>3. sent' \in Seq(Packets)
    BY <1>1, <2>1
  <2> QED
    BY <1>1, <1>2, <2>1, <2>2, <2>3 DEF NoisyTypeOK, TypeOK
<1>4. CASE PickUpNoise \/ LoseBytes
  <2>1. line' \in Seq(Byte)
    BY <1>4, NoiseEffect, LoseEffect, Zenon
  <2>2. UNCHANGED <<sent, lineOpen, pc, inputBuffer, indexInBuffer, packet, broadcast>>
    BY <1>4 DEF PickUpNoise, LoseBytes, parserVars
  <2> QED
    BY <1>1, <1>2, <2>1, <2>2 DEF NoisyTypeOK, TypeOK
<1>5. CASE \E n \in ReadSizes : ReadBytes(n)
  <2>1. PICK n \in ReadSizes : ReadBytes(n)
    BY <1>5
  <2> DEFINE result == ParsePacket(Received(n), indexInBuffer, little_endian)
  <2>2. /\ line' \in Seq(Byte) /\ inputBuffer' \in Seq(Byte)
        /\ indexInBuffer' \in 0 .. POSITION_RANGE - 1 /\ packet' \in ParsedPacket
        /\ pc' = (IF result.second THEN "send" ELSE "read")
        /\ UNCHANGED <<sent, lineOpen, broadcast>>
    BY <2>1, AnyRead, Zenon
  <2> HIDE DEF result
  <2>3. pc' \in {"read", "backoff", "send", "sleep"}
    BY <2>2
  <2> QED
    BY <1>1, <1>2, <2>2, <2>3 DEF NoisyTypeOK, TypeOK
<1>6. CASE Broadcast
  <2>1. /\ pc' = "sleep" /\ packet' = ZeroPacket
        /\ broadcast' \in {Append(broadcast, packet), broadcast}
        /\ UNCHANGED <<sent, line, lineOpen, inputBuffer, indexInBuffer>>
    BY <1>6 DEF Broadcast, imuVars
  <2>2. broadcast' \in Seq(ParsedPacket)
    <3>1. broadcast \in Seq(ParsedPacket) /\ packet \in ParsedPacket
      BY <1>1, Zenon
    <3> QED
      BY <2>1, <3>1
  <2> QED
    BY <1>1, <1>2, <2>1, <2>2, ZeroIsParsed DEF NoisyTypeOK, TypeOK
<1>7. CASE Quiet
  <2>1. /\ UNCHANGED <<sent, line, inputBuffer, packet, broadcast>>
        /\ lineOpen' \in {lineOpen, FALSE}
        /\ indexInBuffer' \in {indexInBuffer, 0}
        /\ pc' \in {pc, "read", "backoff"}
    BY <1>7, QuietEffect, Zenon
  <2>2. indexInBuffer' \in 0 .. POSITION_RANGE - 1
    BY <1>1, <2>1 DEF POSITION_RANGE
  <2>3. lineOpen' \in BOOLEAN
    BY <1>1, <2>1, Zenon
  <2>4. pc' \in {"read", "backoff", "send", "sleep"}
    BY <1>1, <2>1
  <2> QED
    BY <1>1, <1>2, <2>1, <2>2, <2>3, <2>4, Zenon DEF NoisyTypeOK, TypeOK
<1> QED
  BY <1>3, <1>4, <1>5, <1>6, <1>7, NoisyCases, Zenon

(* Type correctness of imu_parser whatever bytes come: inputBuffer holds   *)
(* bytes, the index fits a uint8_t, and what is sent are parsed packets.   *)
THEOREM NoisyTypesHold == NoisySpec => []NoisyTypeOK
<1>1. NoisyInit => NoisyTypeOK
  BY NoisyTypesInit
<1>2. NoisyTypeOK /\ [NoisyNext]_noisyVars => NoisyTypeOK'
  BY NoisyTypesStep
<1> QED
  BY <1>1, <1>2, PTL DEF NoisySpec
-----------------------------------------------------------------------------
(* The inductive invariant of OneWrongPacketPerFault: what waits is        *)
(* explained, and every wrong packet, broadcast or about to be, is charged *)
(* to a trace that has left what waits: a fault leaves one, or two if the  *)
(* noise may be longer than a byte.                                        *)
WrongSoon ==
  Wrong \cup IF pc = "send" /\ packet \notin ToSet(sent) THEN {Len(broadcast) + 1} ELSE {}

Cost == IF StrayBytesOnly THEN 1 ELSE 2

Blame ==
  \E F \in Nat : \E o, m, D : /\ F <= Cost * faults
                            /\ Explained(Pending, sent, F, o, m)
                            /\ Charged(Pending, WrongSoon, F, m, D)

LEMMA TracesLeft ==
  ASSUME faults \in Nat, NEW F \in Nat, F <= Cost * faults
  PROVE  /\ faults' = faults => F <= Cost * faults'
         /\ faults' = faults + 1 => F + 1 <= Cost * faults' /\ F + Cost <= Cost * faults'
<1>1. CASE Cost = 1
  BY <1>1
<1>2. CASE Cost = 2
  BY <1>2
<1> QED
  BY <1>1, <1>2 DEF Cost

LEMMA WrongFinite ==
  ASSUME NoisyTypeOK
  PROVE  IsFiniteSet(WrongSoon) /\ IsFiniteSet(Wrong)
<1>1. Len(broadcast) \in Nat /\ DOMAIN broadcast = 1..Len(broadcast)
  BY DEF NoisyTypeOK, TypeOK
<1>2. IsFiniteSet(1 .. Len(broadcast) + 1)
  <2>1. 1 \in Int /\ Len(broadcast) + 1 \in Int
    BY <1>1
  <2> QED
    BY <2>1, FS_Interval, Zenon
<1>3. WrongSoon \in SUBSET (1 .. Len(broadcast) + 1) /\ Wrong \in SUBSET WrongSoon
  <2>1. \A i \in 1..Len(broadcast) : i \in 1 .. Len(broadcast) + 1
    BY <1>1
  <2>2. Len(broadcast) + 1 \in 1 .. Len(broadcast) + 1
    BY <1>1
  <2>3. \A i \in Wrong : i \in 1..Len(broadcast)
    BY <1>1, Zenon DEF Wrong
  <2> QED
    BY <2>1, <2>2, <2>3, Zenon DEF WrongSoon
<1> QED
  BY <1>2, <1>3, FS_Subset, Zenon

LEMMA WrongKept ==
  ASSUME ToSet(sent) \subseteq ToSet(sent'), UNCHANGED <<packet, broadcast>>,
         pc' = "send" => pc = "send"
  PROVE  WrongSoon' \subseteq WrongSoon
<1>1. broadcast' = broadcast /\ packet' = packet
  OBVIOUS
<1>2. Wrong' \subseteq Wrong
  BY <1>1, Zenon DEF Wrong
<1> QED
  BY <1>1, <1>2, Zenon DEF WrongSoon

(* A step that moves no byte, or a fault, or a packet sent.                *)
LEMMA BlameKept ==
  ASSUME NoisyTypeOK, NoisyTypeOK', NEW F \in Nat, NEW o, NEW m, NEW D,
         Charged(Pending, WrongSoon, F, m, D), WrongSoon' \subseteq WrongSoon,
         NEW G \in Nat, F <= G, G <= Cost * faults',
         NEW o2, NEW m2, Explained(Pending', sent', G, o2, m2),
         NewTraceOnly(Pending, Pending', F, m, m2)
  PROVE  Blame'
<1>1. Pending \in Seq(Byte) /\ Pending' \in Seq(Byte)
  BY Joined DEF NoisyTypeOK, TypeOK, Pending
<1>2. IsFiniteSet(WrongSoon) /\ WrongSoon' \in SUBSET WrongSoon
  BY WrongFinite, Zenon
<1>3. Charged(Pending', WrongSoon', G, m2, D)
  BY <1>1, <1>2, ChargeKept, Zenon
<1>4. Cost' = Cost
  BY DEF Cost, StrayBytesOnly
<1> QED
  BY <1>3, <1>4, Zenon DEF Blame

(* What waits stays.                                                       *)
LEMMA BlameStays ==
  ASSUME NoisyTypeOK, NoisyTypeOK', Blame,
         UNCHANGED <<sent, faults>>, Pending' = Pending, WrongSoon' \subseteq WrongSoon
  PROVE  Blame'
<1>1. PICK F \in Nat : \E o, m, D : /\ F <= Cost * faults
                                    /\ Explained(Pending, sent, F, o, m)
                                    /\ Charged(Pending, WrongSoon, F, m, D)
  BY Zenon DEF Blame
<1>2. PICK o, m, D : /\ F <= Cost * faults
                     /\ Explained(Pending, sent, F, o, m)
                     /\ Charged(Pending, WrongSoon, F, m, D)
  BY <1>1, Zenon
<1>3. sent' = sent /\ faults' = faults
  OBVIOUS
<1>4. Explained(Pending', sent', F, o, m) /\ F <= Cost * faults'
  BY <1>2, <1>3, Zenon
<1>5. NewTraceOnly(Pending, Pending', F, m, m)
  BY Zenon DEF NewTraceOnly
<1>6. F <= F
  OBVIOUS
<1> QED
  BY <1>2, <1>4, <1>5, <1>6, BlameKept, Zenon

LEMMA BlameInit == NoisyInit => Blame
<1> SUFFICES ASSUME NoisyInit PROVE Blame
  OBVIOUS
<1>1. IInv /\ faults = 0
  BY InitInvariant DEF NoisyInit
<1>2. TypeOK /\ Streaming
  BY <1>1 DEF IInv
<1>3. /\ sent \in Seq(Packets) /\ Len(sent) \in Nat
      /\ Pending \in Seq(Byte) /\ Base \in Nat /\ Base + Len(Pending) = 20 * Len(sent)
  BY <1>2, StreamTypes, Zenon
<1>4. \A i \in 1..Len(Pending) : Pending[i] = Wire(sent, Base + i - 1)
  BY <1>2, Zenon DEF Streaming
<1>5. broadcast = <<>> /\ pc = "read"
  BY DEF NoisyInit, Init
<1> DEFINE N == Len(Pending)
           B == Base
           o == [i \in 1 .. N + 1 |-> (B + i) - 1]
           m == [i \in 1 .. N + 1 |-> 0]
<1> HIDE DEF B
<1>6. N \in Nat /\ B \in Nat /\ B + N = 20 * Len(sent)
  BY <1>3 DEF B
<1> HIDE DEF N
<1>7. Tagged(N, 20 * Len(sent), 0, o, m)
  <2>1. o \in [1 .. N + 1 -> Int] /\ m \in [1 .. N + 1 -> Inner..0]
    BY <1>6, InnerLabel
  <2>2. o[N + 1] = B + N
    BY <1>6
  <2> QED
    BY <1>6, <2>1, <2>2, Zenon DEF Tagged
<1>8. Runs(N, o, m)
  <2>1. ASSUME NEW i \in 1 .. N + 1, NEW j \in 1 .. N + 1 PROVE o[j] = o[i] + (j - i)
    BY <1>6
  <2> QED
    BY <2>1, Zenon DEF Runs
<1>9. Once(N, m)
  <2>1. \A i \in 1 .. N + 1 : ~ (m[i] > 0)
    OBVIOUS
  <2> QED
    BY <2>1, Zenon DEF Once
<1>10. Faithful(Pending, sent, o, m)
  <2>1. ASSUME NEW i \in 1..N
        PROVE  o[i] \in 0 .. 20 * Len(sent) - 1 /\ Pending[i] = Wire(sent, o[i])
    <3>1. o[i] = (B + i) - 1 /\ o[i] \in 0 .. 20 * Len(sent) - 1
      BY <1>3, <1>6
    <3>2. Pending[i] = Wire(sent, (B + i) - 1)
      <4>1. (B + i) - 1 = Base + i - 1
        BY <1>6 DEF B
      <4> QED
        BY <1>4, <4>1, Zenon DEF N
    <3> QED
      BY <3>1, <3>2, Zenon
  <2> QED
    BY <2>1, Zenon DEF Faithful, N
<1>less. Apart(N, m) /\ Headerless(Pending, m)
  <2>1. \A i \in 1 .. N + 1 : m[i] = 0
    OBVIOUS
  <2>2. N + 1 \in 1 .. N + 1 /\ \A i \in 1..N : i \in 1 .. N + 1 /\ i + 1 \in 1 .. N + 1
    BY <1>6
  <2>3. Apart(N, m)
    BY <2>1, <2>2 DEF Apart
  <2>4. ASSUME NEW i \in 0 .. N - 4 PROVE ~ Inside(m, i)
    <3>1. i + 1 \in 1 .. N + 1 /\ 1 \in 1..4
      BY <1>6
    <3>2. m[i + 1] # -1
      BY <2>1, <3>1
    <3> QED
      BY <3>1, <3>2, Zenon DEF Inside
  <2> QED
    BY <2>3, <2>4, Zenon DEF Headerless, N
<1> HIDE DEF o, m
<1>11. Explained(Pending, sent, 0, o, m)
  BY <1>7, <1>8, <1>9, <1>10, <1>less, Zenon DEF Explained, N
<1>12. Charged(Pending, WrongSoon, 0, m, {})
  <2>1. WrongSoon = {}
    BY <1>5 DEF WrongSoon, Wrong
  <2> QED
    BY <2>1, FS_EmptySet DEF Charged
<1>13. 0 <= Cost * faults /\ 0 \in Nat
  BY <1>1 DEF Cost
<1> QED
  BY <1>11, <1>12, <1>13, Zenon DEF Blame
LEMMA BlameStep ==
  NoisyTypeOK /\ NoisyTypeOK' /\ Blame /\ [NoisyNext]_noisyVars /\ NoHeaderInNoise
    => Blame'
<1> SUFFICES ASSUME NoisyTypeOK, NoisyTypeOK', Blame, [NoisyNext]_noisyVars, NoHeaderInNoise
             PROVE  Blame'
  OBVIOUS
<1>0. PICK F \in Nat : \E o, m, D : /\ F <= Cost * faults
                                    /\ Explained(Pending, sent, F, o, m)
                                    /\ Charged(Pending, WrongSoon, F, m, D)
  BY Zenon DEF Blame
<1>1. PICK o, m, D : /\ F <= Cost * faults
                     /\ Explained(Pending, sent, F, o, m)
                     /\ Charged(Pending, WrongSoon, F, m, D)
  BY <1>0, Zenon
<1>2. /\ sent \in Seq(Packets) /\ faults \in Nat /\ Pending \in Seq(Byte)
      /\ broadcast \in Seq(ParsedPacket) /\ packet \in ParsedPacket
      /\ indexInBuffer \in 0 .. POSITION_RANGE - 1
  BY NoiseAssumption, Joined DEF NoisyTypeOK, TypeOK, Pending
<1>3. CASE Transmit \/ ShortWrite
  <2>1. PICK p \in Packets, r \in 1..20 :
          /\ sent' = Append(sent, p)
          /\ r = 20 \/ ShortWrite
          /\ Pending' \in Seq(Byte)
          /\ Len(Pending') = Len(Pending) + r
          /\ \A i \in 1..Len(Pending) : Pending'[i] = Pending[i]
          /\ \A i \in 1..r : Pending'[Len(Pending) + i] = Encode(p)[i]
    BY <1>3, AnySend, Zenon
  <2>2. UNCHANGED <<pc, packet, broadcast>>
    BY <1>3, AnySend DEF parserVars
  <2>3. faults' \in {faults, faults + 1} /\ (r = 20 \/ faults' = faults + 1)
    <3>1. ShortWrite => faults' = faults + 1
      BY DEF ShortWrite
    <3>2. faults' = faults \/ faults' = faults + 1
      BY NoisyCases, Zenon
    <3> QED
      BY <2>1, <3>1, <3>2, Zenon
  <2>4. ToSet(sent) \subseteq ToSet(sent')
    <3>1. \A i \in DOMAIN sent : i \in DOMAIN sent' /\ sent'[i] = sent[i]
      BY <1>2, <2>1
    <3> QED
      BY <3>1, Zenon DEF ToSet
  <2>5. WrongSoon' \subseteq WrongSoon
    BY <2>2, <2>4, WrongKept, Zenon
  <2> DEFINE G == IF faults' = faults THEN F ELSE F + 1
  <2>sum. G \in Nat /\ G \in {F, F + 1} /\ F <= G /\ G <= Cost * faults' /\ (r = 20 \/ G = F + 1)
    <3>1. faults' = faults => F <= Cost * faults'
      BY <1>1, <1>2, TracesLeft
    <3>2. faults' = faults + 1 => F + 1 <= Cost * faults'
      BY <1>1, <1>2, TracesLeft
    <3> QED
      BY <1>2, <2>3, <3>1, <3>2
  <2> HIDE DEF G
  <2>6. PICK o2, m2 : /\ Explained(Pending', Append(sent, p), G, o2, m2)
                      /\ NewTraceOnly(Pending, Pending', F, m, m2)
    <3>1. Pending \in Seq(Byte) /\ sent \in Seq(Packets)
      BY <1>2, Zenon
    <3>2. Explained(Pending, sent, F, o, m)
      BY <1>1, Zenon
    <3> HIDE DEF Pending
    <3> QED
      <4>1. Extended(Pending, Pending', p, r)
        BY <2>1, Zenon DEF Extended
      <4> QED
        BY <2>sum, <3>1, <3>2, <4>1, SendExplained, ZenonT(60)
  <2>7. Explained(Pending', sent', G, o2, m2)
    BY <2>1, <2>6, Zenon
  <2> QED
    BY <1>1, <2>5, <2>sum, <2>6, <2>7, BlameKept, Zenon
<1>4. CASE LoseBytes
  <2>1. PICK a \in Nat, n \in Nat \ {0} :
          /\ Pending' \in Seq(Byte)
          /\ a + n <= Len(Pending)
          /\ Len(Pending') = Len(Pending) - n
          /\ \A i \in 1..a : Pending'[i] = Pending[i]
          /\ \A i \in a + 1 .. Len(Pending) - n : Pending'[i] = Pending[n + i]
    BY <1>4, LoseEffect, Zenon
  <2>2. faults' = faults + 1 /\ sent' = sent /\ UNCHANGED <<pc, packet, broadcast>>
    BY <1>4 DEF LoseBytes, parserVars
  <2>3. WrongSoon' \subseteq WrongSoon
    BY <2>2, WrongKept, Zenon
  <2>4. PICK o2, m2 : /\ Explained(Pending', sent, F + 1, o2, m2)
                      /\ NewTraceOnly(Pending, Pending', F, m, m2)
    BY <1>1, <1>2, <2>1, LoseExplained, Zenon
  <2>5. Explained(Pending', sent', F + 1, o2, m2)
    BY <2>2, <2>4, Zenon
  <2>6. F + 1 \in Nat /\ F <= F + 1 /\ F + 1 <= Cost * faults'
    BY <1>1, <1>2, <2>2, TracesLeft
  <2> QED
    BY <1>1, <2>3, <2>4, <2>5, <2>6, BlameKept, Zenon
<1>5. CASE PickUpNoise
  <2>1. PICK a \in Nat, run \in NoiseRuns : RunInserted(Pending, Pending', a, run)
    BY <1>5, NoiseEffect, Zenon
  <2>2. faults' = faults + 1 /\ sent' = sent /\ UNCHANGED <<pc, packet, broadcast>>
    BY <1>5 DEF PickUpNoise, parserVars
  <2>3. WrongSoon' \subseteq WrongSoon
    BY <2>2, WrongKept, Zenon
  <2>4. /\ F + Cost \in Nat /\ F <= F + Cost /\ F + Cost <= Cost * faults'
        /\ F + Cost >= F + 1 /\ (Len(run) > 1 => F + Cost >= F + 2)
    <3>1. F + Cost <= Cost * faults'
      BY <1>1, <1>2, <2>2, TracesLeft
    <3>2. Cost \in {1, 2} /\ (Len(run) > 1 => Cost = 2)
      <4>1. CASE StrayBytesOnly
        <5>1. Len(run) = 1 /\ Cost = 1
          BY <4>1, Zenon DEF StrayBytesOnly, Cost
        <5> QED
          BY <5>1
      <4>2. CASE ~ StrayBytesOnly
        BY <4>2 DEF Cost
      <4> QED
        BY <4>1, <4>2
    <3> QED
      BY <3>1, <3>2
  <2>5. PICK o2, m2 : /\ Explained(Pending', sent, F + Cost, o2, m2)
                      /\ NewTraceOnly(Pending, Pending', F, m, m2)
    <3> DEFINE G == F + Cost
    <3>1. G \in Nat /\ G >= F + 1 /\ (Len(run) > 1 => G >= F + 2)
      BY <2>4
    <3> HIDE DEF G
    <3>2. \E o2, m2 : /\ Explained(Pending', sent, G, o2, m2)
                      /\ NewTraceOnly(Pending, Pending', F, m, m2)
      BY <1>1, <1>2, <2>1, <3>1, RunExplained, ZenonT(60)
    <3> QED
      BY <3>2, Zenon DEF G
  <2>6. Explained(Pending', sent', F + Cost, o2, m2)
    BY <2>2, <2>5, Zenon
  <2> QED
    BY <1>1, <2>3, <2>4, <2>5, <2>6, BlameKept, Zenon
<1>6. CASE (\E n \in ReadSizes : ReadBytes(n)) /\ faults' = faults
  <2>1. PICK n \in ReadSizes : ReadBytes(n)
    BY <1>6
  <2> DEFINE c == Received(n)
             result == ParsePacket(c, indexInBuffer, little_endian)
  <2>2. /\ c \in Seq(Byte) /\ Len(c) \in 0..Len(Pending)
        /\ \A i \in 1..Len(c) : c[i] = Pending[i]
        /\ Pending' \in Seq(Byte) /\ packet' = result.first
        /\ pc' = (IF result.second THEN "send" ELSE "read")
        /\ UNCHANGED <<sent, lineOpen, broadcast>>
        /\ result.second => /\ Len(Pending') = Len(Pending) - Len(c)
                            /\ \A i \in 1 .. Len(Pending) - Len(c) :
                                 Pending'[i] = Pending[Len(c) + i]
        /\ ~ result.second => Pending' = Pending
    BY <2>1, AnyRead, Zenon
  <2> HIDE DEF c
  <2>3. pc = "read" /\ sent' = sent /\ broadcast' = broadcast /\ faults' = faults
    BY <1>6, <2>1, <2>2 DEF ReadBytes
  <2>4. WrongSoon = Wrong /\ Wrong' = Wrong
    <3>1. pc # "send"
      BY <2>3
    <3> QED
      BY <2>3, <3>1, Zenon DEF WrongSoon, Wrong
  <2>5. result.second /\ ~ (result.first \in ToSet(sent))
          => \E i \in 1..Len(c) : m[i] > 0
    <3>1. Len(c) <= Len(Pending)
      BY <1>2, <2>2
    <3>2. ASSUME result.second, Untraced(m, Len(c)) PROVE result.first \in ToSet(sent)
      <4>1. Explained(Pending, sent, F, o, m)
        BY <1>1, Zenon
      <4>2. /\ sent \in Seq(Packets) /\ Pending \in Seq(Byte)
            /\ indexInBuffer \in 0 .. POSITION_RANGE - 1
        BY <1>2, Zenon
      <4>3. c \in Seq(Byte) /\ \A i \in 1..Len(c) : c[i] = Pending[i]
        BY <2>2, Zenon
      <4> QED
        <5>1. Beginning(Pending, c)
          BY <3>1, <4>3 DEF Beginning
        <5> QED
          BY <3>2, <4>1, <4>2, <5>1, UntracedParse, Zenon DEF result
    <3>3. ASSUME ~ Untraced(m, Len(c)) PROVE \E i \in 1..Len(c) : m[i] > 0
      <4>1. PICK i \in 1..Len(c) : ~ (m[i] <= 0)
        BY <3>3, Zenon DEF Untraced
      <4>2. m[i] \in Inner..F
        <5>1. i \in 1 .. Len(Pending) + 1
          BY <1>2, <3>1
        <5> QED
          BY <1>1, <5>1 DEF Explained, Tagged
      <4>3. m[i] > 0
        BY <4>1, <4>2, InnerLabel
      <4> QED
        BY <4>3, Zenon
    <3> QED
      BY <3>2, <3>3, Zenon
  <2> HIDE DEF result
  <2>6. CASE ~ result.second
    <3>1. pc' # "send" /\ Pending' = Pending
      BY <2>2, <2>6
    <3>2. WrongSoon' \subseteq WrongSoon
      BY <2>4, <3>1, Zenon DEF WrongSoon
    <3> QED
      BY <2>3, <3>1, <3>2, BlameStays, Zenon
  <2>7. CASE result.second
    <3>1. PICK o2, m2 : /\ Explained(Pending', sent, F, o2, m2)
                        /\ \A i \in 1 .. Len(Pending') + 1 : m2[i] = m[Len(c) + i]
      <4> DEFINE L == Len(c)
      <4>1. Explained(Pending, sent, F, o, m) /\ Pending \in Seq(Byte)
        BY <1>1, <1>2, Zenon
      <4>2. /\ L \in 0..Len(Pending) /\ Pending' \in Seq(Byte)
            /\ Len(Pending') = Len(Pending) - L
            /\ \A i \in 1 .. Len(Pending) - L : Pending'[i] = Pending[L + i]
        BY <2>2, <2>7, Zenon
      <4> HIDE DEF L
      <4>3. \E o2, m2 : Explained(Pending', sent, F, o2, m2) /\ Follow(Pending', L, m, m2)
        <5>1. Taken(Pending, Pending', L)
          BY <4>2, Zenon DEF Taken
        <5> QED
          BY <4>1, <5>1, TakeExplained, Zenon
      <4> QED
        BY <4>3, Zenon DEF L, Follow
    <3>2. Explained(Pending', sent', F, o2, m2)
      BY <2>3, <3>1, Zenon
    <3>3. CASE packet' \in ToSet(sent)
      <4>1. WrongSoon' \subseteq WrongSoon
        BY <2>3, <2>4, <3>3, Zenon DEF WrongSoon
      <4>2. NewTraceOnly(Pending, Pending', F, m, m2)
        <5>1. ASSUME NEW i \in 1 .. Len(Pending') + 1
              PROVE  Len(c) + i \in 1 .. Len(Pending) + 1
          BY <1>2, <2>2, <2>7
        <5> QED
          BY <3>1, <5>1, Zenon DEF NewTraceOnly
      <4>3. F <= F /\ F <= Cost * faults'
        BY <1>1, <1>2, <2>3, TracesLeft
      <4> QED
        BY <1>1, <3>2, <4>1, <4>2, <4>3, BlameKept, Zenon
    <3>4. CASE packet' \notin ToSet(sent)
      <4>1. PICK i \in 1..Len(c) : m[i] > 0
        BY <2>2, <2>5, <2>7, <3>4, Zenon
      <4>2. WrongSoon' \in SUBSET (WrongSoon \cup {Len(broadcast) + 1})
        BY <2>3, <2>4, Zenon DEF WrongSoon
      <4>3. IsFiniteSet(WrongSoon)
        BY WrongFinite
      <4>4. Charged(Pending', WrongSoon', F, m2, D \cup {m[i]})
        <5> DEFINE L == Len(c)
                   x == Len(broadcast) + 1
                   W == WrongSoon
                   W2 == WrongSoon'
        <5>1. /\ Explained(Pending, sent, F, o, m) /\ Charged(Pending, W, F, m, D)
              /\ Pending \in Seq(Byte)
          BY <1>1, <1>2, Zenon
        <5>2. /\ L \in 0..Len(Pending) /\ Pending' \in Seq(Byte)
              /\ Len(Pending') = Len(Pending) - L
              /\ i \in 1..L /\ m[i] > 0
              /\ \A j \in 1 .. Len(Pending') + 1 : m2[j] = m[L + j]
          BY <2>2, <2>7, <3>1, <4>1, Zenon
        <5>3. IsFiniteSet(W) /\ W2 \in SUBSET (W \cup {x})
          BY <4>2, <4>3, Zenon
        <5> HIDE DEF L, x, W, W2
        <5>4. Charged(Pending', W2, F, m2, D \cup {m[i]})
          BY <5>1, <5>2, <5>3, ChargeAdded, ZenonT(60)
        <5> QED
          BY <5>4, Zenon DEF W2
      <4>5. F <= Cost * faults' /\ Cost' = Cost
        <5>1. F <= Cost * faults'
          BY <1>1, <1>2, <2>3, TracesLeft
        <5> QED
          BY <5>1 DEF Cost, StrayBytesOnly
      <4> QED
        BY <3>2, <4>4, <4>5, Zenon DEF Blame
    <3> QED
      BY <3>3, <3>4
  <2> QED
    BY <2>6, <2>7
<1>7. CASE Broadcast /\ faults' = faults
  <2>1. /\ pc = "send" /\ pc' = "sleep"
        /\ broadcast' \in {Append(broadcast, packet), broadcast}
        /\ UNCHANGED <<sent, line, inputBuffer>>
    BY <1>7 DEF Broadcast, imuVars
  <2>2. Pending' = Pending
    BY <2>1 DEF Pending
  <2>3. WrongSoon' = Wrong'
    BY <2>1 DEF WrongSoon
  <2>4. Wrong' \subseteq WrongSoon
    <3>1. CASE broadcast' = broadcast
      BY <2>1, <3>1, Zenon DEF Wrong, WrongSoon
    <3>2. CASE broadcast' = Append(broadcast, packet)
      <4>1. /\ DOMAIN broadcast' = DOMAIN broadcast \cup {Len(broadcast) + 1}
            /\ \A i \in DOMAIN broadcast : broadcast'[i] = broadcast[i]
            /\ broadcast'[Len(broadcast) + 1] = packet
        BY <1>2, <3>2
      <4> QED
        BY <2>1, <4>1, Zenon DEF Wrong, WrongSoon
    <3> QED
      BY <2>1, <3>1, <3>2
  <2> QED
    BY <1>7, <2>1, <2>2, <2>3, <2>4, BlameStays
<1>8. CASE Quiet /\ faults' = faults
  <2>1. UNCHANGED <<sent, line, inputBuffer, packet, broadcast>> /\ pc' \in {pc, "read", "backoff"}
    BY <1>8, QuietEffect, Zenon
  <2>2. pc' = "send" => pc = "send"
    BY <2>1
  <2>3. WrongSoon' \subseteq WrongSoon
    BY <2>1, <2>2, WrongKept, Zenon
  <2>4. Pending' = Pending
    BY <2>1 DEF Pending
  <2> QED
    BY <1>8, <2>1, <2>3, <2>4, BlameStays
<1> QED
  BY <1>3, <1>4, <1>5, <1>6, <1>7, <1>8, NoisyCases, Zenon

LEMMA WrongPaidFor ==
  ASSUME NoisyTypeOK, Blame
  PROVE  Cardinality(Wrong) <= Cost * faults
<1>1. PICK F \in Nat : \E o, m, D : F <= Cost * faults /\ Charged(Pending, WrongSoon, F, m, D)
  BY Zenon DEF Blame
<1>2. PICK o, m, D : F <= Cost * faults /\ Charged(Pending, WrongSoon, F, m, D)
  BY <1>1, Zenon
<1>3. D \in SUBSET (1..F) /\ Cardinality(WrongSoon) <= Cardinality(D)
  BY <1>2 DEF Charged
<1>4. Cardinality(D) \in Nat /\ Cardinality(D) <= F
  BY <1>3, FaultsFinite
<1>5. IsFiniteSet(WrongSoon) /\ IsFiniteSet(Wrong) /\ Wrong \in SUBSET WrongSoon
  BY WrongFinite, Zenon DEF WrongSoon
<1>6. Cardinality(Wrong) <= Cardinality(WrongSoon)
  BY <1>5, FS_Subset
<1>7. Cardinality(Wrong) \in Nat /\ Cardinality(WrongSoon) \in Nat
  BY <1>5, FS_CardinalityType
<1>8. Cost * faults \in Nat
  <2>1. faults \in Nat
    BY NoiseAssumption DEF NoisyTypeOK
  <2>2. Cost = 1 \/ Cost = 2
    BY DEF Cost
  <2> QED
    BY <2>1, <2>2
<1> QED
  BY <1>2, <1>3, <1>4, <1>6, <1>7, <1>8

(* A fault, be it a run of bytes lost, a frame cut short or a stray byte,  *)
(* costs at most one wrong datagram, because parsePacket clears what it    *)
(* has read (parse_functions.cpp:49): the trace of the fault goes with it. *)
(* For any number of faults, anywhere.                                     *)
THEOREM FaultsPaidFor ==
  StrayBytesOnly => (NoisySpec => []OneWrongPacketPerFault)
<1> SUFFICES ASSUME StrayBytesOnly PROVE NoisySpec => []OneWrongPacketPerFault
  OBVIOUS
<1>1. NoisyInit => NoisyTypeOK /\ Blame
  BY NoisyTypesInit, BlameInit
<1>2. NoHeaderInNoise
  BY StrayHoldsNoHeader
<1>3. NoisyTypeOK /\ Blame /\ [NoisyNext]_noisyVars => (NoisyTypeOK /\ Blame)'
  BY <1>2, NoisyTypesStep, BlameStep
<1>4. NoisyTypeOK /\ Blame => OneWrongPacketPerFault
  <2> SUFFICES ASSUME NoisyTypeOK, Blame PROVE OneWrongPacketPerFault
    OBVIOUS
  <2>1. Cardinality(Wrong) <= Cost * faults
    BY WrongPaidFor
  <2>2. Cost = 1 /\ faults \in Nat
    BY NoiseAssumption DEF Cost, NoisyTypeOK
  <2> QED
    BY <2>1, <2>2 DEF OneWrongPacketPerFault
<1> QED
  BY <1>1, <1>3, <1>4, PTL DEF NoisySpec

(* A run of noise of any bytes and any length, as long as no header is in  *)
(* it, costs no more than two: the packet with its first bytes and the one *)
(* with its last.  In between read() finds noise only, and no packet there.*)
(* The other faults still cost one each; for any number, anywhere.         *)
THEOREM RunsPaidFor == NoHeaderInNoise => (NoisySpec => []TwoWrongPacketsPerFault)
<1> SUFFICES ASSUME NoHeaderInNoise PROVE NoisySpec => []TwoWrongPacketsPerFault
  OBVIOUS
<1>1. NoisyInit => NoisyTypeOK /\ Blame
  BY NoisyTypesInit, BlameInit
<1>2. NoisyTypeOK /\ Blame /\ [NoisyNext]_noisyVars => (NoisyTypeOK /\ Blame)'
  BY NoisyTypesStep, BlameStep
<1>3. NoisyTypeOK /\ Blame => TwoWrongPacketsPerFault
  <2> SUFFICES ASSUME NoisyTypeOK, Blame PROVE TwoWrongPacketsPerFault
    OBVIOUS
  <2>1. Cardinality(Wrong) <= Cost * faults /\ Cardinality(Wrong) \in Nat
    BY WrongPaidFor, WrongFinite, FS_CardinalityType
  <2>2. (Cost = 1 \/ Cost = 2) /\ faults \in Nat
    BY NoiseAssumption DEF Cost, NoisyTypeOK
  <2> QED
    BY <2>1, <2>2 DEF TwoWrongPacketsPerFault
<1> QED
  BY <1>1, <1>2, <1>3, PTL DEF NoisySpec
-----------------------------------------------------------------------------
(* Pieces of 23 bytes have no place in common.                             *)
LEMMA PiecesApart ==
  ASSUME NEW v \in 0..10, NEW w \in 0..10, v # w,
         NEW i \in 23 * v + 1 .. 23 * v + 23, NEW j \in 23 * w + 1 .. 23 * w + 23
  PROVE  i # j
  OBVIOUS

(* The index of a header fits the uint8_t as long as at most ten faults    *)
(* have left their traces: 253 bytes hold eleven pieces of 23, one of them *)
(* without a trace, and a frame and its header begin in it.                *)
LEMMA HeaderSoon ==
  ASSUME NEW b \in Seq(Byte), NEW F \in 0..10, NEW o, NEW m, Explained(b, sent, F, o, m),
         StrayBytesOnly, sent \in Seq(Packets), Len(b) >= 253
  PROVE  \E i \in 0..249 : HeaderAt(b, i)
<1> DEFINE Struck(w) == \E k \in 23 * w + 1 .. 23 * w + 23 : m[k] # 0
<1>1. /\ Once(Len(b), m) /\ m \in [1 .. Len(b) + 1 -> 0..F] /\ F \in Nat /\ Len(b) \in Nat
  BY DEF Explained, Tagged, Inner
<1>2. \A w \in 0..10, k \in Nat : k \in 23 * w + 1 .. 23 * w + 23 => k \in 1..Len(b)
  BY <1>1
<1>3. PICK w \in 0..10 : ~ Struck(w)
  <2> SUFFICES ASSUME \A w \in 0..10 : Struck(w) PROVE FALSE
    BY Zenon
  <2> DEFINE place == [w \in 0..10 |-> CHOOSE k \in 23 * w + 1 .. 23 * w + 23 : m[k] # 0]
             trace == [w \in 0..10 |-> m[place[w]]]
  <2>1. ASSUME NEW w \in 0..10
        PROVE  /\ place[w] \in 23 * w + 1 .. 23 * w + 23
               /\ m[place[w]] # 0
    <3>1. Struck(w)
      OBVIOUS
    <3> QED
      BY <3>1, Zenon
  <2> HIDE DEF place
  <2>2. ASSUME NEW w \in 0..10 PROVE place[w] \in 1..Len(b) /\ trace[w] \in 1..F
    <3>1. place[w] \in 23 * w + 1 .. 23 * w + 23 /\ m[place[w]] # 0
      BY <2>1
    <3>2. place[w] \in 1..Len(b) /\ place[w] \in 1 .. Len(b) + 1
      <4>1. place[w] \in Nat
        <5>1. \A z \in 23 * w + 1 .. 23 * w + 23 : z \in Nat
          OBVIOUS
        <5> QED
          BY <3>1, <5>1, Zenon
      <4>2. place[w] \in 1..Len(b)
        BY <1>2, <3>1, <4>1, Zenon
      <4> QED
        BY <1>1, <4>2
    <3>3. m[place[w]] \in 0..F
      BY <1>1, <3>2
    <3> QED
      BY <3>1, <3>2, <3>3
  <2>3. trace \in [0..10 -> 1..F]
    BY <2>2
  <2>4. /\ IsFiniteSet(0..10) /\ Cardinality(0..10) = 11
        /\ IsFiniteSet(1..F) /\ Cardinality(1..F) = F
    <3>1. /\ IsFiniteSet(0..10)
          /\ Cardinality(0..10) = IF 0 > 10 THEN 0 ELSE 10 - 0 + 1
      <4>1. 0 \in Int /\ 10 \in Int
        OBVIOUS
      <4> QED
        BY <4>1, FS_Interval, Zenon
    <3>2. /\ IsFiniteSet(1..F)
          /\ Cardinality(1..F) = IF 1 > F THEN 0 ELSE F - 1 + 1
      BY <1>1, FS_Interval
    <3> QED
      BY <1>1, <3>1, <3>2
  <2>5. PICK v \in 0..10, w \in 0..10 : v # w /\ trace[v] = trace[w]
    <3>1. Cardinality(1..F) < Cardinality(0..10)
      BY <2>4
    <3> DEFINE S == 0..10
               T == 1..F
    <3>2. trace \in [S -> T] /\ IsFiniteSet(S) /\ IsFiniteSet(T) /\ Cardinality(T) < Cardinality(S)
      BY <2>3, <2>4, <3>1, Zenon
    <3> HIDE DEF trace, S, T
    <3>3. \E v, w \in S : v # w /\ trace[v] = trace[w]
      BY <3>2, FS_PigeonHole, Zenon
    <3> QED
      BY <3>3, Zenon DEF S
  <2>6. place[v] # place[w]
    <3>1. /\ place[v] \in 23 * v + 1 .. 23 * v + 23
          /\ place[w] \in 23 * w + 1 .. 23 * w + 23
      BY <2>1, Zenon
    <3>2. v \in 0..10 /\ w \in 0..10 /\ v # w
      BY <2>5, Zenon
    <3> HIDE DEF trace
    <3> QED
      BY <3>1, <3>2, PiecesApart, Zenon
  <2>7. /\ place[v] \in 1 .. Len(b) + 1 /\ place[w] \in 1 .. Len(b) + 1
        /\ m[place[v]] > 0 /\ m[place[v]] = m[place[w]]
    <3>1. place[v] \in 1..Len(b) /\ place[w] \in 1..Len(b)
      BY <2>2, <2>5, Zenon
    <3>0. place[v] \in 1 .. Len(b) + 1 /\ place[w] \in 1 .. Len(b) + 1
      BY <1>1, <3>1
    <3>2. m[place[v]] > 0
      <4>1. m[place[v]] # 0
        BY <2>1, <2>5, Zenon
      <4>2. m[place[v]] \in 0..F
        BY <1>1, <3>0, Zenon
      <4>3. m[place[v]] \in Nat
        BY <1>1, <4>2
      <4> QED
        BY <4>1, <4>3
    <3>3. m[place[v]] = m[place[w]]
      BY <2>5, Zenon
    <3> QED
      BY <3>0, <3>2, <3>3, Zenon
  <2> QED
    BY <1>1, <2>6, <2>7, Zenon DEF Once
<1> DEFINE x == 23 * w + 1
           y == 23 * w + 23
<1>4. /\ x \in 1..Len(b) /\ y \in x..Len(b) /\ x \in 1..231 /\ y = x + 22
      /\ \A k \in x..y : m[k] = 0
  BY <1>1, <1>3
<1> HIDE DEF x, y
<1> DEFINE B == o[x]
<1>5. /\ B \in Nat /\ B + (y - x) < 20 * Len(sent)
      /\ Piece(b, sent, B, x, y)
  <2>1. x \in 1..Len(b)
    BY <1>4
  <2>2. y \in x..Len(b)
    BY <1>4
  <2>3. Untouched(m, x, y)
    BY <1>4 DEF Untouched
  <2>4. F \in Nat
    BY <1>1
  <2> QED
    BY <2>1, <2>2, <2>3, <2>4, CleanPiece, Zenon
<1> HIDE DEF B
<1>6. PICK d \in 0..19 : (B + d) % 20 = 0
  BY <1>5, NextMultiple, Zenon
<1>7. d \in Nat /\ x + d + 3 <= y /\ x \in Nat /\ y \in Nat
  BY <1>4
<1>8. HeaderAt(b, (x + d) - 1)
  BY <1>5, <1>6, <1>7, PieceHeader, Zenon
<1>9. (x + d) - 1 \in 0..249
  BY <1>4
<1> QED
  BY <1>8, <1>9, Zenon
(* A packet that is found begins at the first header, which is not 256     *)
(* bytes or more into the buffer.                                          *)
LEMMA FirstHeader ==
  ASSUME NEW b \in Seq(Byte), NEW F \in 0..10, NEW o, NEW m, Explained(b, sent, F, o, m),
         StrayBytesOnly, sent \in Seq(Packets), NEW c, Beginning(b, c), HeaderIndices(c) # {}
  PROVE  Min(HeaderIndices(c)) % POSITION_RANGE = Min(HeaderIndices(c))
<1> DEFINE h == Min(HeaderIndices(c))
<1>1. /\ c \in Seq(Byte) /\ Len(c) <= Len(b) /\ \A i \in 1..Len(c) : c[i] = b[i]
      /\ Len(b) \in Nat /\ Len(c) \in Nat
  BY DEF Beginning
<1>2. HeaderIndices(c) = {i \in 0 .. Len(c) - 5 : HeaderAt(c, i)}
  BY <1>1 DEF HeaderIndices, HEADER_SIZE
<1>3. HeaderIndices(c) \in SUBSET Nat
  BY <1>2
<1>4. h \in HeaderIndices(c) /\ \A j \in HeaderIndices(c) : h <= j
  BY <1>3, MinOfNats
<1>5. h \in Nat /\ h <= Len(c) - 5
  BY <1>1, <1>2, <1>4
<1> HIDE DEF h
<1>6. h < 256
  <2> SUFFICES ASSUME h >= 256 PROVE FALSE
    BY <1>5
  <2>1. Len(c) >= 261 /\ Len(b) >= 253
    BY <1>1, <1>5
  <2>2. PICK i \in 0..249 : HeaderAt(b, i)
    BY <2>1, HeaderSoon, Zenon
  <2>3. HeaderAt(c, i)
    <3>1. i + 1 \in 1..Len(c) /\ i + 2 \in 1..Len(c) /\ i + 3 \in 1..Len(c) /\ i + 4 \in 1..Len(c)
      BY <1>1, <2>1
    <3>2. /\ c[i + 1] = b[i + 1] /\ c[i + 2] = b[i + 2]
          /\ c[i + 3] = b[i + 3] /\ c[i + 4] = b[i + 4]
      BY <1>1, <3>1, Zenon
    <3> QED
      BY <2>2, <3>2, Zenon DEF HeaderAt
  <2>4. i \in HeaderIndices(c)
    <3>1. i \in 0 .. Len(c) - 5
      BY <1>1, <2>1
    <3> QED
      BY <1>2, <2>3, <3>1, Zenon
  <2>5. h <= i
    BY <1>4, <2>4, Zenon
  <2> QED
    BY <1>5, <2>5
<1>7. \A x \in Nat : x < 256 => x % 256 = x
  OBVIOUS
<1> QED
  BY <1>5, <1>6, <1>7, Zenon DEF h, POSITION_RANGE

LEMMA ParsedAtHeader ==
  NoisyTypeOK /\ Blame /\ StrayBytesOnly /\ MaxFaults <= 10 /\ [NoisyNext]_noisyVars /\ pc = "read" /\ pc' = "send"
    => LET b == Received(Len(line) - Len(line'))
           i == Min(HeaderIndices(b))
       IN  /\ i + PACKET_SIZE <= Len(b)
           /\ packet' = PacketAt(b, i, little_endian)
<1> SUFFICES ASSUME NoisyTypeOK, Blame, StrayBytesOnly, MaxFaults <= 10, [NoisyNext]_noisyVars,
                    pc = "read", pc' = "send"
             PROVE  LET b == Received(Len(line) - Len(line'))
                        i == Min(HeaderIndices(b))
                    IN  /\ i + PACKET_SIZE <= Len(b)
                        /\ packet' = PacketAt(b, i, little_endian)
  OBVIOUS
<1>1. PICK n \in ReadSizes : ReadBytes(n)
  <2>1. CASE \E n \in ReadSizes : ReadBytes(n)
    BY <2>1
  <2>2. CASE Transmit \/ ShortWrite \/ PickUpNoise \/ LoseBytes
    BY <2>2 DEF Transmit, ShortWrite, PickUpNoise, LoseBytes, parserVars
  <2>3. CASE Broadcast
    BY <2>3 DEF Broadcast
  <2>4. CASE Quiet
    BY <2>4, QuietEffect
  <2> QED
    BY <2>1, <2>2, <2>3, <2>4, NoisyCases, Zenon
<1>0. PICK F \in Nat : \E o, m : F <= Cost * faults /\ Explained(Pending, sent, F, o, m)
  BY Zenon DEF Blame
<1>2. PICK o, m : F <= Cost * faults /\ Explained(Pending, sent, F, o, m)
  BY <1>0, Zenon
<1>3. /\ sent \in Seq(Packets) /\ Pending \in Seq(Byte) /\ F \in 0..10
      /\ line \in Seq(Byte) /\ indexInBuffer \in 0 .. POSITION_RANGE - 1
  <2>1. /\ sent \in Seq(Packets) /\ line \in Seq(Byte) /\ inputBuffer \in Seq(Byte)
        /\ indexInBuffer \in 0 .. POSITION_RANGE - 1 /\ faults \in 0..MaxFaults
    BY Zenon DEF NoisyTypeOK, TypeOK
  <2>2. Pending \in Seq(Byte)
    BY <2>1, Joined, Zenon DEF Pending
  <2>3. F \in 0..10
    <3>1. Cost = 1
      BY DEF Cost
    <3> QED
      BY <1>2, <2>1, <3>1, NoiseAssumption
  <2> QED
    BY <2>1, <2>2, <2>3
<1> DEFINE c == Received(n)
           result == ParsePacket(c, indexInBuffer, little_endian)
<1>4. /\ c \in Seq(Byte) /\ Len(c) \in 0..Len(Pending) /\ \A i \in 1..Len(c) : c[i] = Pending[i]
      /\ packet' = result.first /\ pc' = (IF result.second THEN "send" ELSE "read")
  BY <1>1, AnyRead, Zenon
<1>5. c = Received(Len(line) - Len(line'))
  <2>1. line' = SubSeq(line, n + 1, Len(line)) /\ n \in 0..Len(line) /\ Len(line) \in Nat
    BY <1>1, <1>3, ParserAssumption DEF ReadBytes
  <2>2. Len(line') = Len(line) - n
    BY <1>3, <2>1, Pieces, Zenon
  <2>3. Len(line) - Len(line') = n
    BY <2>1, <2>2
  <2> QED
    BY <2>3, Zenon
<1> HIDE DEF c
<1>6. result.second
  BY <1>4
<1>7. /\ HeaderIndices(c) # {}
      /\ (Min(HeaderIndices(c)) % POSITION_RANGE) + 20 <= Len(c)
      /\ result.first = PacketAt(c, Min(HeaderIndices(c)) % POSITION_RANGE, little_endian)
  BY <1>3, <1>4, <1>6, ParseOutcome, Zenon
<1>8. Beginning(Pending, c)
  BY <1>3, <1>4 DEF Beginning
<1>9. Min(HeaderIndices(c)) % POSITION_RANGE = Min(HeaderIndices(c))
  BY <1>2, <1>3, <1>7, <1>8, FirstHeader, Zenon
<1> HIDE DEF result
<1>10. /\ Min(HeaderIndices(c)) + PACKET_SIZE <= Len(c)
       /\ packet' = PacketAt(c, Min(HeaderIndices(c)), little_endian)
  BY <1>4, <1>7, <1>9, Zenon DEF PACKET_SIZE
<1> QED
  BY <1>5, <1>10, Zenon

(* The packet taken is the one that starts at the first header, and all of *)
(* it has arrived (README, line 24): with at most ten faults, each a run   *)
(* of bytes lost, a frame cut short or a stray byte, fewer than 256 bytes  *)
(* wait ahead of it, so that the uint8_t position (parse_functions.cpp:13) *)
(* is its index.  The run noisy_long shows a run of noise break it.        *)
THEOREM ParsedAtFirstHeader ==
  StrayBytesOnly /\ MaxFaults <= 10 => (NoisySpec => ParsesAtHeader)
<1> SUFFICES ASSUME StrayBytesOnly, MaxFaults <= 10 PROVE NoisySpec => ParsesAtHeader
  OBVIOUS
<1>1. NoisyInit => NoisyTypeOK /\ Blame
  BY NoisyTypesInit, BlameInit
<1>2. NoisyTypeOK /\ Blame /\ [NoisyNext]_noisyVars => (NoisyTypeOK /\ Blame)'
  BY StrayHoldsNoHeader, NoisyTypesStep, BlameStep
<1>3. NoisyTypeOK /\ Blame /\ [NoisyNext]_noisyVars /\ pc = "read" /\ pc' = "send"
        => LET b == Received(Len(line) - Len(line'))
               i == Min(HeaderIndices(b))
           IN  /\ i + PACKET_SIZE <= Len(b)
               /\ packet' = PacketAt(b, i, little_endian)
  BY ParsedAtHeader
<1> QED
  BY <1>1, <1>2, <1>3, PTL DEF NoisySpec, ParsesAtHeader
=============================================================================
