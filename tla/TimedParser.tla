----------------------------- MODULE TimedParser -----------------------------
(***************************************************************************)
(* imu_parser and mock_imu with their sleeps: the IMU writes a frame every *)
(* 30 ms (mock_imu.cpp:47), the program sleeps 80 ms after a packet and    *)
(* 10 ms when there is nothing to read (imu_parser.cpp:91 and 32).  The    *)
(* steps are those of ImuParser; a tick is 10 ms.                          *)
(*                                                                         *)
(* A sleep lasts at least what was asked for and overruns by at most Late  *)
(* ticks, but for one stall, when the program is not scheduled for longer. *)
(* Its calls take no time and sendto does not fail.                        *)
(***************************************************************************)
EXTENDS ImuParser

CONSTANTS
  Late,        \* ticks by which the host may overrun a sleep
  Stall,       \* bound: ticks by which one sleep of the program may overrun
  InFlight     \* bound: how many bytes of a frame may still be on the wire

ASSUME TimedAssumption ==
  /\ Late \in Nat
  /\ Stall \in Nat
  /\ InFlight \subseteq 0..PACKET_SIZE

PERIOD == 3

(* Mutant: the program sleeps less than the IMU does.                      *)
PauseShort == 2

PAUSE == 8
BACKOFF == 1

VARIABLES
  imuClock,     \* ticks since the last frame was written
  clock,        \* ticks since the program went to sleep
  ages,         \* ticks since the frames not yet passed were written, oldest first
  age,          \* age of the packet taken last
  recovered     \* packets taken since the stall; -1 before it

clocks == <<imuClock, clock, ages, age, recovered>>
timedVars == <<vars, clocks>>

ENOUGH == 4    \* bound: packets counted after the stall

TimedInit ==
  /\ Init
  /\ imuClock = 0
  /\ clock = 0
  /\ ages = [k \in 1 .. Len(sent) - FramesPassed |-> 0]
  /\ age = 0
  /\ recovered = -1

(* After the stall the host is late by no more than Late.                  *)
Overrun == IF recovered = -1 THEN Stall ELSE Late

(* Time passes while the program sleeps.  The last frame sent is the end   *)
(* of the observation.                                                     *)
Tick ==
  /\ Len(sent) < MaxSent
  /\ imuClock < PERIOD + Late
  /\ \/ pc = "sleep" /\ clock < PAUSE + Overrun
     \/ pc = "backoff" /\ clock < BACKOFF + Overrun
  /\ imuClock' = imuClock + 1
  /\ clock' = clock + 1
  /\ ages' = [k \in DOMAIN ages |-> ages[k] + 1]
  /\ UNCHANGED <<vars, age, recovered>>

Write ==
  /\ Transmit
  /\ imuClock >= PERIOD
  /\ imuClock' = 0
  /\ ages' = Append(ages, 0)
  /\ UNCHANGED <<clock, age, recovered>>

(* Of the frame written in this tick some bytes may not have arrived.      *)
OnTheWire == IF imuClock = 0 THEN InFlight ELSE {0}

(* read() returns all that has arrived, up to the size of stagingBuffer.   *)
Read(n) ==
  /\ \E missing \in OnTheWire : n = Min({STAGING_SIZE, Len(line) - missing})
  /\ ReadBytes(n)
  /\ ages' = SubSeq(ages, FramesPassed' - FramesPassed + 1, Len(ages))
  /\ IF pc' = "send"
     THEN /\ age' = ages[1]
          /\ recovered' = IF recovered \in 0 .. ENOUGH - 1 THEN recovered + 1 ELSE recovered
     ELSE UNCHANGED <<age, recovered>>
  /\ UNCHANGED <<imuClock, clock>>

NothingToRead ==
  /\ Len(line) \in OnTheWire \cup {0}
  /\ ReadWouldBlock
  /\ clock' = 0
  /\ UNCHANGED <<imuClock, ages, age, recovered>>

Sendto ==
  /\ Broadcast
  /\ broadcast' # broadcast
  /\ clock' = 0
  /\ UNCHANGED <<imuClock, ages, age, recovered>>

(* A sleep is over.                                                        *)
WakesUp ==
  \E length \in {PAUSE, BACKOFF} :
    /\ \/ length = PAUSE /\ EndSleep
       \/ length = BACKOFF /\ EndBackoff
    /\ \/ clock \in length .. length + Late /\ UNCHANGED recovered
       \/ clock > length + Late /\ recovered = -1 /\ recovered' = 0
    /\ UNCHANGED <<imuClock, clock, ages, age>>

TimedNext ==
  \/ Tick
  \/ Write
  \/ \E n \in ReadSizes : Read(n)
  \/ NothingToRead
  \/ Sendto
  \/ WakesUp
  \/ Len(sent) = MaxSent /\ UNCHANGED timedVars

TimedSpec == TimedInit /\ [][TimedNext]_timedVars
-----------------------------------------------------------------------------
(* Properties.                                                             *)

(* As long as the host is never late by more than Late, what is broadcast  *)
(* is at most one sleep old: though the oldest frame of a chunk is taken   *)
(* (parse_functions.cpp:13), the frames that pile up during the sleep of   *)
(* imu_parser.cpp:91 do not make the program fall further behind with each *)
(* one, for clear() throws the rest of the chunk away.                     *)
Fresh == recovered = -1 /\ pc = "send" => age <= PAUSE + Late

(* After a stall the backlog is gone with the third packet at the latest,  *)
(* and what is broadcast is again at most one sleep old.                   *)
CatchesUp == recovered > 2 /\ pc = "send" => age <= PAUSE + Late

(* Once it has broadcast, the program broadcasts in every cycle: a frame   *)
(* has always arrived in full during the 80 ms, though the rest of the one *)
(* before it and the beginning of its own chunk may be gone, and read()    *)
(* has not to be waited for (imu_parser.cpp:32).                           *)
EveryCycle == broadcast # <<>> => pc # "backoff"
-----------------------------------------------------------------------------
(* The inductive invariant.                                                *)

TimedTypeOK ==
  /\ imuClock \in 0 .. PERIOD + Late
  /\ clock \in Nat
  /\ ages \in Seq(Nat)
  /\ age \in Nat
  /\ recovered \in -1 .. ENOUGH

(* Ticks since the last read() that took a packet or found nothing.        *)
Away == IF pc = "send" THEN 0 ELSE clock

(* The frames in Pending are those with an age, the last one written when  *)
(* imuClock was set to 0.                                                  *)
Dated ==
  /\ Len(ages) = Len(sent) - FramesPassed
  /\ ages # <<>> => ages[Len(ages)] = imuClock

(* A sleep ends when it is over, but for the stall.                        *)
SleepBounded ==
  /\ pc = "sleep" => clock <= PAUSE + Overrun
  /\ pc = "backoff" => clock <= BACKOFF + Overrun
  /\ pc = "read" => clock <= PAUSE + (IF recovered = 0 THEN Stall ELSE Late)
  /\ recovered >= 0 => Late <= Stall

(* What waits on the line is one frame and what the IMU writes, 20 bytes   *)
(* in 30 ms, in the time the program has been away, with some slack (in    *)
(* thirds of a byte).                                                      *)
Within(slack) ==
  Len(line) > 0 =>
    PERIOD * Len(line) + PACKET_SIZE * imuClock <= PACKET_SIZE * (PERIOD + Away) + slack

(* Every packet leaves a line on which nothing waits that is older than    *)
(* the sleep: the 128 bytes of a read are more than a sleep brings.  After *)
(* the stall the first packet takes a read of what has piled up; behind    *)
(* the second what is left lacks a whole frame older than the sleep.       *)
Backlog ==
  \/ Within(0)
  \/ recovered = 1 /\ Within(PACKET_SIZE * (PAUSE + Stall) - PERIOD * STAGING_SIZE)
  \/ recovered > 1 /\ Within(PACKET_SIZE - 1)

(* Then no frame is older than the sleep either.                           *)
Recent ==
  recovered = -1 \/ recovered > 1 => \A k \in DOMAIN ages : ages[k] <= Away

(* In every sleep a frame arrives in full.                                 *)
Arrived == Len(ages) > 1 \/ (ages # <<>> /\ imuClock > 0)

Cycle ==
  /\ pc = "sleep" =>
       /\ broadcast # <<>>
       /\ ages = <<>> => clock <= imuClock
       /\ ages # <<>> /\ ~ Arrived => clock <= PERIOD + Late
  /\ pc = "read" /\ broadcast # <<>> => inputBuffer = <<>> /\ Arrived

=============================================================================
