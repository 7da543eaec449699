# The IMU parser in TLA+

Models, model-checking runs and proofs for the programs of this repository: the
parser that reads an IMU's frames from a serial port and broadcasts them over
UDP, its two-threaded variant, and the loop test that drives it. File names
below are relative to the repository's `src/`.

## 1. The system

```
 IMU or tester            kernel               program                  listeners
 ------------- frames --> serial -- read() --> inputBuffer -- sendto --> port 8888
 mock_imu.cpp             line     <=128 B     findHeader    127.255.     LoopTester.py
 LoopTester.py                                 parsePacket   255.255      DummyReceiver.py
```

| component | state it keeps | operations | model |
|---|---|---|---|
| frame codec: `parse_functions.cpp/.h`, `fake_data.cpp`, `fake_data_extern.cpp` | none of its own; works on a caller's buffer and position | `findHeader`, `parsePacket`, `createFakePacket` | `ImuPacket` |
| `imu_parser.cpp` | `inputBuffer`, `indexInBuffer`, `little_endian`, where it is in its loop | start-up; read / parse / broadcast; 10 ms and 80 ms sleeps | `ImuParser`, and abstractly `PacketRelay` |
| serial line and IMU: `mock_imu.cpp` | bytes under way | a whole frame every 30 ms; a short write or an error when the line is full; hang up; lose bytes or pick up noise | in `ImuParser`, `TimedParser` (its period), `NoisyLine` (its faults) |
| `imu_reader.cpp` | `dataBuffer`, `dataBufferMtx`, two threads | thread `receive`, thread `broadcast` | `ReaderThreads` |
| `LoopTester.py` | count, its socket and serial port | write a frame, await the datagram, assert, sleep 1 s | `LoopTest` |
| `run_tests.sh` | the processes it put in the background, the log of socat, the names of the ports | unit test, socat, parser, tester, 20 s, kill | `PortSetup` (up to the loops), `LoopTest` (from there) |
| the `main()` of all four programs up to its loop | the settings of a terminal port, and each program's copy of them | open, read, change and write back the settings, create the socket | `PortSetup` |
| `parser_test.cpp` | the `dataBuffer` its cases share | five cases | `ParserTest` |
| `DummyReceiver.py` | none | prints datagrams | not modelled |
| CMake, `compatibility.h`, `Catch2/` | none at run time | | not modelled |

**How they interact.** The line is a byte stream: `read()` returns any part of
it, so a frame may be cut anywhere and several may come at once. `imu_parser`
and its listeners share nothing but datagrams. The two threads of `imu_reader`
share `dataBuffer` under one mutex. `LoopTester.py` and `imu_parser` go in a
circle: tester → line → parser → datagram → tester. Every listener is bound to
the same port with `SO_REUSEADDR`, and a broadcast reaches all of them.

**What is hard, and which property is about it.**

* *Reassembly.* `parsePacket` clears the whole buffer when it takes a packet
  (`parse_functions.cpp:49`), the beginning of the next frame included. The rest
  of that frame then arrives headless. → `BroadcastGenuine`, `RelayInOrder`,
  `Streaming`.
* *What is skipped.* Frames pile up while the program sleeps 80 ms and an IMU
  sends every 30 ms; one read takes the oldest frame and drops the rest of the
  chunk. → `ImplementsRelay` (at most seven), `ParsesMostRecent` (does not hold).
* *Keeping up.* Does the program, at those periods, fall behind, and does it catch
  up after it was not scheduled for a while? → `Fresh`, `CatchesUp`, `EveryCycle`.
* *Boundaries.* The loop of `findHeader` ends one index short, the length test
  uses `<=`, the position is a `uint8_t`. → `NoCompleteFrameWaiting`,
  `BufferBounded`, `ParsesAtHeader`.
* *A line with faults.* No checksum; `write()` may take part of a frame
  (`mock_imu.cpp:17`). → `OneWrongPacketPerFault`, `TwoWrongPacketsPerFault`.
* *Coming up.* The names of the ports are read after one second, ready or not, from
  a log all runs share, while the processes of the runs before are alive; several
  programs may read and write back the settings of one device, and one does undo what
  another has set. → `PairedEnds`, `OwnLine`, `InputOnceSet`, `UndoneByStaleCopyOnly`;
  `SpeedIsSet` (does not hold).
* *Cases that share a buffer* → `AllRequirementsHold`.
* *Progress.* → `FrameIsRelayed`, `EveryFrameAnswered`.
* *Threads.* → `NoRace`, `CopiedGenuine`; *a frame never erased* →
  `StaysOnFirstFrame`; *signed characters* → `NothingParsed`.
* *A blocking `recvfrom` without timeout* → `StuckOnlyAfterLoss`; *processes
  that survive their test run* → `AssertionsHold` (does not hold),
  `FailsOnlyAmongRuns`, `UnderWay`.

The list with lines is in `PROJECT.json` under `hazards`.

## 2. The modules and the code

### ImuPacket — the codec
Operators only. Bytes are 0..255, buffers are sequences, positions 0-based as in
the code (byte `i` is `dataBuffer[i + 1]`). `Encode` is the byte sequence every
sender builds; `ntohl` depends on the constant `HostLittleEndian`. `FindHeader`
keeps the two things that matter about its C++ original: the index of the last
possible header is not looked at, and the index is stored modulo 256.
`ParsePacket` returns what the function returns *and* what it does to its two
reference arguments. A float is four opaque bytes: the code never computes with it.

### PacketRelay — what a listener is promised
The abstract specification: packets are taken in order, at most `MaxSkip` are
lost behind each one taken, one taken packet is delivered or lost. No byte, no
buffer. `InOrder` says that what it took is a subsequence of what was sent. It
has no run of its own: its properties are proved, and the runs `parser` and
`timed` check that what lies below implements it.

### ImuParser — the program
From the moment `main()` enters its loop. `pc` is the place in the loop.

| action | code (`IMU_Parser/src/imu_parser.cpp`) |
|---|---|
| `ReadBytes(n)` | 20–24: `read()` returns n > 0, insert, `parsePacket` and, by its result, on to the broadcast or to the next `read()`, in one step: nothing else touches `inputBuffer` |
| `ReadWouldBlock`, `EndBackoff` | 30–32: `EAGAIN`, 10 ms |
| `ReadFails` | 30–37: 0 or an error: log and call again |
| `Broadcast` | 26–29: `sendto` (may fail unnoticed), `break` |
| `EndSleep` | 89–92 and 16: 80 ms over, new `indexInBuffer` |
| `Transmit` | `mock_imu.cpp` 16–48, at any pace |
| `HangUp` | external: the other end closes |

`sent` and `broadcast` are history variables. The program may open the port in
the middle of a frame (`JoinOffsets`). `ParserAssumption` requires of the packets
sent that a header occurs in the stream only where a frame begins; the comment
on `NoFalseHeader` says why the generator of the repository makes such packets.

The refinement mapping to `PacketRelay` counts a packet as *passed* when the
first byte of its frame has left line and buffer, and as *held* from
`parsePacket` to `sendto`.

### TimedParser — the same program at its own pace
`ImuParser` lets any time pass between two steps. Here a tick is 10 ms, `mock_imu`
writes a frame when its 30 ms are over (`PERIOD`), and the sleeps of 80 ms
(`PAUSE`) and 10 ms (`BACKOFF`) take at least their time. Each step is a step of
`ImuParser` with conditions on the clocks, or a tick:

| action | step of `ImuParser` | condition |
|---|---|---|
| `Tick` | none | the program sleeps and neither sleeper is overdue |
| `Write` | `Transmit` | 30 ms since the last frame |
| `Read(n)` | `ReadBytes(n)` | n is all that has arrived, at most the 128 bytes of `stagingBuffer`; of a frame written in this tick some bytes (`InFlight`) may not have |
| `NothingToRead` | `ReadWouldBlock` | nothing has arrived |
| `Sendto` | `Broadcast` | it does not fail |
| `WakesUp` | `EndSleep`, `EndBackoff` | the sleep is over |

A sleep may overrun by `Late` ticks, because the host is not a real-time system,
and once by up to `Stall`. `ages` are the ages of the frames not yet passed, `age`
that of the packet taken; `recovered` counts packets since the stall. What runs
between two sleeps (microseconds) takes no time. `Backlog` relates the bytes unread to
the clocks: what waits is a frame and what the IMU has written in the time away, 20
bytes every 30 ms, but for what one read has left of the stall behind the first packet
after it, and fewer than seven bytes of that behind the second.

### NoisyLine — the same program, a worse line
Adds `LoseBytes` and `PickUpNoise` (external), and a buffer of `LineCapacity`
bytes in the kernel: a frame that does not fit is cut short by `ShortWrite`
(`mock_imu.cpp:16-21` looks only for a negative result, so the rest of the frame
is never written). A write that fails ends `mock_imu`; that is `HangUp`. The
program is unchanged.

### ParserTest — the unit test
The five cases with the bytes they push, and what they require of each call of
`parsePacket`, in every order and selection a test runner may choose: they share a
global buffer, and a case that fails leaves its bytes there.

### ReaderThreads — imu_reader
One action per stretch of code between two synchronisation points: `Read`,
`ReceiverLocks`, `Insert` (with the unlock), `BroadcasterLocks`, `Parse` (with
the unlock), `Send`. `charSigned` is the signedness of `char` on the platform of
the build, chosen once, on which `findHeader` depends: the buffer is a
`vector<char>` compared with `0xF0`. An uninitialised `ParsedPacket` is any member
of `Garbage` or the packet returned before. `CMakeLists.txt` builds no target from
this file.

### PortSetup — coming up
`main()` of `imu_parser`, `imu_reader`, `mock_imu` and `LoopTester.py` from the
start to the loop: `Calls` lists the calls of each that may fail, in order, `at` is
the next one, and a call that fails ends the program (`Fails`). `GetAttributes`
takes a copy of the settings of the port and changes it (`Configure`),
`SetAttributes` writes the copy back: between the two another program may do the
same. Of the settings the model keeps the speed and the flags that change what is
read. Either the script runs, or programs are started by hand on `/dev/tty1`.

A lost update is therefore in the model, and it happens: `imu_reader` reads the
settings, `LoopTester` makes the device raw, `imu_reader` writes its copy back
(`imu_reader.cpp:118`, `139`), and CR is converted to NL again in what both read.
`InputOnceSet` says what a device may be like for a program that has set it up, and
`UndoneByStaleCopyOnly` that this flag, this program and this order are all that can
be undone. `imu_reader` by itself never has the raw input its comment speaks of
(line 135): it leaves `ICRNL` as it was.

| action | code (`run_tests.sh`) |
|---|---|
| `StartSocat` | 41–42; the run before has ended with all its processes alive |
| `TeeOpens`, `SocatMakesEnd` | 41: the pipeline truncates the log, then names an end at a time, at any pace |
| `ReadNames` | 43–46, when the second is over; `quick` says whether a second is enough for socat |

### LoopTest — the system test
Frames are whole here and `imu_parser` is the relay of `PacketRelay` (that it is
one is `ParserImplementsRelay`). A *session* is one run of the script:
its tester, its parser, their line. `EndSession` ends nothing but the script,
because line 58 of `run_tests.sh` kills `PARSER_PID`, not `$PARSER_PID`.
A datagram reaches the receive queue of every tester alive; `lost` counts the
broadcasts that missed one. Tester and parser come up in either order.

### Instances and proofs
`MCImuParser`, `MCTimedParser`, `MCNoisyLine`, `MCParserTest`, `MCReaderThreads`,
`MCPortSetup`, `MCLoopTest` give the constants values. `ImuPacketProofs`,
`PacketRelayProofs`, `ImuParserProofs`, `TimedParserProofs`, `NoisyLineProofs`,
`ReaderThreadsProofs`, `PortSetupProofs` and `TestProofs` (the unit test and the system
test) hold the theorems.

```
 PacketRelay <--implements-- ImuParser <--implements-- TimedParser
      ^                          |  same program, other line: NoisyLine
      | stands for imu_parser    |
  LoopTest                    ImuPacket <-- ReaderThreads, ParserTest      PortSetup
```

Operators introduced by a comment "Mutant:" are wrong variants of the definition
that follows them, one plausible slip each. None is used by a specification;
substituted for the right definition, each makes the property it is listed with
in `PROJECT.json` fail.

## 3. The runs

| run | distinct states | question | answer |
|---|---|---|---|
| `parser` | 78,760 | what does `imu_parser` broadcast and keep, for every cut of three frames and three starting places? does every complete frame lead to a broadcast? | only packets sent, in order, once; no complete frame waits; the buffer stays below 39 bytes; `Streaming` is invariant; the relay is implemented; and yes, under `FairSpec` |
| `timed` | 347,002 | how old is what is broadcast, at the program's own periods? | at most 90 ms, with sleeps up to 10 ms late; again so with the third packet after a stall of up to 200 ms; what is unread is bounded by the time away (`Backlog`); after its first packet the program broadcasts in every cycle; the relay is implemented, with seven packets lost in one read after the stall |
| `noisy_line` | 2,119,502 | three frames, two faults, a line that fills up | at most one wrong datagram per fault |
| `noisy_edge` | 1,184,672 | two frames and one run of 235 bytes of noise: a header up to index 255 | what is parsed begins at the first header; two wrong datagrams, no more |
| `parser_test` | 781 | does a case depend on those run before it? | no: all requirements are met in every order and selection |
| `reader` | 82,158 | `imu_reader`, `char` signed or not | no race, no torn packet, and the first packet for ever; with signed `char` it never parses anything and keeps every byte |
| `loop` | 49,557 | two runs of the script, four frames each, one loss possible | lock step within a session; one packet under way; a standstill only after a loss; as long as nothing is lost every frame is answered; an assertion fails only among several runs |
| `port` | 27,404 | do the programs come up on ports that belong together and are raw? | parser and tester of a run are on the two ends of one line, whatever the log held; of their own if a second is enough; `imu_reader` alone gets no raw input; it may undo `ICRNL` on a device `LoopTester` made raw, and nothing else is undone |
| `parser_recent` | violated | is the packet parsed the most recent one (comment, `imu_parser.cpp:16`)? | no, the oldest |
| `noisy_long` | violated | does `findHeader` set the position at the start of the packet (`README.md:24`)? | not past index 255 |
| `loop_again` | violated | do the assertions hold in a second run of the script? | no: the first run's processes are alive |
| `port_speed` | violated | does `main()` of `imu_parser` set the speed of the port (`README.md:32`)? | no: only that of its copy |

The last four are disagreements between the code and what a comment, the README
or an assertion of the repository says; `findings` in `PROJECT.json` quotes both
sides. The other runs check for deadlock too, except `parser_test`, where the
test ends, and `port`, where the script ends and a program that has come to its
loop takes no further step of the model.

**Bounds, and why they are enough.**

* `ReadSizes` is every size 1..128 in `parser`, so each frame is cut at
  each byte, and the program starts at the first byte of a frame, behind it or at the last. Three frames: one taken, one decapitated by `clear()`, one behind it
  to show the recovery; the state between packets does not depend on older ones.
  Two packets that differ in every byte of interest show a mixture or a repetition.
  The bound ends the sending, not the program.
* `timed`: of thirteen frames ten come during the longest stall (`Stall = 20` ticks behind
  a sleep of 8), more than a read holds, and the other three are not enough for the
  third packet behind that one; behind a shorter stall the run does get there, and
  for the longest `CatchesUpHolds` is the evidence. The bounds are tight: with six lost packets in place of seven, 80 ms in
  place of 90 ms, or the second packet in place of the third, TLC finds a
  counterexample. With `MaxSent` the observation ends. The host is big-endian here
  and little-endian in the other runs. Of a frame being written all or all but one
  byte has arrived: a frame of which nothing has arrived is one not yet written,
  and where between it is cut is the matter of `parser`.
* `noisy_line` reads 1 or 33 bytes at a time and the fault strikes 0 or 9 bytes up the
  line; as the line is consumed byte by byte, every byte of the stream can be
  hit. The noise is a header's first byte, the loss 17 bytes: all of a frame but
  the three bytes that join it to the next. `LineCapacity = 45` stands for the 4096
  bytes of the kernel: two frames fit and of the third one to five bytes, so that
  short writes happen among three frames.
* `noisy_edge` has the longest run that does not put a header past 255: behind three
  bytes of a frame, in front of the other 17, so that the next frame begins at
  3 + 235 + 17 = 255. The run is put everywhere in the two frames; with 236 bytes
  `ParsesAtHeader` fails, and both index 255 and the second wrong datagram are reached.
  The packet ends in `F0 1C AF`, which the last byte of the noise makes a header.
  Reads take one byte or all 128.
* `noisy_long`: 250 noise bytes behind 13 bytes of a frame whose beginning is gone put the
  next header past 255.
* `parser_test` has no bound: the cases are finite.
* `loop`, `loop_again`: two runs are the least that interfere; `MaxSkip = 7` is the
  bound proved for `imu_parser`.
* `reader`: reads of 1, 3, 20, 40 bytes and four starting places, three frames.
* `port`: two runs of the script, or any of the four programs started by hand, each
  once; two of them suffice for a read and a write back to interleave with another, as
  `imu_reader` and `LoopTester` do when the second's settings get lost. `imu_parser` and
  `mock_imu` write nothing back: if `mock_imu` did (the mutant `CallsOfSetter`),
  its copy could bring back all of the flags.

**Fairness, and why the code justifies it.** `FairSpec` is the
specification of `parser` and `loop`. The program runs on a preemptive host: `sendto` returns and sleeps end (`WF` on `Broadcast`, `EndBackoff`,
`EndSleep`). `read()` is non-blocking and is called for ever; a byte written at
921600 baud arrives in about 11 µs, so a poll cannot answer `EAGAIN` for ever
while bytes are on the line: this is the `SF` on `ReadBytes`, which needs to be
strong because a poll that comes back empty disables the read for 10 ms. In
`LoopTest` (run `loop`) the tester and the parser of each session are weakly fair: each is one
process, and a step of it that is possible stays possible. Nothing is assumed of
the IMU, of a hang-up, or of the script. No fairness is assumed of the mutex of
`imu_reader`, and none can be: `broadcast()` takes it again as soon as it has
released it.

## 4. What is proved

All theorems hold for every value of the constants that satisfies the named
`ASSUME` of the module: any set of packets without a false header, any number of
frames, any read sizes up to 128, any starting place (`ParserAssumption`); any
lateness and any stall (`TimedAssumption`); any place, length and number of faults and
any capacity of the line (`NoiseAssumption`); any number of runs, frames and losses
(`LoopAssumption`), of runs and programs started by hand (`SetupAssumption`);
either byte order (`HostOrderAssumption`) and signedness, and any packets at all
(`ReaderAssumption`). The theorems about `PacketRelay` state their one assumption,
`SkipAssumption`, themselves, and so does `CopiedWasSent`, the only theorem about the
reader that excludes packets with a false header. Where a property of the clocks or
of the noisy line holds for some values only, the theorem has the condition as a
hypothesis; each is explained below and met by the run that checks the property, but
for `ParsedAtFirstHeader`, which is about other faults than the run `noisy_edge`.

* **ImuPacketProofs.** `FieldsRoundTrip`: the fields copied from an encoded
  frame are the fields encoded, on either byte order. `ParseOneFrame`: a buffer
  that is one frame parses to its packet.
* **ImuParserProofs.** `Streaming` is the heart of the inductive invariant
  `IInv = TypeOK /\ Streaming /\ BroadcastGenuine`: the unread bytes (buffer and line)
  are a *suffix of the stream of frames*, and the buffer ends before the end of
  the first frame that begins in it. It is needed because `BroadcastGenuine`
  alone says nothing of the bytes still to be parsed. From it follow where a
  header can be (a multiple of 20 into the stream, `NoFalseHeader`), so that
  what `parsePacket` copies is one frame, and `clear()` again leaves a suffix.
  `StreamingHolds`, `ParserTypeOK`, `GenuineDatagrams`, `BufferStaysBounded`
  and `NothingLeftWaiting` are its consequences.
  The second half of the module is the refinement. `ParserImplementsRelay`:
  `ImuParser!Spec` implements `PacketRelay!Spec` with `MaxSkip = 7`. A read that
  completes a frame is a `Take`; one that does not leaves `FramesPassed` alone;
  `Broadcast` is `Deliver` or `Lose`. `DatagramsInOrder` then carries `InOrder` over from the relay.
* **PacketRelayProofs.** `RelayTypeOK`, `RelayInOrder` (`InOrder` is inductive with
  the type invariant: the witness is extended by `passed + 1`).
* **TimedParserProofs.** `TimedImplementsParser`: a step of `TimedParser` is a step of
  `ImuParser` or leaves its variables alone, so that every theorem about the
  latter holds at the actual periods too; `TimedImplementsRelay` is the one that
  the run `timed` checks. What the clocks imply rests on the invariants at the end
  of `TimedParser`: the ages are those of the frames not passed (`Dated`), a sleep
  ends when it is over (`SleepBounded`), the bytes unread are paid for by the time
  away, a frame for each 30 ms (`Within`, `Backlog`), and no frame is older than
  that (`Recent`). `Fresh` alone is not inductive: that the packet taken is young
  follows from what the packet before it left on the line. With the time in ticks of
  10 ms:
  * `FreshHolds` for `Late <= 11`, `BacklogHolds` and `CatchesUpHolds` for
    `Late <= 11` and `Stall + Late <= 23`. A sleep of `8 + Late` ticks brings 20 bytes
    every three ticks, and the 128 bytes of a read are those of 19 of them and a fifth
    of the next; the sleep with the stall has to leave so little that the second read
    behind it leaves fewer bytes than the rounding to whole frames spares. Both bounds
    are exact: with `Late = 12` TLC finds a packet that is too old, with
    `Stall + Late = 24` one that has not caught up.
  * `EveryCycleHolds` for `Late <= 4` and any stall, from `Cycle`: after a packet
    the rest of its successor may be beheaded, and the one behind it must be whole
    when the sleep is over, so that two periods, each late, have to fit in it. This
    bound is exact: for `Late = 5` TLC finds a cycle without a broadcast.
* **NoisyLineProofs.** `NoisyTypesHold`: type correctness for any noise, losses and
  short writes. The invariant of the
  others explains the bytes still to be parsed, of which the properties say nothing.
  Every byte unread has a *place* in the stream of frames sent or is noise, and
  neighbours follow each other in the stream unless a fault left its *trace* between
  them (`Explained`). A loss or a short write leaves one trace, a run of noise one at
  its first byte and one at its last; what is inside of the run has none, and is
  nowhere next to a byte of the stream (`Apart`). Bytes without a trace are
  therefore all of the stream, and a packet in them is a frame, or all of the inside of
  noise, and there is no header (`UntracedParse`). A wrong packet, then, has a trace among
  the bytes read, which are gone with it: `Charged` counts that the wrong packets are no
  more than the traces taken off. Places and traces are existentially quantified in the
  invariant (`Blame`), and each step gives the witnesses of the next state.
  * `FaultsPaidFor`, for noise that is one stray byte at a time (`StrayBytesOnly`):
    any number of faults cost at most one wrong packet each.
  * `RunsPaidFor`, for runs of noise of any bytes and length without a header inside
    (`NoHeaderInNoise`): at most two each, `TwoWrongPacketsPerFault`. Less does not
    hold. Four bytes `7F` in front of the last three bytes of a frame that are `F0 1C AF`
    by chance cost two: the packet at the frame's own header ends inside the noise, `clear()` throws
    away what has arrived, and the last noise byte makes a header of the three bytes
    behind it. A run that holds a header may cost a packet for each; it is several
    faults of `FaultsPaidFor`, one a byte.
  * `ParsedAtFirstHeader`, for at most ten faults, the noise again one byte at a time: the
    position `findHeader` returns never wraps. With 253 bytes in front of the first header
    there would be eleven windows of 23 bytes without one; 23 bytes without a trace
    hold a header, so each window would have a trace of its own. The theorem says nothing of
    longer runs: for one of them `noisy_edge` shows that the property holds up to index
    255, and `noisy_long` that it fails behind it.
* **ReaderThreadsProofs.** `DataBufferNotRaced`, from the invariant that ties
  the mutex to the places of the two threads. `ReaderInv` is the invariant for
  what the threads do to the bytes: within the first 20 bytes that are not erased
  a frame begins or will (`FrameNear`), therefore the first header is never so far
  that the `uint8_t` wraps, therefore what is copied stands at index 0 when
  `parse()` returns and still does at every later call (`FirstFrame`). From it
  `FirstPacketForEver`, for packets that contain headers too; `SignedParsesNothing`,
  which needs only that no byte of a signed `char` equals `0xF0`; `ReaderTypeOK`.
  For `CopiedWasSent` it is joined by `FrontInv`: what is not erased begins with the
  last k bytes of the first frame, the second behind them. A header no farther than
  k is therefore at k, or at 0 if all of the first frame is there, and what is
  copied behind it is the second packet or the first. No later frame matters:
  that is `FirstFrame`.
* **PortSetupProofs.** `SetupInv`: the log is empty or holds the ends of *one*
  session from the first on (`LogInv`), therefore two names read from it at once
  are the two ends of one line (`NamesInv`), `EndsArePaired`; a session whose names
  are read in time finds its own, since every earlier one is complete,
  `LinesAreOwn`; the copies are made as the program makes them from what a port can be like
  (`CopyMade`: `LoopTester`'s is raw, `imu_reader`'s has `ICRNL` unless it is
  a copy of what `LoopTester` has set), and a port is as it was at first or as one of
  these copies (`PortMade`), `InputAsSet`. Together they leave one step that undoes
  anything: a copy with `ICRNL` written over a raw device, made before it was
  raw, `OneFlagUndone`.
  `SetupTypeOK`.
* **TestProofs**, the unit test: for each call of `parsePacket` a lemma says what it returns
  when the bytes of its case are pushed into an empty buffer, on
  either byte order. That the buffer is empty before is `TestInv`: the call before has parsed
  a packet, which clears it, or it was the last of its case and met its requirement, and
  the case has cleared it. No case depends on another, then, `RequirementsMet`;
  `TestTypesHold`.
* **TestProofs**, the system test: `LoopInv = TypeOK /\ UnderWay`: the one packet of a session is
  on the line, then in the parser, then in its tester's queue, and none exists
  while the tester is not waiting. It has to say this of *every* session at once,
  since a broadcast changes all the queues. From it `LoopTypeOK`,
  `OnePacketUnderWay`, `TestInLockStep`, `StandstillOnlyAfterLoss`. With `IdleInv`,
  that of a session not begun there is no process and no packet,
  `FailureNeedsTwoRuns`: a packet that fails an assertion is of another session,
  which has begun. It is the counterpart of the run `loop_again`.

**Only model-checked:** liveness (`FrameIsRelayed`, `EveryFrameAnswered`), which
is out of the proof system's reach, with everything that takes `ENABLED`. No specification that is proved about
uses a `RECURSIVE` operator or needs an induction over data.

## 5. What is not modelled, and why

* `Catch2/`: a vendored third-party test framework, all but about a thousand of
  the code lines under `src/`. The build does not use it (`CMakeLists.txt` looks for an installed
  Catch2). `ParserTest` takes of the framework that a failing `REQUIRE` leaves its case,
  and that cases may be selected and ordered. Because of it the models cover a
  small share of all lines and nearly all of those that are this project's own.
* The arguments of `LoopTester.py` (24–36) and its `--test-mode` other than 0; the
  build and the virtual environment in `run_tests.sh` (1–30): sequential code before
  anything runs, which ends in a message or goes on.
* Frames with a header inside: `NoFalseHeader` excludes them, and the generator
  cannot make one (the comment on `NoFalseHeader` says why). `ReaderThreads`
  does not exclude them: of its theorems only `CopiedWasSent` needs it, and says so.
* The time of the calls themselves; clocks finer than 10 ms.
* Of the settings of a port, those that do not change what is read (parity, stop
  bits, output). Permissions and the reasons why a call fails.
* Floating-point values and logging.
* `DummyReceiver.py` (a listener without state), `compatibility.h` (stubs for editing
  on Windows), CMake.

## 6. Plan

The order in which the modules were written is that of importance: `ImuPacket`,
`ImuParser`, `PacketRelay` with the refinement, `NoisyLine`, `LoopTest`,
`ReaderThreads`, `PortSetup`, `TimedParser`, `ParserTest`. What is left:

1. **Proofs.** Every safety property that a passing run checks has its theorem. What can be
   sharpened: noise with headers inside, whose wrong packets `RunsPaidFor` does not bound.
2. **Composition.** `LoopTest` uses the relay by translation; a refinement of `LoopTest`
   with `ImuParser` in the place of its parser would make the step a checked one.
3. **False headers.** `ImuParser` with packets that hold a header, should another IMU
   than the generator be connected: the relay no longer holds, and the question is
   how many wrong datagrams each one costs.
