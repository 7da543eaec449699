------------------------------ MODULE LoopTest ------------------------------
(***************************************************************************)
(* The system test of the repository: run_tests.sh starts imu_parser and   *)
(* IMU_Driver/LoopTester.py on the two ends of a virtual serial line.  The *)
(* tester writes a frame, waits for a datagram, asserts that it holds the  *)
(* packet it wrote, pauses and goes on.                                    *)
(*                                                                         *)
(* A session is one run of the script.  The script ends with a kill of the *)
(* literal names PARSER_PID and TESTER_PID, which kills nothing, so that a *)
(* session finds the processes of those before it still running; every     *)
(* tester is bound to port 8888 (SO_REUSEADDR) and gets every broadcast.   *)
(*                                                                         *)
(* The line carries whole frames here and imu_parser is the relay that     *)
(* ParserImplementsRelay shows it to be.                                   *)
(***************************************************************************)
EXTENDS Integers, Sequences, FiniteSetsExt

CONSTANTS
  Runs,        \* bound: number of runs of the script
  MaxCount,    \* bound: frames a tester writes after its first
  MaxLost,     \* bound: broadcasts that do not reach everybody
  MaxSkip      \* frames imu_parser may lose behind the one it takes

ASSUME LoopAssumption ==
  /\ Runs \in Nat \ {0}
  /\ MaxCount \in Nat
  /\ MaxLost \in Nat
  /\ MaxSkip \in Nat

Sessions == 1..Runs

(* A packet is known by its count and by the tester that made it: the gyro *)
(* rates are random, so those of two testers differ.                       *)
Packet == [session : Sessions, count : 0..MaxCount]

VARIABLES
  script,    \* per session: "idle", "testing" (the 20 seconds) or "complete"
  tester,    \* per session: where LoopTester.py is
  count,     \* per session: its count
  uart,      \* per session: frames written and not yet read
  parser,    \* per session: where imu_parser is
  held,      \* per session: <<>>, or the packet parsed and not yet sent
  queue,     \* per session: datagrams in the receive queue of the tester's socket
  lost       \* history: broadcasts that did not reach every tester

testerVars == <<tester, count>>
parserVars == <<parser, held>>
vars == <<script, tester, count, uart, parser, held, queue, lost>>

Init ==
  /\ script = [s \in Sessions |-> "idle"]
  /\ tester = [s \in Sessions |-> "off"]
  /\ count = [s \in Sessions |-> 0]
  /\ uart = [s \in Sessions |-> <<>>]
  /\ parser = [s \in Sessions |-> "off"]
  /\ held = [s \in Sessions |-> <<>>]
  /\ queue = [s \in Sessions |-> <<>>]
  /\ lost = 0
-----------------------------------------------------------------------------
(* The script.  The two processes it puts in the background come up in     *)
(* either order.                                                           *)

StartSession(s) ==
  /\ script[s] = "idle"
  /\ \A earlier \in 1 .. s - 1 : script[earlier] = "complete"
  /\ script' = [script EXCEPT ![s] = "testing"]
  /\ UNCHANGED <<testerVars, uart, parserVars, queue, lost>>

(* The 20 seconds are over.  kill and wait fail on their arguments.        *)
EndSession(s) ==
  /\ script[s] = "testing"
  /\ script' = [script EXCEPT ![s] = "complete"]
  /\ UNCHANGED <<testerVars, uart, parserVars, queue, lost>>
-----------------------------------------------------------------------------
(* LoopTester.py.                                                          *)

(* The socket is bound before the serial line is opened.                   *)
TesterBinds(s) ==
  /\ script[s] # "idle"
  /\ tester[s] = "off"
  /\ tester' = [tester EXCEPT ![s] = "bound"]
  /\ UNCHANGED <<script, count, uart, parserVars, queue, lost>>

TesterOpens(s) ==
  /\ tester[s] = "bound"
  /\ tester' = [tester EXCEPT ![s] = "write"]
  /\ UNCHANGED <<script, count, uart, parserVars, queue, lost>>

TesterWrites(s) ==
  /\ tester[s] = "write"
  /\ uart' = [uart EXCEPT ![s] = Append(@, [session |-> s, count |-> count[s]])]
  /\ tester' = [tester EXCEPT ![s] = "receive"]
  /\ UNCHANGED <<script, count, parserVars, queue, lost>>

(* Mutant: recvfrom() may time out, and the tester goes on.                *)
TesterReceivesOrGivesUp(s) ==
  /\ tester[s] = "receive"
  /\ \/ /\ queue[s] # <<>>
        /\ Head(queue[s]) = [session |-> s, count |-> count[s]]
        /\ queue' = [queue EXCEPT ![s] = Tail(@)]
     \/ /\ queue[s] = <<>>
        /\ UNCHANGED queue
  /\ tester' = [tester EXCEPT ![s] = "pause"]
  /\ UNCHANGED <<script, count, uart, parserVars, lost>>

(* recvfrom() blocks until a datagram is there.  An assertion that fails   *)
(* ends the tester, and its socket goes with it.                           *)
TesterReceives(s) ==
  /\ tester[s] = "receive"
  /\ queue[s] # <<>>
  /\ \/ /\ Head(queue[s]) = [session |-> s, count |-> count[s]]
        /\ tester' = [tester EXCEPT ![s] = "pause"]
        /\ queue' = [queue EXCEPT ![s] = Tail(@)]
     \/ /\ Head(queue[s]) # [session |-> s, count |-> count[s]]
        /\ tester' = [tester EXCEPT ![s] = "failed"]
        /\ queue' = [queue EXCEPT ![s] = <<>>]
  /\ UNCHANGED <<script, count, uart, parserVars, lost>>

(* Mutant: the count goes up by two.                                       *)
TesterSkipsCount(s) ==
  /\ tester[s] = "pause"
  /\ count[s] < MaxCount
  /\ count' = [count EXCEPT ![s] = @ + 2]
  /\ tester' = [tester EXCEPT ![s] = "write"]
  /\ UNCHANGED <<script, uart, parserVars, queue, lost>>

TesterGoesOn(s) ==
  /\ tester[s] = "pause"
  /\ count[s] < MaxCount
  /\ count' = [count EXCEPT ![s] = @ + 1]
  /\ tester' = [tester EXCEPT ![s] = "write"]
  /\ UNCHANGED <<script, uart, parserVars, queue, lost>>
-----------------------------------------------------------------------------
(* imu_parser.                                                             *)

(* Mutant: the port is flushed when it is opened.                          *)
ParserOpensFlushing(s) ==
  /\ script[s] # "idle"
  /\ parser[s] = "off"
  /\ parser' = [parser EXCEPT ![s] = "read"]
  /\ uart' = [uart EXCEPT ![s] = <<>>]
  /\ UNCHANGED <<script, testerVars, held, queue, lost>>

ParserOpens(s) ==
  /\ script[s] # "idle"
  /\ parser[s] = "off"
  /\ parser' = [parser EXCEPT ![s] = "read"]
  /\ UNCHANGED <<script, testerVars, uart, held, queue, lost>>

ParserTakes(s) ==
  /\ parser[s] = "read"
  /\ \E skipped \in 0..MaxSkip :
       /\ 1 + skipped <= Len(uart[s])
       /\ held' = [held EXCEPT ![s] = <<Head(uart[s])>>]
       /\ uart' = [uart EXCEPT ![s] = SubSeq(@, 2 + skipped, Len(@))]
  /\ parser' = [parser EXCEPT ![s] = "send"]
  /\ UNCHANGED <<script, testerVars, queue, lost>>

(* read() has nothing: the program polls on.                               *)
ParserPolls(s) ==
  /\ parser[s] = "read"
  /\ uart[s] = <<>>
  /\ UNCHANGED vars

(* The sockets bound to port 8888.                                         *)
Listening == {t \in Sessions : tester[t] \notin {"off", "failed"}}

(* Mutant: the datagram is sent twice.                                     *)
ParserSendsTwice(s) ==
  /\ parser[s] = "send"
  /\ queue' = [t \in Sessions |->
                 IF t \in Listening THEN queue[t] \o held[s] \o held[s] ELSE queue[t]]
  /\ held' = [held EXCEPT ![s] = <<>>]
  /\ parser' = [parser EXCEPT ![s] = "sleep"]
  /\ UNCHANGED <<script, testerVars, uart, lost>>

(* sendto() reaches the socket of every tester that runs, its own or not,  *)
(* unless it fails or a receive queue is full.                             *)
ParserSends(s) ==
  /\ parser[s] = "send"
  /\ \E reached \in SUBSET Listening :
       /\ lost' = IF reached = Listening THEN lost ELSE lost + 1
       /\ lost' <= MaxLost
       /\ queue' = [t \in Sessions |-> IF t \in reached THEN queue[t] \o held[s] ELSE queue[t]]
  /\ held' = [held EXCEPT ![s] = <<>>]
  /\ parser' = [parser EXCEPT ![s] = "sleep"]
  /\ UNCHANGED <<script, testerVars, uart>>

ParserWakes(s) ==
  /\ parser[s] = "sleep"
  /\ parser' = [parser EXCEPT ![s] = "read"]
  /\ UNCHANGED <<script, testerVars, uart, held, queue, lost>>

Tester(s) ==
  TesterBinds(s) \/ TesterOpens(s) \/ TesterWrites(s) \/ TesterReceives(s) \/ TesterGoesOn(s)

Parser(s) ==
  ParserOpens(s) \/ ParserTakes(s) \/ ParserPolls(s) \/ ParserSends(s) \/ ParserWakes(s)

Next == \E s \in Sessions : StartSession(s) \/ EndSession(s) \/ Tester(s) \/ Parser(s)

Spec == Init /\ [][Next]_vars

(* The host schedules both processes, and their sleeps end.                *)
FairSpec == Spec /\ \A s \in Sessions : WF_vars(Tester(s)) /\ WF_vars(Parser(s))
-----------------------------------------------------------------------------
(* Properties.                                                             *)

TypeOK ==
  /\ script \in [Sessions -> {"idle", "testing", "complete"}]
  /\ tester \in [Sessions -> {"off", "bound", "write", "receive", "pause", "failed"}]
  /\ count \in [Sessions -> 0..MaxCount]
  /\ uart \in [Sessions -> Seq(Packet)]
  /\ parser \in [Sessions -> {"off", "read", "send", "sleep"}]
  /\ held \in [Sessions -> {<<>>} \cup {<<p>> : p \in Packet}]
  /\ queue \in [Sessions -> Seq(Packet)]
  /\ lost \in 0..MaxLost

(* Where the packet a tester waits for can be.                             *)
OnItsWay(s) == Len(uart[s]) + Len(held[s])

(* The tester writes its next frame only after a datagram (LoopTester.py:  *)
(* 63-66), so its line never holds two frames and the parser, which drops  *)
(* what it reads behind the first one, drops no frame of the test.         *)
LockStep == \A s \in Sessions : OnItsWay(s) <= 1

(* The assertions of LoopTester.py:75-79: what is received is what was     *)
(* written, because it was parsed and broadcast correctly.                 *)
AssertionsHold == \A s \in Sessions : tester[s] # "failed"

(* An assertion fails only when the script has been run more than once:    *)
(* what fails it is a packet of another run, whose processes line 58 of    *)
(* run_tests.sh leaves alive.  A parser that is late or a broadcast that   *)
(* is lost fails none.                                                     *)
Started == {s \in Sessions : script[s] # "idle"}

FailsOnlyAmongRuns ==
  (\E s \in Sessions : tester[s] = "failed") => \E s, t \in Started : s # t

(* Tester and parser wait for each other for ever only if a broadcast got  *)
(* lost: recvfrom (LoopTester.py:66) has no timeout and read() nothing     *)
(* more to bring.                                                          *)
Stuck(s) ==
  /\ tester[s] = "receive"
  /\ OnItsWay(s) = 0
  /\ queue[s] = <<>>

StuckOnlyAfterLoss == (\E s \in Sessions : Stuck(s)) => lost > 0

(* Every frame written is answered, by a datagram that may fail the        *)
(* assertion, unless a broadcast is lost.  The tester may write before the *)
(* parser has opened the line, and processes of an earlier run may send.   *)
EveryFrameAnswered ==
  \A s \in Sessions :
    (tester[s] = "receive") ~> (tester[s] \in {"pause", "failed"} \/ lost > 0)
-----------------------------------------------------------------------------
(* The inductive invariant.                                                *)

Own(s) == {p \in Packet : p.session = s /\ (tester[s] = "receive" => p.count = count[s])}

Empty(s) == uart[s] = <<>> /\ held[s] = <<>>

(* A session has at most one packet under way: in uart, then in held, then *)
(* in the queue of its tester, and none at all while its tester is not     *)
(* waiting (LoopTester.py:63-66, imu_parser.cpp:22-29).  What others       *)
(* broadcast may stand in the queue with it.                               *)
OneUnderWay(s) ==
  /\ uart[s] \in {<<>>} \cup {<<p>> : p \in Own(s)}
  /\ held[s] \in {<<>>} \cup {<<p>> : p \in Own(s)}
  /\ uart[s] = <<>> \/ held[s] = <<>>
  /\ parser[s] = "send" <=> held[s] # <<>>
  /\ tester[s] \notin {"receive", "failed"} => Empty(s)
  /\ \A i \in DOMAIN queue[s] :
       queue[s][i].session = s =>
         /\ tester[s] = "receive"
         /\ Empty(s)
         /\ queue[s][i].count = count[s]
         /\ \A j \in DOMAIN queue[s] : queue[s][j].session = s => j = i
  /\ tester[s] = "receive" /\ Empty(s) /\ queue[s] = <<>> => lost > 0

UnderWay == \A s \in Sessions : OneUnderWay(s)

LoopInv == TypeOK /\ UnderWay

(* Of a session that has not begun there is no process and no packet.      *)
NothingOf(s) ==
  /\ tester[s] = "off"
  /\ parser[s] = "off"
  /\ \A t \in Sessions : \A i \in DOMAIN queue[t] : queue[t][i].session # s

IdleInv == \A s \in Sessions \ Started : NothingOf(s)
=============================================================================
