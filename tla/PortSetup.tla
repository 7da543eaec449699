------------------------------ MODULE PortSetup ------------------------------
(***************************************************************************)
(* The start-up of the programs, from main() to their loops, the terminal  *)
(* ports they set up, and the script that tells them which ports to open.  *)
(*                                                                         *)
(* run_tests.sh starts socat, which makes two ends of a virtual line and   *)
(* names them in a log; a second later it reads the log and starts         *)
(* imu_parser on the first end and LoopTester.py on the second.  Nothing   *)
(* that an earlier run of the script started has ended (PARSER_PID for     *)
(* $PARSER_PID in line 58).  Or the programs are started by hand, without  *)
(* an argument, on the device they all have for a default.                 *)
(***************************************************************************)
EXTENDS Integers, Sequences

CONSTANTS
  Runs,      \* bound: number of runs of the script
  ByHand     \* bound: the programs that may be started by hand

Program == {"imu_parser", "imu_reader", "mock_imu", "LoopTester"}

ASSUME SetupAssumption == Runs \in Nat /\ ByHand \subseteq Program

Sessions == 1..Runs

Process == [program : ByHand, session : {0}]
             \cup [program : {"imu_parser", "LoopTester"}, session : Sessions]

(* A port is the default device, an end of the line of a session, or the   *)
(* empty name.                                                             *)
UART_PORT_FILE == <<0, 0>>
NoName == <<>>
Ends == Sessions \X {1, 2}
Port == Ends \cup {UART_PORT_FILE}

(* Of the settings of a terminal: the speed, and what keeps its input from *)
(* being read as it was written.                                           *)
Cooked == {"ICANON", "ISIG", "IXON", "ICRNL"}
Settings == [speed : {"initial", "B921600"}, flags : SUBSET Cooked]

VARIABLES
  quick,       \* socat takes less than the second the script gives it
  hand,        \* the programs started by hand; if any, the script is not run
  script,      \* per session: "idle", "waiting" or "started"
  socat,       \* per session: how many ends it has made; -1: its log is not open
  log,         \* /tmp/socatOutput.txt
  vport,       \* per session: VPORT1 and VPORT2
  settings,    \* per port, in the kernel
  at,          \* per process: its next call; 0 when it has ended
  config       \* per process: tty_config, its copy of the settings

scriptVars == <<quick, hand, script, socat, log, vport>>
vars == <<quick, hand, script, socat, log, vport, settings, at, config>>

(* Mutant of Calls: mock_imu writes its copy back.                         *)
CallsOfSetter == [
  imu_parser |-> <<"open", "tcgetattr", "socket">>,
  imu_reader |-> <<"open", "tcgetattr", "tcsetattr", "socket">>,
  mock_imu   |-> <<"open", "tcgetattr", "tcsetattr">>,
  LoopTester |-> <<"socket", "open", "tcgetattr", "tcsetattr">> ]

(* The calls that may fail on the way to the loop.                         *)
Calls == [
  imu_parser |-> <<"open", "tcgetattr", "socket">>,
  imu_reader |-> <<"open", "tcgetattr", "tcsetattr", "socket">>,
  mock_imu   |-> <<"open", "tcgetattr">>,
  LoopTester |-> <<"socket", "open", "tcgetattr", "tcsetattr">> ]

(* Mutants of Configure: imu_reader leaves the line in canonical mode; the *)
(* tester's port is opened at another speed.                               *)
ConfigureCanonical(program, t) ==
  CASE program = "imu_parser" -> [t EXCEPT !.speed = "B921600"]
    [] program = "mock_imu"   -> [t EXCEPT !.speed = "B921600"]
    [] program = "imu_reader" -> [speed |-> "B921600", flags |-> t.flags \ {"IXON"}]
    [] program = "LoopTester" -> [speed |-> "B921600", flags |-> {}]

ConfigureSlow(program, t) ==
  CASE program = "imu_parser" -> [t EXCEPT !.speed = "B921600"]
    [] program = "mock_imu"   -> [t EXCEPT !.speed = "B921600"]
    [] program = "imu_reader" -> [speed |-> "B921600", flags |-> t.flags \ {"ICANON", "ISIG", "IXON"}]
    [] program = "LoopTester" -> [speed |-> "B9600", flags |-> {}]

(* What a program writes into its copy.  pyserial makes its port raw.      *)
Configure(program, t) ==
  CASE program = "imu_parser" -> [t EXCEPT !.speed = "B921600"]
    [] program = "mock_imu"   -> [t EXCEPT !.speed = "B921600"]
    [] program = "imu_reader" -> [speed |-> "B921600", flags |-> t.flags \ {"ICANON", "ISIG", "IXON"}]
    [] program = "LoopTester" -> [speed |-> "B921600", flags |-> {}]

File(p) ==
  IF p.session = 0 THEN UART_PORT_FILE
  ELSE vport[p.session][IF p.program = "imu_parser" THEN 1 ELSE 2]

Exists(port) == port = UART_PORT_FILE \/ (port \in Ends /\ socat[port[1]] >= port[2])

(* The default device begins as a terminal does; socat makes raw ends.     *)
AtFirst(port) ==
  [speed |-> "initial", flags |-> IF port = UART_PORT_FILE THEN Cooked ELSE {}]

Init ==
  /\ quick \in BOOLEAN
  /\ hand \in SUBSET ByHand
  /\ script = [s \in Sessions |-> "idle"]
  /\ socat = [s \in Sessions |-> -1]
  /\ log = <<>>
  /\ vport = [s \in Sessions |-> <<NoName, NoName>>]
  /\ settings = [port \in Port |-> AtFirst(port)]
  /\ at = [p \in Process |-> 1]
  /\ config = [p \in Process |-> [speed |-> "initial", flags |-> {}]]
-----------------------------------------------------------------------------
(* run_tests.sh.                                                           *)

(* The run before has gone on for 20 seconds.                              *)
StartSocat(s) ==
  /\ hand = {}
  /\ script[s] = "idle"
  /\ \A earlier \in 1 .. s - 1 : script[earlier] = "started" /\ socat[earlier] = 2
  /\ script' = [script EXCEPT ![s] = "waiting"]
  /\ UNCHANGED <<quick, hand, socat, log, vport, settings, at, config>>

(* Mutant: the log is appended to (tee -a).                                *)
TeeAppends(s) ==
  /\ script[s] # "idle"
  /\ socat[s] = -1
  /\ socat' = [socat EXCEPT ![s] = 0]
  /\ UNCHANGED <<quick, hand, script, log, vport, settings, at, config>>

(* tee empties the log; until then it names the ends of the run before.    *)
TeeOpens(s) ==
  /\ script[s] # "idle"
  /\ socat[s] = -1
  /\ socat' = [socat EXCEPT ![s] = 0]
  /\ log' = <<>>
  /\ UNCHANGED <<quick, hand, script, vport, settings, at, config>>

SocatMakesEnd(s) ==
  /\ socat[s] \in {0, 1}
  /\ socat' = [socat EXCEPT ![s] = @ + 1]
  /\ log' = Append(log, <<s, socat[s] + 1>>)
  /\ UNCHANGED <<quick, hand, script, vport, settings, at, config>>

(* Mutant: both names come from the first line.                            *)
Line(i) == IF i <= Len(log) THEN log[i] ELSE NoName

ReadsFirstTwice(s) ==
  /\ script[s] = "waiting"
  /\ quick => socat[s] = 2
  /\ vport' = [vport EXCEPT ![s] = <<Line(1), Line(1)>>]
  /\ script' = [script EXCEPT ![s] = "started"]
  /\ UNCHANGED <<quick, hand, socat, log, settings, at, config>>

(* The second is over.  The log is read once, as it stands.                *)
ReadNames(s) ==
  /\ script[s] = "waiting"
  /\ quick => socat[s] = 2
  /\ vport' = [vport EXCEPT ![s] = <<Line(1), Line(2)>>]
  /\ script' = [script EXCEPT ![s] = "started"]
  /\ UNCHANGED <<quick, hand, socat, log, settings, at, config>>
-----------------------------------------------------------------------------
(* The programs.                                                           *)

HasStarted(p) == IF p.session = 0 THEN p.program \in hand ELSE script[p.session] = "started"

Running(p) ==
  /\ HasStarted(p)
  /\ at[p] \in DOMAIN Calls[p.program]

InLoop(p) == at[p] = Len(Calls[p.program]) + 1

Returns(p, call) ==
  /\ Running(p)
  /\ Calls[p.program][at[p]] = call
  /\ at' = [at EXCEPT ![p] = @ + 1]
  /\ UNCHANGED scriptVars

Open(p) ==
  /\ Returns(p, "open")
  /\ Exists(File(p))
  /\ UNCHANGED <<settings, config>>

GetAttributes(p) ==
  /\ Returns(p, "tcgetattr")
  /\ config' = [config EXCEPT ![p] = Configure(p.program, settings[File(p)])]
  /\ UNCHANGED settings

SetAttributes(p) ==
  /\ Returns(p, "tcsetattr")
  /\ settings' = [settings EXCEPT ![File(p)] = config[p]]
  /\ UNCHANGED config

CreateSocket(p) ==
  /\ Returns(p, "socket")
  /\ UNCHANGED <<settings, config>>

(* A call that fails ends the program: it throws, exits or returns.        *)
Fails(p) ==
  /\ Running(p)
  /\ at' = [at EXCEPT ![p] = 0]
  /\ UNCHANGED <<scriptVars, settings, config>>

Next ==
  \/ \E s \in Sessions : StartSocat(s) \/ TeeOpens(s) \/ SocatMakesEnd(s) \/ ReadNames(s)
  \/ \E p \in Process :
       Open(p) \/ GetAttributes(p) \/ SetAttributes(p) \/ CreateSocket(p) \/ Fails(p)

Spec == Init /\ [][Next]_vars
-----------------------------------------------------------------------------
(* Properties.                                                             *)

TypeOK ==
  /\ quick \in BOOLEAN
  /\ hand \subseteq ByHand
  /\ script \in [Sessions -> {"idle", "waiting", "started"}]
  /\ socat \in [Sessions -> -1..2]
  /\ log \in Seq(Ends)
  /\ vport \in [Sessions -> (Ends \cup {NoName}) \X (Ends \cup {NoName})]
  /\ settings \in [Port -> Settings]
  /\ at \in [Process -> 0..5]
  /\ config \in [Process -> Settings]

InScript == {p \in Process : p.session # 0}

(* Whatever the log held when its names were read, the parser and the      *)
(* tester of a run that both get to their loops are on the two ends of one *)
(* line (run_tests.sh:43-45).                                              *)
PairedEnds ==
  \A p, q \in InScript :
    /\ InLoop(p) /\ p.program = "imu_parser"
    /\ InLoop(q) /\ q.program = "LoopTester"
    /\ p.session = q.session
    => \E t \in Sessions : File(p) = <<t, 1>> /\ File(q) = <<t, 2>>

(* When a second is enough for socat, every run of the script has a line   *)
(* of its own, though the processes of earlier runs are alive and the log  *)
(* is the same file (run_tests.sh:38-43).                                  *)
OwnLine ==
  quick => \A p, q \in InScript : InLoop(p) /\ InLoop(q) /\ p # q => File(p) # File(q)

(* What LoopTester makes of a port, and what imu_reader makes of the       *)
(* default device: it does not turn the conversion of CR to NL off         *)
(* (imu_reader.cpp:134-139), so that a byte 13 may be read as 10.          *)
RawInput == [speed |-> "B921600", flags |-> {}]
CRConverted == [speed |-> "B921600", flags |-> {"ICRNL"}]

(* imu_reader has a copy in which the conversion is on.                    *)
ReadersCopy(port) ==
  \E r \in Process :
    r.program = "imu_reader" /\ File(r) = port /\ config[r] = CRConverted

(* imu_reader alone never gets the raw input its comment speaks of         *)
(* (imu_reader.cpp:135) from a device that is not raw before: CR is        *)
(* converted.  With LoopTester on the same device the input is raw, also   *)
(* for imu_reader, unless it is imu_reader's copy that is in force and     *)
(* that copy is from before LoopTester's settings.  The ends of the lines  *)
(* of the script are raw for the tester, whatever else runs.               *)
InputOnceSet ==
  \A p \in Process :
    InLoop(p) /\ p.program \in {"imu_reader", "LoopTester"} =>
      \/ /\ settings[File(p)] = RawInput
         /\ p.program = "imu_reader" => "LoopTester" \in hand
      \/ /\ settings[File(p)] = CRConverted
         /\ ReadersCopy(File(p))

(* A copy other than the program would make of the settings as they are.   *)
Stale(p) == config[p] # Configure(p.program, settings[File(p)])

(* The one thing a program undoes of what another has set: imu_reader      *)
(* turns the conversion of CR on again on a device that LoopTester has     *)
(* made raw, when LoopTester has set it between imu_reader's tcgetattr()   *)
(* and its tcsetattr() (imu_reader.cpp:118, 139).  No speed is undone, no  *)
(* canonical mode, signal or flow control comes back, and nothing at all   *)
(* through a copy that is up to date.                                      *)
UndoneByStaleCopyOnly ==
  [][\A port \in Port :
       /\ settings[port].speed = "B921600" => settings'[port].speed = "B921600"
       /\ ~ (settings'[port].flags \subseteq settings[port].flags) =>
            /\ settings[port] = RawInput
            /\ \E p \in Process :
                 /\ p.program = "imu_reader"
                 /\ File(p) = port
                 /\ config[p] = CRConverted
                 /\ Stale(p)
                 /\ settings'[port] = config[p]]_vars

(* The README, line 32: the main method of imu_parser sets up the port     *)
(* with an input baud rate of 921600.                                      *)
SpeedIsSet ==
  \A p \in Process :
    InLoop(p) /\ p.program = "imu_parser" => settings[File(p)].speed = "B921600"
-----------------------------------------------------------------------------
(* The inductive invariant.                                                *)

Made(s, n) == [i \in 1..n |-> <<s, i>>]

(* The log holds the ends socat has made for one session: the newest of    *)
(* those whose log was opened.  No session overlaps the start of another.  *)
LogInv ==
  /\ \A s \in Sessions : script[s] = "idle" => socat[s] = -1
  /\ \A s, t \in Sessions : s < t /\ script[t] # "idle" => script[s] = "started" /\ socat[s] = 2
  /\ log = <<>> \/ \E s \in Sessions : socat[s] \in 0..2 /\ log = Made(s, socat[s])
  /\ \A s \in Sessions :
       socat[s] \in 0..2 /\ (\A t \in Sessions : t > s => socat[t] = -1)
       => log = Made(s, socat[s])

NamesOf(t) == {<< <<t, 1>>, NoName >>, << <<t, 1>>, <<t, 2>> >>}

NamesInv ==
  /\ \A s \in Sessions :
       vport[s] = <<NoName, NoName>> \/ \E t \in Sessions : vport[s] \in NamesOf(t)
  /\ quick => \A s \in Sessions : script[s] = "started" => vport[s] = << <<s, 1>>, <<s, 2>> >>

(* A process whose calls up to this one have returned.                     *)
Past(p, call) == \E i \in 1 .. at[p] - 1 : Calls[p.program][i] = call

(* The copies, once made, and the ports: as they were at first, or set     *)
(* by one of the copies.  On the default device only LoopTester makes a    *)
(* raw one.                                                                *)
CopyMade(p) ==
  /\ p.program = "LoopTester" => config[p] = RawInput
  /\ p.program = "imu_reader" =>
       config[p] = CRConverted \/ (config[p] = RawInput /\ "LoopTester" \in hand)

PortMade(port) ==
  \/ settings[port] = AtFirst(port)
  \/ settings[port] = RawInput /\ (port = UART_PORT_FILE => "LoopTester" \in hand)
  \/ settings[port] = CRConverted /\ ReadersCopy(port)

PortsInv ==
  /\ \A p \in Process : at[p] > 1 => HasStarted(p)
  /\ \A p \in Process : Past(p, "open") => File(p) \in Port
  /\ \A p \in Process : Past(p, "tcgetattr") => CopyMade(p)
  /\ \A port \in Port : PortMade(port)
  /\ \A p \in Process :
       Past(p, "tcsetattr") => File(p) \in Port /\ settings[File(p)] # AtFirst(File(p))

SetupInv == TypeOK /\ LogInv /\ NamesInv /\ PortsInv
=============================================================================
